------------------------------ MODULE MCMemory ------------------------------
EXTENDS Memory

Entry(start, len, usable) == [start |-> start, len |-> len, usable |-> usable]

(* Odd and even starts and lengths, a hole, an entry too many. *)
MCMaps == {<<Entry(1, 6, TRUE), Entry(8, 5, TRUE)>>,
           <<Entry(2, 3, TRUE), Entry(5, 2, FALSE), Entry(7, 9, TRUE)>>,
           <<Entry(3, 1, TRUE), Entry(4, 4, TRUE), Entry(9, 7, TRUE), Entry(20, 4, TRUE)>>}

MCDeviceSizes == {<<>>, <<4>>, <<2, 64, 16>>, <<8, 4, 16, 2>>}

Kind(type, size_bits, num) == [type |-> type, size_bits |-> size_bits, num |-> num]

MCKinds == {Kind("ENDPOINT", 0, 1), Kind("NOTIFICATION", 0, 2), Kind("TCB", 0, 1),
            Kind("PAGE", 0, 2), Kind("CNODE", 3, 1), Kind("UNTYPED", 3, 1),
            Kind("ENDPOINT", 0, 19)}

=============================================================================
