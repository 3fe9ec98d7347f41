----------------------------- MODULE MCChannel -----------------------------
(* Two producers, two consumers and a closer, with channels of all three   *)
(* kinds.  Every ring is filled and wraps around, and there are more calls *)
(* of send() than it has slots.                                            *)
EXTENDS Channel, TLC
CONSTANTS p1, p2, r1, r2, k

MCProducer == {p1, p2}
MCConsumer == {r1, r2}
MCCloser == {k}
MCCoro == {p1, p2, r1, r2, k}
MCCv == {m_producer_cv, m_consumer_cv}

Load(n, i, j, consumers) ==
    [capacity |-> n, calls |-> p1 :> i @@ p2 :> j, consumers |-> consumers]

MCLoads == {Load(0, 1, 1, {r1, r2}), Load(1, 2, 1, {r1, r2}),
            Load(2, 3, 1, {r1}), Load(3, 4, 1, {r1})}

\* One value through a channel<int>, as in channel_test.cpp.
CloseLoads == {Load(0, 1, 0, {r1, r2})}
=============================================================================
