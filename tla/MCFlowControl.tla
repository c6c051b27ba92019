---------------------------- MODULE MCFlowControl ----------------------------
(***************************************************************************)
(* Two streams: a byte stream of whole frames and a packet channel.        *)
(***************************************************************************)
EXTENDS FlowControl

Sizes == [s \in Streams |-> IF s = 1 THEN 2 ELSE 1]

Records(first, second) == [s \in Streams |-> IF s = 1 THEN first ELSE second]

\* Windows that grow, and windows that batch their returns.
Small == [stream |-> [initial |-> 2, maximum |-> 3],
          connection |-> [initial |-> 3, maximum |-> 4]]
Large == [stream |-> [initial |-> 4, maximum |-> 4],
          connection |-> [initial |-> 5, maximum |-> 6]]

Scene(limits, records, streams, sides) ==
    [stream |-> limits.stream, connection |-> limits.connection,
     todo |-> records, closing |-> streams, rotating |-> sides]

MCScenes ==
    {Scene(Large, Records(2, 2), {}, {}),
     Scene(Large, Records(1, 2), {}, {"receiver"}),
     Scene(Small, Records(1, 1), {1}, {"sender"}),
     Scene(Large, Records(1, 1), {1}, {"sender", "receiver"})}
=============================================================================
