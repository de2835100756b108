--------------------------- MODULE MCFileTransfer ---------------------------
(* Small instances of FileTransfer: savePath is new, holds the beginning   *)
(* of the file, or something else.  Two goroutines of S share the file     *)
(* when its accept is repeated, which UDP does.                            *)
EXTENDS FileTransfer

Bounded(p, f, n, k, c) ==
  [path |-> p, found |-> f, senders |-> n, nacks |-> k, cancels |-> c]

Mixed == {Bounded(p, <<>>, 1, 2, {}) : p \in {"p2p", "relay"}}
         \cup {Bounded(p, <<>>, 1, 1, {"S", "R"}) : p \in {"p2p", "relay"}}
         \cup {Bounded("p2p", <<0>>, 1, 0, {}), Bounded("p2p", <<1>>, 2, 0, {})}
=============================================================================
