------------------------------ MODULE MCExchange ------------------------------
(* Small instances of Exchange for TLC: the messages of each end.          *)
EXTENDS Exchange

M(h, b, f, v) == [header |-> h, body |-> b, framing |-> f, valid |-> v]

(* Requests without and with a body, too long, and malformed; responses    *)
(* with each kind of end.                                                  *)
Messages ==
  [client |-> {M(2, 0, "length", TRUE), M(1, 2, "length", TRUE), M(1, 1, "length", FALSE)},
   server |-> {M(2, 1, "length", TRUE), M(1, 2, "chunked", TRUE), M(1, 1, "close", TRUE),
               M(1, 3, "chunked", TRUE)}]

Limits == [client |-> 2, server |-> 2]
Bounds == [client |-> 4, server |-> 4]
=============================================================================
