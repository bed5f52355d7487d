------------------------------ MODULE IrqLatch ------------------------------
(***************************************************************************)
(* The interrupt latch shared by the simple devices (lsi11/irq_latch.h):   *)
(* DONE and IE mirror the bits of the device's CSR, irq_req is the latched *)
(* request the arbiter looks at, irq_armed permits the next DONE event to  *)
(* raise a request.  The operators are the inline functions of the header, *)
(* each from a latch to the latch it leaves.                               *)
(***************************************************************************)

\* struct irq_latch_t
Latch == [done : BOOLEAN, ie : BOOLEAN, irq_req : BOOLEAN, irq_armed : BOOLEAN]

\* irq_latch_reset
LatchReset == [done |-> FALSE, ie |-> FALSE, irq_req |-> FALSE, irq_armed |-> TRUE]

\* irq_latch_event_set_done: a device event sets DONE once.
EventSetDone(l) ==
    IF l.done
    THEN l
    ELSE [l EXCEPT !.done = TRUE,
                   !.irq_req = @ \/ (l.ie /\ l.irq_armed),
                   !.irq_armed = @ /\ ~(l.ie /\ l.irq_armed)]

\* Mutant of LatchAck: the grant leaves the request set.
LatchAckNothing(l) == l

\* irq_latch_ack: the grant clears the request and nothing else.
LatchAck(l) == [l EXCEPT !.irq_req = FALSE]

\* Mutant of SwClearDone: the latch is not armed again.
SwClearDoneDisarmed(l) == [l EXCEPT !.done = FALSE, !.irq_req = FALSE]

\* irq_latch_sw_clear_done
SwClearDone(l) ==
    [l EXCEPT !.done = FALSE, !.irq_req = FALSE, !.irq_armed = TRUE]

\* irq_latch_set_ie: the policy is that IE alone raises nothing.
SetIe(l, ie) == [l EXCEPT !.ie = ie]

=============================================================================
