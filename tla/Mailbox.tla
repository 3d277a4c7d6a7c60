---- MODULE Mailbox ----
\* What a dispatcher promises to those that post to it: one line of
\* accepted requests, served one at a time in the order of acceptance
\* until the mailbox is closed; closing cancels exactly those not served.
EXTENDS Naturals, Sequences

CONSTANT Requests

VARIABLES
    line,       \* the accepted requests, in order
    served,     \* how many of them have run
    open        \* whether a request may be accepted

Init ==
  /\ line = <<>>
  /\ served = 0
  /\ open = FALSE

Open ==
  /\ ~open /\ line = <<>>
  /\ open' = TRUE
  /\ UNCHANGED <<line, served>>

Accept(r) ==
  /\ open
  /\ \A i \in DOMAIN line : line[i] # r
  /\ line' = Append(line, r)
  /\ UNCHANGED <<served, open>>

Serve ==
  /\ open
  /\ served < Len(line)
  /\ served' = served + 1
  /\ UNCHANGED <<line, open>>

Close ==
  /\ open
  /\ open' = FALSE
  /\ UNCHANGED <<line, served>>

Next == Open \/ (\E r \in Requests : Accept(r)) \/ Serve \/ Close

Spec == Init /\ [][Next]_<<line, served, open>>
====================
