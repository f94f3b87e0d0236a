---------------------------- MODULE MessageQueue ----------------------------
(***************************************************************************)
(* What the serial port promises the main loop: the bytes that come over   *)
(* the line, cut into messages at the delimiters, each message once and in *)
(* order.  A byte that is lost on the way is as if it was never sent.      *)
(***************************************************************************)
EXTENDS Sequences, Naturals

VARIABLES
  line,     \* what is still to come of the host's last message
  coming,   \* what has come since the last delimiter
  queue,    \* the messages the main loop has not taken yet
  message   \* the one it works on, or << >>

vars == <<line, coming, queue, message>>

Delimiter == 0

Init ==
  /\ line = << >>
  /\ coming = << >>
  /\ queue = << >>
  /\ message = << >>

Send ==
  /\ line = << >>
  /\ line' # << >>
  /\ UNCHANGED <<coming, queue, message>>

Receive ==
  /\ line # << >>
  /\ line' = Tail(line)
  /\ \/ /\ Head(line) = Delimiter
        /\ queue' = Append(queue, coming)
        /\ coming' = << >>
     \/ /\ Head(line) # Delimiter
        /\ coming' = Append(coming, Head(line))
        /\ UNCHANGED queue
  /\ UNCHANGED message

Lose ==
  /\ line # << >>
  /\ line' = Tail(line)
  /\ UNCHANGED <<coming, queue, message>>

Take ==
  /\ queue # << >>
  /\ message' = Head(queue)
  /\ queue' = Tail(queue)
  /\ UNCHANGED <<line, coming>>

Done ==
  /\ message' = << >>
  /\ UNCHANGED <<line, coming, queue>>

Next == Send \/ Receive \/ Lose \/ Take \/ Done

Spec == Init /\ [][Next]_vars
=============================================================================
