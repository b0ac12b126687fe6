----------------------------- MODULE ByteStream -----------------------------
(***************************************************************************)
(* What the agent tunnel promises to the two programs at the ends of a     *)
(* stream (the SSH client in the gateway, the bridge to sshd in the        *)
(* agent): net.Conn as internal/agent/registry.go offers it.  Each end     *)
(* reads what the other wrote, in order and without gaps, and an end of    *)
(* file that the reader did not cause itself comes after the last byte     *)
(* unless the connection underneath broke.                                 *)
(***************************************************************************)
EXTENDS Naturals, Sequences

CONSTANTS Streams   \* the multiplexed connections of one agent

VARIABLES
  sent,    \* sent[e][s]: chunks that end e wrote before it hung up
  got,     \* got[e][s]: the numbers of the chunks that e read, in order
  ended,   \* ended[e]: the streams on which e's reader has been told to stop
  hung,    \* hung[e]: the streams that e has hung up
  broken   \* the connection that carries all of them is lost

vars == <<sent, got, ended, hung, broken>>

Ends == {"gateway", "agent"}
Peer(e) == IF e = "gateway" THEN "agent" ELSE "gateway"

Init ==
  /\ sent = [e \in Ends |-> [s \in Streams |-> 0]]
  /\ got = [e \in Ends |-> [s \in Streams |-> << >>]]
  /\ ended = [e \in Ends |-> {}]
  /\ hung = [e \in Ends |-> {}]
  /\ broken = FALSE

Write(e, s) ==
  /\ s \notin hung[e]
  /\ sent' = [sent EXCEPT ![e][s] = @ + 1]
  /\ UNCHANGED <<got, ended, hung, broken>>

Read(e, s) ==
  /\ s \notin ended[e] /\ Len(got[e][s]) < sent[Peer(e)][s]
  /\ got' = [got EXCEPT ![e][s] = Append(@, Len(@) + 1)]
  /\ UNCHANGED <<sent, ended, hung, broken>>

\* The clean end of a stream: the peer hung up and everything has been read.
Drained(e, s) == s \in hung[Peer(e)] /\ Len(got[e][s]) = sent[Peer(e)][s]

ReadEOF(e, s) ==
  /\ Drained(e, s) \/ s \in hung[e] \/ broken
  /\ ended' = [ended EXCEPT ![e] = @ \cup {s}]
  /\ UNCHANGED <<sent, got, hung, broken>>

HangUp(e, s) ==
  /\ hung' = [hung EXCEPT ![e] = @ \cup {s}]
  /\ UNCHANGED <<sent, got, ended, broken>>

Break == broken' = TRUE /\ UNCHANGED <<sent, got, ended, hung>>

Next ==
  \/ \E e \in Ends, s \in Streams :
       Write(e, s) \/ Read(e, s) \/ ReadEOF(e, s) \/ HangUp(e, s)
  \/ Break

Spec == Init /\ [][Next]_vars
=============================================================================
