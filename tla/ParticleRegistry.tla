------------------------- MODULE ParticleRegistry -------------------------
(* What the presence storage promises about particles, whatever the number *)
(* of servers, the order of their calls and the calls that fail: every     *)
(* particle has at most one owner, its state is written by its owner only, *)
(* and an owner that changes is told to the new one.  PresenceRuntime      *)
(* implements it.                                                          *)
CONSTANTS Presences, Particles, Positions, None
VARIABLES owner, content, inbox

States == Presences \X Positions

Init ==
  /\ owner = [d \in Particles |-> None]
  /\ content = [d \in Particles |-> None]
  /\ inbox = [p \in Presences |-> {}]

(* The owner, or the first presence to come, writes the particle.          *)
Write(d, p) ==
  /\ owner[d] \in {None, p}
  /\ owner' = [owner EXCEPT ![d] = p]
  /\ \E pos \in Positions : content' = [content EXCEPT ![d] = <<p, pos>>]
  /\ UNCHANGED inbox

(* A handed over particle keeps its last state and is announced.           *)
HandOver(d, p, q) ==
  /\ owner[d] = p
  /\ owner' = [owner EXCEPT ![d] = q]
  /\ inbox' = [inbox EXCEPT ![q] = @ \union {d}]
  /\ UNCHANGED content

Next ==
  \E d \in Particles, p \in Presences :
    \/ Write(d, p)
    \/ \E q \in Presences \ {p} : HandOver(d, p, q)

Spec == Init /\ [][Next]_<<owner, content, inbox>>
===========================================================================
