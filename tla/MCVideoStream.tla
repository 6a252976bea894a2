--------------------------- MODULE MCVideoStream ---------------------------
(* VideoStream for TLC, which takes states for one that do the same to the   *)
(* peer: of the bounds only the sums count; nothing of a stopped client is   *)
(* parsed, and a packet without its head is as good as any other; of what is *)
(* left in a client that the peer has moved on from only the numbers matter, *)
(* as they may be lost, once its last call has returned; and of the last     *)
(* frame that was taken the properties ask for the number and the time.      *)
EXTENDS VideoStream

Spent == <<encoder[1].sent + encoder[2].sent, encoder[1].bogus + encoder[2].bogus,
           parser[1].junk + parser[2].junk>>

Unparsed(c) ==
    IF running[c]
    THEN <<encoder[c].next, parser[c].torn, IF parser[c].torn THEN Tail(wire[c]) ELSE wire[c]>>
    ELSE <<>>
Unheard(c) ==
    IF attached <= c \/ call[c] # None THEN <<cache[c], ready[c]>>
    ELSE [i \in DOMAIN ready[c] |-> Number(ready[c][i])]
LastTaken(c) == <<out[c].n, out[c].pts>>

Alike ==
    <<Spent, encoder[1].n, encoder[2].n, Unparsed(1), Unparsed(2), Unheard(1), Unheard(2),
      LastTaken(1), LastTaken(2), running, listens, call, seen, attached, clock, soon,
      queue, lost>>

============================================================================
