----------------------------- MODULE JoybusPipe -----------------------------
(***************************************************************************)
(* What the Joybus link promises the two programs that use it: a queue of  *)
(* words each way.  Each side sends the words 1, 2, 3, ...; a word arrives *)
(* at most once and in order, and words are lost only when more are under  *)
(* way than the Game Boy has room for.  How the words travel, and when the *)
(* driver has nothing to show for a read, is left out.                     *)
(***************************************************************************)
EXTENDS Integers, SequencesExt

CONSTANTS Room,     \* the words the Game Boy can hold for one direction
          MaxWords  \* bound: the words each side sends

VARIABLES toGba, toWii,     \* the words under way
          gbaNext, gbaGot,  \* the next word the Game Boy sends, the last it read
          wiiNext, wiiGot   \* the same for the Wii

vars == <<toGba, toWii, gbaNext, gbaGot, wiiNext, wiiGot>>

Init == /\ toGba = <<>> /\ toWii = <<>>
        /\ gbaNext = 1 /\ gbaGot = 0
        /\ wiiNext = 1 /\ wiiGot = 0

WiiWrites == /\ wiiNext <= MaxWords
             /\ toGba' = Append(toGba, wiiNext)
             /\ wiiNext' = wiiNext + 1
             /\ UNCHANGED <<toWii, gbaNext, gbaGot, wiiGot>>

GbaReads == /\ toGba # <<>>
            /\ gbaGot' = Head(toGba)
            /\ toGba' = Tail(toGba)
            /\ UNCHANGED <<toWii, gbaNext, wiiNext, wiiGot>>

GbaSends == /\ gbaNext <= MaxWords
            /\ toWii' = Append(toWii, gbaNext)
            /\ gbaNext' = gbaNext + 1
            /\ UNCHANGED <<toGba, gbaGot, wiiNext, wiiGot>>

WiiReads == /\ toWii # <<>>
            /\ wiiGot' = Head(toWii)
            /\ toWii' = Tail(toWii)
            /\ UNCHANGED <<toGba, gbaNext, gbaGot, wiiNext>>

LosesToGba == /\ Len(toGba) > Room
              /\ \E i \in 1..Len(toGba) : toGba' = RemoveAt(toGba, i)
              /\ UNCHANGED <<toWii, gbaNext, gbaGot, wiiNext, wiiGot>>

LosesToWii == /\ Len(toWii) >= Room
              /\ \E i \in 1..Len(toWii) : toWii' = RemoveAt(toWii, i)
              /\ UNCHANGED <<toGba, gbaNext, gbaGot, wiiNext, wiiGot>>

Next == WiiWrites \/ GbaReads \/ GbaSends \/ WiiReads \/ LosesToGba \/ LosesToWii

Spec == Init /\ [][Next]_vars

=============================================================================
