-------------------------------- MODULE Echo -------------------------------
(***************************************************************************)
(* What my-install and echo do with the output of the pi: a read returns   *)
(* the bytes that have arrived, whatever the pieces they were written in,  *)
(* and done looks for the string that ends the session.                    *)
(***************************************************************************)
EXTENDS Sequences, Naturals, Functions

EXIT_STRING == <<"D", "O", "N", "E", "!", "!", "!", "nl">>
NUL == "NUL"

CONSTANT Symbol      \* the characters, and the words of a protocol before them
ASSUME EchoAssumption == Range(EXIT_STRING) \cup {NUL} \subseteq Symbol

(* The state of done: pos survives from one read to the next, stop does
   not. *)
Recogniser == [pos : 0 .. Len(EXIT_STRING), seen : BOOLEAN, stop : BOOLEAN]
Fresh == [pos |-> 0, seen |-> FALSE, stop |-> FALSE]

Matches(r, c) == c = EXIT_STRING[r.pos + 1]
Matched(r) == [r EXCEPT !.pos = @ + 1, !.seen = r.pos + 1 = Len(EXIT_STRING)]

(* A mutant: a character that does not fit is skipped, not the match. *)
StepSkips ==
    [r \in Recogniser |-> [c \in Symbol |->
        IF r.stop \/ r.seen THEN r
        ELSE IF c = NUL THEN [r EXCEPT !.stop = TRUE]
        ELSE IF Matches(r, c) THEN Matched(r) ELSE r]]

(* One character: a NUL ends the piece, and the character at which a match
   fails is not looked at again. *)
Step ==
    [r \in Recogniser |-> [c \in Symbol |->
        IF r.stop \/ r.seen THEN r
        ELSE IF c = NUL THEN [r EXCEPT !.stop = TRUE]
        ELSE IF Matches(r, c) THEN Matched(r) ELSE [r EXCEPT !.pos = 0]]]

(* done(buf), where buf holds one piece and a NUL. *)
done(r, piece) ==
    LET after[k \in 0 .. Len(piece)] ==
            IF k = 0 THEN r ELSE Step[after[k - 1]][piece[k]]
    IN  [after[Len(piece)] EXCEPT !.stop = FALSE]
=============================================================================
