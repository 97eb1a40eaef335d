------------------------------ MODULE MCReplay -----------------------------
(***************************************************************************)
(* A program whose last word is the word that ends a transfer, and traces  *)
(* of it: sessions that end with the exit string, alone, after the start   *)
(* of one that fails, before other text, after a NUL, around one; a        *)
(* session that was interrupted; traces with a line missing at the end, in *)
(* the middle, or in the middle of a renumbered one.                       *)
(***************************************************************************)
EXTENDS Replay

Symbols == {"D", "O", "N", "E", "!", "nl", "other", "NUL"} \cup
           {"SOH", "size", "hash", "crc", "ACK", "w", "EOT", "bogus"}
EndsLikeEOT == <<"w", "EOT">>
Said(before, after) == Recorded(before \o EXIT_STRING \o after)
Without(t, k) == SubSeq(t, 1, k - 1) \o SubSeq(t, k + 1, Len(t))
Renumbered(t) == [k \in DOMAIN t |-> [t[k] EXCEPT !.cnt = k - 1]]
AroundNUL == Recorded(<<"D", "O", "N", NUL, "E", "!", "!", "!", "nl">>)
Interrupted == Recorded(<<"D", "O", "N", "E", "!", "!", "other", "!", "nl">>)

Whole == Said(<<>>, <<>>)
Sessions ==
    { Whole, Said(<<"D", "O", "other">>, <<>>), Said(<<>>, <<"other">>),
      Said(<<NUL>>, <<>>), AroundNUL, Interrupted,
      Without(Whole, Len(Whole)), Without(Whole, 4), Renumbered(Without(Whole, 6)) }
=============================================================================
