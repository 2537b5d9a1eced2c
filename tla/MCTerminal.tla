------------------------------ MODULE MCTerminal ------------------------------
(* A small instance of Terminal for TLC. *)
EXTENDS Terminal, TLC

CONSTANTS p1, p2, w1, w2

MCReaders == {p1, p2}
MCBytes == {"x", "y"}
MCUsers == {{p1, p2}, {w1, w2}}
MCWriters == {w1, w2}
MCLetters == {"d", "D"}
MCSerialKeys == Keys \ {"D"}
MCCounts == {2}
MCAlpha == {"D-key"}
MCSymbols == {"1-key"}
MCNamed == {"return"}
MCSilent == {"F1"}
MCLower == ("D-key" :> "d") @@ ("1-key" :> "d") @@ ("return" :> "\r")
MCUpper == ("D-key" :> "D") @@ ("1-key" :> "D")
MCControl == ("D-key" :> EOT)
Sym == Permutations(Readers) \cup Permutations(Writers)
==============================================================================
