--------------------------- MODULE MCCaptureList ---------------------------
(***************************************************************************)
(* Two captures: "sipcall", taken from 4 to 6, which speaks sip, and       *)
(* "backup", which says nothing of when it was taken and speaks tls.  The  *)
(* boxes hold a word that is in one's name, one only protocols can tell,   *)
(* its negation, facets and a time.                                        *)
(***************************************************************************)
EXTENDS CaptureList

CONSTANTS sipcall, backup, sip, tls, noon

TableCapture == {sipcall, backup}
TableInOrder == [s \in SUBSET TableCapture |-> SelectSeq(<<backup, sipcall>>, LAMBDA c : c \in s)]
TableStart   == {{sipcall}, {backup, sipcall}}
TableWord    == {sip, tls, noon}

Typed(neg, facet, sign, word) == [neg |-> neg, facet |-> facet, sign |-> sign, word |-> word]

TableBox == {
  <<>>,
  <<Typed(TRUE, "", "", tls)>>,
  <<Typed(FALSE, "proto", "", sip), Typed(TRUE, "name", "", tls)>>,
  <<Typed(FALSE, "before", "", noon), Typed(FALSE, "", "", sip)>>}

TableToken == UNION {{b[i] : i \in DOMAIN b} : b \in TableBox}

TableMoment == [w \in TableWord \cup {NoWord} |-> IF w = noon THEN [from |-> 5, to |-> 7] ELSE NoTime]

TableInName == [c \in TableCapture |-> [w \in TableWord |-> c = sipcall /\ w = sip]]
TableInStamp == [c \in TableCapture |-> [w \in TableWord |-> FALSE]]
TableSpeaks == [c \in TableCapture |-> [w \in TableWord |-> <<c, w>> \in {<<sipcall, sip>>, <<backup, tls>>}]]
TableFirst == [c \in TableCapture |-> IF c = sipcall THEN 4 ELSE 0]
TableFinal == [c \in TableCapture |-> IF c = sipcall THEN 6 ELSE 0]
TableMtime == [c \in TableCapture |-> 9]
TableUploads == {<<backup, sipcall>>, <<backup>>}

\* TLC works out a definition of its own once, and what a constant stands for every time.
MCCapture == TableCapture
MCInOrder == TableInOrder
MCStart   == TableStart
MCWord    == TableWord
MCToken   == TableToken
MCBox     == TableBox
MCMoment  == TableMoment
MCInName  == TableInName
MCInStamp == TableInStamp
MCSpeaks  == TableSpeaks
MCFirst   == TableFirst
MCFinal   == TableFinal
MCMtime   == TableMtime
MCUploads == TableUploads
=============================================================================
