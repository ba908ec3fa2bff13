--------------------------- MODULE CoSignConsent ---------------------------
(***************************************************************************)
(* What a negotiation promises the humans behind the two hosts, with       *)
(* everything else left out: an opening is agreed once, each human may     *)
(* ratify after that, and a host records the co-signature only when all    *)
(* humans ratified.  Nothing is ever taken back.                           *)
(***************************************************************************)
CONSTANT Party

VARIABLES
  opened,    \* the recipient's human accepted the opening
  ratified,  \* the parties whose human ratified
  cosigned   \* the parties that hold the co-signed record

vars == <<opened, ratified, cosigned>>

Init == opened = FALSE /\ ratified = {} /\ cosigned = {}

AgreeToOpen ==
  /\ ~opened /\ opened' = TRUE
  /\ UNCHANGED <<ratified, cosigned>>

AgreeToRatify(p) ==
  /\ opened
  /\ ratified' = ratified \cup {p}
  /\ UNCHANGED <<opened, cosigned>>

Record(p) ==
  /\ ratified = Party
  /\ cosigned' = cosigned \cup {p}
  /\ UNCHANGED <<opened, ratified>>

Next == AgreeToOpen \/ \E p \in Party : AgreeToRatify(p) \/ Record(p)

Spec == Init /\ [][Next]_vars
=============================================================================
