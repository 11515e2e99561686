----------------------------- MODULE FrameOrder -----------------------------
(***************************************************************************)
(* The order in which an animation's frames are taken up: ffmpeg numbers   *)
(* the files from 1, frame_%04d.png, and the code sorts their names as     *)
(* strings (images/imager.go, images/generate/main.go).                    *)
(***************************************************************************)
EXTENDS Naturals, Sequences, SequencesExt

CONSTANTS Radix,  \* of the numbers in the names (10)
          Digits  \* the least width of a number in a name (4)

ASSUME NamesAssumption == Radix \in Nat \ {0, 1} /\ Digits \in Nat \ {0}

\* Numbers below this fill their names with leading zeros.
FrameLimit == Radix ^ Digits

Width(i) == CHOOSE w \in Digits..(Digits + i) :
                i < Radix ^ w /\ (w = Digits \/ Radix ^ (w - 1) <= i)

\* frame_%04d: at least Digits digits, the most significant one first.
FrameName(i) == [k \in 1..Width(i) |-> (i \div Radix ^ (Width(i) - k)) % Radix]

\* The order of strings: a prefix comes first, then the first difference decides.
NameBefore(s, t) ==
    \/ IsStrictPrefix(s, t)
    \/ \E k \in (DOMAIN s) \cap (DOMAIN t) :
          s[k] < t[k] /\ \A j \in 1..(k - 1) : s[j] = t[j]

\* sort.Strings(framePaths), as the numbers of the frames.
SortedFrames(n) ==
    SetToSortSeq(1..n, LAMBDA i, j : NameBefore(FrameName(i), FrameName(j)))

\* images/generate: the first maxFrames of them are kept.
KeptFrames(n, max) == SubSeq(SortedFrames(n), 1, Min({n, max}))
=============================================================================
