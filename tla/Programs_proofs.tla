-------------------------- MODULE Programs_proofs --------------------------
(***************************************************************************)
(* The three programs of MCPrograms, each on its own: what a client of a   *)
(* loader gets, what a program on a pseudo-terminal shows, and what a boot *)
(* leaves behind; and the types of all three.                              *)
(***************************************************************************)
EXTENDS MCPrograms, TLAPS

-----------------------------------------------------------------------------
(* The loader and its client: what is on its way.                          *)

Item == [call : Calls, kind : {"msg", "ok", "error"}, body : Seq(Nat)]

\* What is on its way to the client, and what is there of a call: messages, and ends.
Way == stdout \o down

Msgs(c, way)  == {i \in DOMAIN way : way[i].call = c /\ way[i].kind = "msg"}
Lasts(c, way) == {i \in DOMAIN way : way[i].call = c /\ way[i].kind # "msg"}

\* The runner's methods that start processes, or stop them.
Runner == {"Fork", "Spawn", "Stop", "Batch"}

\* After the g messages the client has, those on their way are the next of the answer,
\* in order; nothing follows an end, and an ok follows the last of them.  num tells
\* which message of its answer each one is.
Right(c, way, num, g, ans) ==
    \A i \in Msgs(c, way) : num[i] \in (g + 1)..Len(ans) /\ way[i].body = ans[num[i]]
InTurn(c, way, num) == \A i, j \in Msgs(c, way) : i < j => num[i] < num[j]
NoGap(c, way, num, g, ans) ==
    \A i \in Msgs(c, way) : \A k \in (g + 1)..Len(ans) :
        k < num[i] => \E j \in Msgs(c, way) : j < i /\ num[j] = k
EndsLast(c, way, num, g, ans) ==
    \A i \in Lasts(c, way) :
        /\ \A j \in Msgs(c, way) \cup Lasts(c, way) : j <= i
        /\ way[i].kind = "ok" =>
              \A k \in (g + 1)..Len(ans) : \E j \in Msgs(c, way) : num[j] = k

Fits(c, way, num, g, ans) ==
    /\ Right(c, way, num, g, ans) /\ InTurn(c, way, num)
    /\ NoGap(c, way, num, g, ans) /\ EndsLast(c, way, num, g, ans)

\* All of the first p messages are there, or with the client, and no more.
UpTo(c, way, num, g, p) ==
    /\ g <= p
    /\ \A k \in (g + 1)..p : \E j \in Msgs(c, way) : num[j] = k
    /\ \A j \in Msgs(c, way) : num[j] <= p

\* How much of its answer a handler has produced before it returns.
Produced(c) == IF script[c].method \in {"AppendAndPrint", "Babble"} \cup Rendering
               THEN handler[c].n ELSE 0

Working(c) == server # "gone" /\ handler[c].at # "returned"

Numbering(num) ==
    /\ Len(num) = Len(Way)
    /\ \A c \in Calls :
          /\ Fits(c, Way, num, Len(got[c]), Answer(script[c]))
          /\ Working(c) => UpTo(c, Way, num, Len(got[c]), Produced(c))

Onward == stdoutOpen => \E num \in Seq(Nat) : Numbering(num)

Returned == stdoutOpen => \A c \in Calls : Lasts(c, Way) # {} => handler[c].at = "returned"

\* Nothing will come any more.
Deaf == process \in {"exited", "dead"} /\ stdout = <<>>

Told == stdoutOpen => \A c \in Calls : status[c] # "open" =>
              \/ Deaf
              \/ handler[c].at = "returned" /\ Msgs(c, Way) \cup Lasts(c, Way) = {}

Limit(call) == CASE call.method = "Babble" -> IF call.n = 0 THEN 0 ELSE Copies
                 [] OTHER -> call.n

\* A handler's place is one of its method.
Placed(c, at) ==
    /\ at = "command" => script[c].method = "Shell"
    /\ at \in {"wrap", "open", "await", "reply"} => script[c].method \in Runner
    /\ at \in {"fetch", "save", "render", "extract", "frames"} => script[c].method \in Rendering
    /\ at \in {"extract", "frames"} => script[c].n > 0

Handling == \A c \in Calls :
    /\ handler[c].n <= Limit(script[c])
    /\ Placed(c, handler[c].at)

Unspawned == user \in {"play", "spawn"} => process = "none"

Given == \A c \in Calls : /\ Len(got[c]) <= Len(Answer(script[c]))
                         /\ \A k \in DOMAIN got[c] : got[c][k] = Answer(script[c])[k]

PlaceNames == {"serve", "command", "wrap", "open", "await", "reply", "fetch", "save", "render",
               "extract", "frames", "hung", "returned"}
Places == [at : PlaceNames, n : Nat]

LTypes ==
    /\ script \in Scripts
    /\ handler \in [Calls -> Places]
    /\ stdout \in Seq(Item) /\ down \in Seq(Item) /\ stdoutOpen \in BOOLEAN
    /\ got \in [Calls -> Seq(Seq(Nat))] /\ status \in [Calls -> {"open", "ok", "failed"}]

LInv == LTypes /\ Handling /\ Unspawned /\ Given /\ Onward /\ Returned /\ Told

\* A message on its way that is of another call changes nothing for this one.
Unmoved(c, way, m, num, k, g, ans) ==
    /\ Msgs(c, Append(way, m)) = Msgs(c, way) /\ Lasts(c, Append(way, m)) = Lasts(c, way)
    /\ Fits(c, way, num, g, ans) => Fits(c, Append(way, m), Append(num, k), g, ans)
    /\ \A p \in Nat : UpTo(c, way, num, g, p) => UpTo(c, Append(way, m), Append(num, k), g, p)

LEMMA OtherAppended ==
  ASSUME NEW S, NEW way \in Seq(S), NEW m \in S, NEW num \in Seq(Nat), NEW k \in Nat,
         NEW c, NEW g \in Nat, NEW ans, Len(num) = Len(way), m.call # c
  PROVE  Unmoved(c, way, m, num, k, g, ans)
<1> DEFINE w == Append(way, m)
           u == Append(num, k)
           l == Len(way) + 1
<1>1. DOMAIN w = 1..l /\ DOMAIN way = 1..(l - 1) /\ l \in Nat
  OBVIOUS
<1>2. \A i \in 1..(l - 1) : w[i] = way[i] /\ u[i] = num[i]
  OBVIOUS
<1>3. w[l] = m
  OBVIOUS
<1> HIDE DEF w, u, l
<1>4. Msgs(c, w) = Msgs(c, way) /\ Lasts(c, w) = Lasts(c, way)
  BY <1>1, <1>2, <1>3 DEF Msgs, Lasts
<1>5. \A i \in Msgs(c, way) \cup Lasts(c, way) : w[i] = way[i] /\ u[i] = num[i]
  BY <1>1, <1>2 DEF Msgs, Lasts
<1>6. Fits(c, way, num, g, ans) => Fits(c, w, u, g, ans)
  <2>1. Right(c, way, num, g, ans) => Right(c, w, u, g, ans)
    BY <1>4, <1>5 DEF Right
  <2>2. InTurn(c, way, num) => InTurn(c, w, u)
    BY <1>4, <1>5 DEF InTurn
  <2>3. NoGap(c, way, num, g, ans) => NoGap(c, w, u, g, ans)
    BY SMTT(30), <1>4, <1>5 DEF NoGap
  <2>4. EndsLast(c, way, num, g, ans) => EndsLast(c, w, u, g, ans)
    BY <1>4, <1>5 DEF EndsLast
  <2>5. QED
    BY <2>1, <2>2, <2>3, <2>4 DEF Fits
<1>7. \A p \in Nat : UpTo(c, way, num, g, p) => UpTo(c, w, u, g, p)
  BY <1>4, <1>5 DEF UpTo
<1>8. QED
  BY <1>4, <1>6, <1>7 DEF Unmoved, w, u

\* The next message of the answer.
Grown(c, way, m, num, p, g, ans) ==
    /\ Fits(c, Append(way, m), Append(num, p + 1), g, ans)
    /\ UpTo(c, Append(way, m), Append(num, p + 1), g, p + 1)
    /\ Lasts(c, Append(way, m)) = {}

LEMMA NextAppended ==
  ASSUME NEW S, NEW way \in Seq(S), NEW m \in S, NEW num \in Seq(Nat), NEW p \in Nat,
         NEW c, NEW g \in Nat, NEW T, NEW ans \in Seq(T), Len(num) = Len(way),
         m.call = c, m.kind = "msg", Lasts(c, way) = {},
         p + 1 <= Len(ans), m.body = ans[p + 1],
         Fits(c, way, num, g, ans), UpTo(c, way, num, g, p)
  PROVE  Grown(c, way, m, num, p, g, ans)
<1> DEFINE w == Append(way, m)
           u == Append(num, p + 1)
           l == Len(way) + 1
<1>1. DOMAIN w = 1..l /\ DOMAIN way = 1..(l - 1) /\ l \in Nat \ {0}
  OBVIOUS
<1>2. \A i \in 1..(l - 1) : w[i] = way[i] /\ u[i] = num[i] /\ num[i] \in Nat
  OBVIOUS
<1>3. w[l] = m /\ u[l] = p + 1
  OBVIOUS
<1> HIDE DEF w, u, l
<1>4. Msgs(c, w) = Msgs(c, way) \cup {l} /\ Lasts(c, w) = {}
  BY <1>1, <1>2, <1>3 DEF Msgs, Lasts
<1>5. \A i \in Msgs(c, way) : w[i] = way[i] /\ u[i] = num[i] /\ num[i] \in Nat /\ i \in Nat /\ i < l
                              /\ num[i] <= p
  BY SMTT(30), <1>1, <1>2 DEF Msgs, UpTo
<1>6. \A k \in (g + 1)..p : \E j \in Msgs(c, way) : num[j] = k
  BY DEF UpTo
<1>7. g <= p /\ Len(ans) \in Nat
  BY DEF UpTo
<1>8. Right(c, w, u, g, ans)
  <2>1. p + 1 \in (g + 1)..Len(ans)
    BY <1>7
  <2>2. QED
    BY <1>3, <1>4, <1>5, <2>1 DEF Fits, Right
<1>9. InTurn(c, w, u)
  BY SMTT(30), <1>1, <1>3, <1>4, <1>5 DEF Fits, InTurn
<1>10. ASSUME NEW i \in Msgs(c, w), NEW k \in (g + 1)..Len(ans), k < u[i]
       PROVE  \E j \in Msgs(c, w) : j < i /\ u[j] = k
  <2>1. CASE i \in Msgs(c, way)
    <3>1. PICK j \in Msgs(c, way) : j < i /\ num[j] = k
      BY <1>5, <1>10, <2>1 DEF Fits, NoGap
    <3>2. QED
      BY <1>4, <1>5, <3>1
  <2>2. CASE i = l
    <3>1. k \in (g + 1)..p
      BY <1>3, <1>7, <1>10, <2>2
    <3>2. PICK j \in Msgs(c, way) : num[j] = k
      BY <1>6, <3>1
    <3>3. QED
      BY <1>4, <1>5, <2>2, <3>2
  <2>3. QED
    BY <1>4, <1>10, <2>1, <2>2
<1>11. Fits(c, w, u, g, ans)
  BY <1>4, <1>8, <1>9, <1>10 DEF Fits, NoGap, EndsLast
<1>12. UpTo(c, w, u, g, p + 1)
  <2>1. ASSUME NEW k \in (g + 1)..(p + 1) PROVE \E j \in Msgs(c, w) : u[j] = k
    <3>1. CASE k = p + 1
      BY <1>3, <1>4, <3>1
    <3>2. CASE k # p + 1
      <4>1. k \in (g + 1)..p
        BY <3>2
      <4>2. PICK j \in Msgs(c, way) : num[j] = k
        BY <1>6, <4>1
      <4>3. QED
        BY <1>4, <1>5, <4>2
    <3>3. QED
      BY <3>1, <3>2
  <2>2. \A j \in Msgs(c, w) : u[j] <= p + 1
    BY <1>3, <1>4, <1>5
  <2>3. QED
    BY <1>7, <2>1, <2>2 DEF UpTo
<1>13. QED
  BY <1>4, <1>11, <1>12 DEF Grown, w, u

\* The end of a call: an ok has to wait for the whole answer.
LEMMA EndAppended ==
  ASSUME NEW S, NEW way \in Seq(S), NEW m \in S, NEW num \in Seq(Nat), NEW k \in Nat,
         NEW c, NEW g \in Nat, NEW T, NEW ans \in Seq(T), Len(num) = Len(way),
         m.call = c, m.kind # "msg", Lasts(c, way) = {},
         m.kind = "ok" => UpTo(c, way, num, g, Len(ans)),
         Fits(c, way, num, g, ans)
  PROVE  Fits(c, Append(way, m), Append(num, k), g, ans)
<1> DEFINE w == Append(way, m)
           u == Append(num, k)
           l == Len(way) + 1
<1>1. DOMAIN w = 1..l /\ DOMAIN way = 1..(l - 1) /\ l \in Nat \ {0}
  OBVIOUS
<1>2. \A i \in 1..(l - 1) : w[i] = way[i] /\ u[i] = num[i]
  OBVIOUS
<1>3. w[l] = m
  OBVIOUS
<1> HIDE DEF w, u, l
<1>4. Msgs(c, w) = Msgs(c, way) /\ Lasts(c, w) = {l}
  BY SMTT(30), <1>1, <1>2, <1>3 DEF Msgs, Lasts
<1>5. \A i \in Msgs(c, way) : w[i] = way[i] /\ u[i] = num[i] /\ i <= l
  BY <1>1, <1>2 DEF Msgs
<1>6. m.kind = "ok" => \A n \in (g + 1)..Len(ans) : \E j \in Msgs(c, way) : num[j] = n
  BY DEF UpTo
<1>7. ASSUME NEW i \in Lasts(c, w)
      PROVE  /\ \A j \in Msgs(c, w) \cup Lasts(c, w) : j <= i
             /\ w[i].kind = "ok" =>
                   \A n \in (g + 1)..Len(ans) : \E j \in Msgs(c, w) : u[j] = n
  <2>1. i = l /\ w[i] = m
    BY <1>3, <1>4
  <2>2. \A j \in Msgs(c, w) \cup Lasts(c, w) : j <= l
    BY <1>1, <1>4, <1>5
  <2>3. m.kind = "ok" => \A n \in (g + 1)..Len(ans) : \E j \in Msgs(c, w) : u[j] = n
    BY <1>4, <1>5, <1>6
  <2>4. QED
    BY <2>1, <2>2, <2>3
<1>8. Fits(c, w, u, g, ans)
  <2>1. Right(c, w, u, g, ans) /\ InTurn(c, w, u)
    BY <1>4, <1>5 DEF Fits, Right, InTurn
  <2>2. NoGap(c, w, u, g, ans)
    <3>1. NoGap(c, way, num, g, ans)
      BY DEF Fits
    <3>2. ASSUME NEW i \in Msgs(c, w), NEW n \in (g + 1)..Len(ans), n < u[i]
          PROVE  \E j \in Msgs(c, w) : j < i /\ u[j] = n
      <4>1. i \in Msgs(c, way) /\ n < num[i]
        BY <1>4, <1>5, <3>2
      <4>2. PICK j \in Msgs(c, way) : j < i /\ num[j] = n
        BY <3>1, <4>1 DEF NoGap
      <4>3. QED
        BY <1>4, <1>5, <4>2
    <3>3. QED
      BY <3>2 DEF NoGap
  <2>3. EndsLast(c, w, u, g, ans)
    BY <1>7 DEF EndsLast
  <2>4. QED
    BY <2>1, <2>2, <2>3 DEF Fits
<1>9. QED
  BY <1>8 DEF w, u

\* What is left when the rest is lost is still the beginning of the answer.
LEMMA PrefixFits ==
  ASSUME NEW S, NEW a \in Seq(S), NEW b \in Seq(S), NEW num \in Seq(Nat),
         Len(num) = Len(a \o b), NEW c, NEW g \in Nat, NEW ans,
         Fits(c, a \o b, num, g, ans)
  PROVE  /\ Fits(c, a, SubSeq(num, 1, Len(a)), g, ans)
         /\ SubSeq(num, 1, Len(a)) \in Seq(Nat) /\ Len(SubSeq(num, 1, Len(a))) = Len(a)
         /\ Msgs(c, a) \subseteq Msgs(c, a \o b) /\ Lasts(c, a) \subseteq Lasts(c, a \o b)
<1> DEFINE w == a \o b
           u == SubSeq(num, 1, Len(a))
           l == Len(a)
<1>1. DOMAIN a = 1..l /\ l \in Nat /\ DOMAIN w = 1..Len(w) /\ Len(w) \in Nat /\ l <= Len(w)
  OBVIOUS
<1>2. \A i \in 1..l : w[i] = a[i]
  OBVIOUS
<1>3. u \in Seq(Nat) /\ Len(u) = l /\ \A i \in 1..l : u[i] = num[i]
  OBVIOUS
<1>4. Fits(c, w, num, g, ans)
  OBVIOUS
<1> HIDE DEF w, u, l
<1>5. Msgs(c, a) = Msgs(c, w) \cap 1..l /\ Lasts(c, a) = Lasts(c, w) \cap 1..l
  BY <1>1, <1>2 DEF Msgs, Lasts
<1>6. \A i \in Msgs(c, w) \cup Lasts(c, w) : i \in 1..Len(w)
  BY <1>1 DEF Msgs, Lasts
<1>7. \A i \in 1..l : \A j \in Msgs(c, w) : j <= i => j \in Msgs(c, a) /\ u[j] = num[j]
  BY <1>1, <1>3, <1>5, <1>6
<1>8. Right(c, a, u, g, ans) /\ InTurn(c, a, u)
  BY <1>2, <1>3, <1>4, <1>5 DEF Fits, Right, InTurn
<1>9. ASSUME NEW i \in Msgs(c, a), NEW k \in (g + 1)..Len(ans), k < u[i]
      PROVE  \E j \in Msgs(c, a) : j < i /\ u[j] = k
  <2>1. PICK j \in Msgs(c, w) : j < i /\ num[j] = k
    BY <1>3, <1>4, <1>5, <1>9 DEF Fits, NoGap
  <2>2. i \in 1..l /\ j \in 1..Len(w)
    BY <1>5, <1>6, <2>1
  <2>3. j <= i
    BY <1>1, <2>1, <2>2
  <2>4. j \in Msgs(c, a) /\ u[j] = num[j]
    BY <1>7, <2>2, <2>3
  <2>5. QED
    BY <2>1, <2>4
<1>10. ASSUME NEW i \in Lasts(c, a)
       PROVE  /\ \A j \in Msgs(c, a) \cup Lasts(c, a) : j <= i
              /\ a[i].kind = "ok" =>
                    \A n \in (g + 1)..Len(ans) : \E j \in Msgs(c, a) : u[j] = n
  <2>1. i \in Lasts(c, w) /\ i \in 1..l /\ a[i] = w[i]
    BY <1>2, <1>5
  <2>2. \A j \in Msgs(c, w) \cup Lasts(c, w) : j <= i
    BY <1>4, <2>1 DEF Fits, EndsLast
  <2>3. \A j \in Msgs(c, w) : j \in Msgs(c, a) /\ u[j] = num[j]
    BY <1>7, <2>1, <2>2
  <2>4. QED
    BY <1>4, <1>5, <2>1, <2>2, <2>3 DEF Fits, EndsLast
<1>11. Fits(c, a, u, g, ans)
  BY <1>8, <1>9, <1>10 DEF Fits, NoGap, EndsLast
<1>12. QED
  BY <1>3, <1>5, <1>11 DEF w, u, l

\* The client takes what is first on its way.
Further(c, way, g) == IF Head(way).call = c /\ Head(way).kind = "msg" THEN g + 1 ELSE g

\* What holds of the rest once the first is taken.
Left(c, way, num, g, ans) ==
    LET m == Head(way)  h == Further(c, way, g)
    IN  /\ Fits(c, Tail(way), Tail(num), h, ans) /\ h <= Len(ans)
        /\ Len(Tail(num)) = Len(Tail(way))
        /\ \A p \in Nat : UpTo(c, way, num, g, p) => UpTo(c, Tail(way), Tail(num), h, p)
        /\ m.call = c /\ m.kind = "msg" => h = g + 1 /\ m.body = ans[h]
        /\ m.call = c /\ m.kind # "msg" =>
              Msgs(c, Tail(way)) \cup Lasts(c, Tail(way)) = {} /\ Lasts(c, way) # {}
        /\ m.call = c /\ m.kind = "ok" => g = Len(ans)
        /\ m.call = c => Msgs(c, way) \cup Lasts(c, way) # {}
        /\ Lasts(c, Tail(way)) # {} => Lasts(c, way) # {}
        /\ Msgs(c, way) \cup Lasts(c, way) = {} =>
              Msgs(c, Tail(way)) \cup Lasts(c, Tail(way)) = {}

LEMMA Taken ==
  ASSUME NEW way \in Seq(Item), way # <<>>, NEW num \in Seq(Nat), Len(num) = Len(way),
         NEW c, NEW g \in Nat, NEW ans, Len(ans) \in Nat, g <= Len(ans),
         Fits(c, way, num, g, ans)
  PROVE  Left(c, way, num, g, ans)
<1> DEFINE w == Tail(way)
           u == Tail(num)
           l == Len(way)
           m == Head(way)
           h == Further(c, way, g)
<1>1. DOMAIN way = 1..l /\ DOMAIN w = 1..(l - 1) /\ l \in Nat \ {0}
      /\ h = IF m.call = c /\ m.kind = "msg" THEN g + 1 ELSE g
  BY DEF Further
<1>2. \A i \in 1..(l - 1) : w[i] = way[i + 1] /\ u[i] = num[i + 1] /\ u[i] \in Nat
  OBVIOUS
<1>3. way[1] = m
  OBVIOUS
<1>4. num[1] \in Nat /\ u \in Seq(Nat) /\ Len(u) = Len(w)
  OBVIOUS
<1> HIDE DEF w, u, l, m, h
<1>5. /\ \A i \in Msgs(c, w) : i + 1 \in Msgs(c, way) /\ w[i] = way[i + 1] /\ u[i] = num[i + 1]
                               /\ i \in Nat \ {0} /\ u[i] \in Nat
      /\ \A i \in Lasts(c, w) : i + 1 \in Lasts(c, way) /\ w[i] = way[i + 1] /\ i \in Nat \ {0}
  <2>1. \A i \in 1..(l - 1) : i + 1 \in 1..l /\ i \in Nat \ {0}
    BY <1>1
  <2>2. QED
    BY <1>1, <1>2, <2>1 DEF Msgs, Lasts
<1>6. \A i \in 1..l : i = 1 \/ (i - 1 \in 1..(l - 1) /\ w[i - 1] = way[i] /\ u[i - 1] = num[i])
  <2>1. TAKE i \in 1..l
  <2>2. CASE i # 1
    <3>1. i - 1 \in 1..(l - 1) /\ (i - 1) + 1 = i
      BY <1>1, <2>2
    <3>2. QED
      BY <1>2, <3>1
  <2>3. QED
    BY <2>2
<1>7. /\ \A i \in Msgs(c, way) : i \in Nat \ {0} /\
              (i = 1 \/ (i - 1 \in Msgs(c, w) /\ u[i - 1] = num[i]))
      /\ \A i \in Lasts(c, way) : i = 1 \/ i - 1 \in Lasts(c, w)
  <2>1. ASSUME NEW i \in 1..l, i # 1
        PROVE  /\ i - 1 \in 1..(l - 1)
               /\ i \in Msgs(c, way) => i - 1 \in Msgs(c, w) /\ u[i - 1] = num[i]
               /\ i \in Lasts(c, way) => i - 1 \in Lasts(c, w)
    <3>1. i - 1 \in 1..(l - 1) /\ w[i - 1] = way[i] /\ u[i - 1] = num[i]
      BY <1>6, <2>1
    <3>2. QED
      BY <1>1, <3>1 DEF Msgs, Lasts
  <2>2. \A i \in Msgs(c, way) \cup Lasts(c, way) : i \in 1..l /\ i \in Nat \ {0}
    BY <1>1 DEF Msgs, Lasts
  <2>3. QED
    BY <2>1, <2>2
<1>8. (1 \in Msgs(c, way) <=> m.call = c /\ m.kind = "msg")
      /\ (1 \in Lasts(c, way) <=> m.call = c /\ m.kind # "msg")
  BY <1>1, <1>3 DEF Msgs, Lasts
\* The first message of a call is the next one of its answer.
<1>9. 1 \in Msgs(c, way) => num[1] = g + 1 /\ g + 1 <= Len(ans) /\ m.body = ans[g + 1]
  <2>1. SUFFICES ASSUME 1 \in Msgs(c, way)
                 PROVE  num[1] = g + 1 /\ g + 1 <= Len(ans) /\ m.body = ans[g + 1]
    OBVIOUS
  <2>2. num[1] \in (g + 1)..Len(ans) /\ m.body = ans[num[1]]
    BY <1>3, <2>1 DEF Fits, Right
  <2>3. ASSUME g + 1 < num[1] PROVE FALSE
    <3>1. g + 1 \in (g + 1)..Len(ans)
      BY <2>2
    <3>2. PICK j \in Msgs(c, way) : j < 1
      BY <2>1, <2>3, <3>1 DEF Fits, NoGap
    <3>3. QED
      BY <1>7, <3>2
  <2>4. QED
    BY <1>4, <2>2, <2>3
<1>10. (h = g /\ 1 \notin Msgs(c, way)) \/ (h = g + 1 /\ 1 \in Msgs(c, way) /\ num[1] = h)
  BY <1>1, <1>8, <1>9
<1>11. h \in Nat /\ h <= Len(ans) /\ g <= h
  BY <1>9, <1>10
<1>12. \A i \in Msgs(c, w) : h < u[i]
  <2>1. TAKE i \in Msgs(c, w)
  <2>2. num[i + 1] \in (g + 1)..Len(ans) /\ i + 1 \in Msgs(c, way)
    BY <1>5 DEF Fits, Right
  <2>3. CASE 1 \in Msgs(c, way)
    <3>1. 1 < i + 1
      BY <1>5
    <3>2. num[1] < num[i + 1]
      BY <2>2, <2>3, <3>1 DEF Fits, InTurn
    <3>3. QED
      BY <1>5, <1>10, <2>3, <3>2
  <2>4. CASE 1 \notin Msgs(c, way)
    BY <1>5, <1>10, <2>2, <2>4
  <2>5. QED
    BY <2>3, <2>4
\* A message with a number beyond h is not the first.
<1>13. ASSUME NEW j \in Msgs(c, way), num[j] > h
       PROVE  j - 1 \in Msgs(c, w) /\ u[j - 1] = num[j] /\ j \in Nat
  BY <1>4, <1>7, <1>10, <1>11, <1>13
<1>14. Right(c, w, u, h, ans)
  <2>1. ASSUME NEW i \in Msgs(c, w) PROVE u[i] \in (h + 1)..Len(ans) /\ w[i].body = ans[u[i]]
    <3>1. num[i + 1] \in (g + 1)..Len(ans) /\ way[i + 1].body = ans[num[i + 1]]
      BY <1>5 DEF Fits, Right
    <3>2. QED
      BY <1>5, <1>11, <1>12, <3>1
  <2>2. QED
    BY <2>1 DEF Right
<1>15. InTurn(c, w, u)
  <2>1. ASSUME NEW i \in Msgs(c, w), NEW j \in Msgs(c, w), i < j PROVE u[i] < u[j]
    <3>1. i + 1 < j + 1
      BY <1>5, <2>1
    <3>2. num[i + 1] < num[j + 1]
      BY <1>5, <3>1 DEF Fits, InTurn
    <3>3. QED
      BY <1>5, <3>2
  <2>2. QED
    BY <2>1 DEF InTurn
<1>16. NoGap(c, w, u, h, ans)
  <2>1. ASSUME NEW i \in Msgs(c, w), NEW k \in (h + 1)..Len(ans), k < u[i]
        PROVE  \E j \in Msgs(c, w) : j < i /\ u[j] = k
    <3>1. k \in (g + 1)..Len(ans) /\ k > h
      BY <1>11
    <3>2. PICK j \in Msgs(c, way) : j < i + 1 /\ num[j] = k
      BY <1>5, <2>1, <3>1 DEF Fits, NoGap
    <3>3. j - 1 \in Msgs(c, w) /\ u[j - 1] = k /\ j \in Nat
      BY <1>13, <3>1, <3>2
    <3>4. j - 1 < i
      BY <1>5, <3>2, <3>3
    <3>5. QED
      BY <3>3, <3>4
  <2>2. QED
    BY <2>1 DEF NoGap
<1>17. EndsLast(c, w, u, h, ans)
  <2>1. ASSUME NEW i \in Lasts(c, w)
        PROVE  /\ \A j \in Msgs(c, w) \cup Lasts(c, w) : j <= i
               /\ w[i].kind = "ok" =>
                     \A k \in (h + 1)..Len(ans) : \E j \in Msgs(c, w) : u[j] = k
    <3>1. /\ \A j \in Msgs(c, way) \cup Lasts(c, way) : j <= i + 1
          /\ way[i + 1].kind = "ok" =>
                     \A k \in (g + 1)..Len(ans) : \E j \in Msgs(c, way) : num[j] = k
      BY <1>5 DEF Fits, EndsLast
    <3>2. \A j \in Msgs(c, w) \cup Lasts(c, w) : j + 1 <= i + 1 /\ j \in Nat /\ i \in Nat
      BY <1>5, <3>1
    <3>3. \A j \in Msgs(c, w) \cup Lasts(c, w) : j <= i
      BY <3>2
    <3>4. ASSUME w[i].kind = "ok", NEW k \in (h + 1)..Len(ans)
          PROVE  \E j \in Msgs(c, w) : u[j] = k
      <4>1. k \in (g + 1)..Len(ans) /\ k > h
        BY <1>11
      <4>2. PICK j \in Msgs(c, way) : num[j] = k
        BY <1>5, <3>1, <3>4, <4>1
      <4>3. QED
        BY <1>13, <4>1, <4>2
    <3>5. QED
      BY <3>3, <3>4
  <2>2. QED
    BY <2>1 DEF EndsLast
<1>18. Fits(c, w, u, h, ans)
  BY <1>14, <1>15, <1>16, <1>17 DEF Fits
<1>19. ASSUME NEW p \in Nat, UpTo(c, way, num, g, p) PROVE UpTo(c, w, u, h, p)
  <2>1. h <= p
    BY <1>10, <1>19 DEF UpTo
  <2>2. ASSUME NEW k \in (h + 1)..p PROVE \E j \in Msgs(c, w) : u[j] = k
    <3>1. k \in (g + 1)..p /\ k > h
      BY <1>11
    <3>2. PICK j \in Msgs(c, way) : num[j] = k
      BY <1>19, <3>1 DEF UpTo
    <3>3. QED
      BY <1>13, <3>1, <3>2
  <2>3. \A j \in Msgs(c, w) : u[j] <= p
    BY <1>5, <1>19 DEF UpTo
  <2>4. QED
    BY <2>1, <2>2, <2>3 DEF UpTo
\* After an end there is nothing of the call, and an ok comes after all of it.
<1>20. 1 \in Lasts(c, way) => Msgs(c, w) \cup Lasts(c, w) = {}
  <2>1. SUFFICES ASSUME 1 \in Lasts(c, way), NEW i \in Msgs(c, w) \cup Lasts(c, w) PROVE FALSE
    OBVIOUS
  <2>2. i + 1 \in Msgs(c, way) \cup Lasts(c, way) /\ i \in Nat \ {0}
    BY <1>5
  <2>3. i + 1 <= 1
    BY <2>1, <2>2 DEF Fits, EndsLast
  <2>4. QED
    BY <2>2, <2>3
<1>21. 1 \in Lasts(c, way) /\ m.kind = "ok" => g = Len(ans)
  <2>1. SUFFICES ASSUME 1 \in Lasts(c, way), m.kind = "ok", g < Len(ans) PROVE FALSE
    BY <1>11
  <2>2. PICK j \in Msgs(c, way) : num[j] = Len(ans)
    <3>1. Len(ans) \in (g + 1)..Len(ans)
      BY <2>1
    <3>2. QED
      BY <1>3, <2>1, <3>1 DEF Fits, EndsLast
  <2>3. 1 \notin Msgs(c, way)
    BY <1>8, <2>1
  <2>4. j - 1 \in Msgs(c, w)
    BY <1>7, <2>3
  <2>5. QED
    BY <1>20, <2>1, <2>4
<1>22. Msgs(c, way) \cup Lasts(c, way) = {} => Msgs(c, w) \cup Lasts(c, w) = {}
  BY <1>5
<1>23. QED
  BY <1>4, <1>5, <1>8, <1>9, <1>10, <1>11, <1>18, <1>19, <1>20, <1>21, <1>22 DEF Left, w, u, m, h

-----------------------------------------------------------------------------
(* The loader and its client: what each step does to it.                   *)

\* The names of the frames sort as the movie goes: below FrameLimit they do (FramesInOrder).
NamesInOrder == \A s \in Scripts : \A c \in DOMAIN s :
    s[c].method \in Rendering => SortedFrames(s[c].n) = [i \in 1..s[c].n |-> i]

\* What a call has to be answered with, and how long that is.
LEMMA Answers ==
  ASSUME NEW call, call.method \in Methods, call.n \in Nat
  PROVE  /\ Answer(call) \in Seq(Seq(Nat))
         /\ call.method \in {"Authority", "Shell"} \cup Runner => Answer(call) = <<<<1>>>>
         /\ call.method = "AddNewLine" => Answer(call) = <<[i \in 1..call.n |-> i]>>
         /\ call.method = "AppendAndPrint" =>
               Len(Answer(call)) = call.n /\ \A k \in 1..call.n : Answer(call)[k] = <<k>>
         /\ call.method = "Babble" =>
               /\ Len(Answer(call)) = IF call.n = 0 THEN 0 ELSE Copies
               /\ \A k \in 1..Len(Answer(call)) : Answer(call)[k] = <<1>>
         /\ call.method \in Rendering =>
               /\ Len(Answer(call)) = FrameCount(call)
               /\ \A k \in 1..FrameCount(call) : Answer(call)[k] = <<k, k - 1, FrameCount(call)>>
<1>1. CASE call.method \in {"Authority", "Shell"} \cup Runner
  <2>1. Answer(call) = <<<<1>>>> /\ call.method \notin Rendering
    BY <1>1 DEF Answer, OneReply, Rendering, Runner
  <2>2. <<<<1>>>> \in Seq(Seq(Nat))
    OBVIOUS
  <2>3. QED
    BY <1>1, <2>1, <2>2 DEF Runner
<1>2. CASE call.method = "Babble"
  <2> DEFINE l == IF call.n = 0 THEN 0 ELSE Copies
  <2>1. Answer(call) = [i \in 1..l |-> <<1>>] /\ call.method \notin Rendering
    BY <1>2 DEF Answer, Rendering
  <2>2. l \in Nat /\ <<1>> \in Seq(Nat)
    BY ReplyAssumption
  <2> HIDE DEF l
  <2>3. Len(Answer(call)) = l /\ Answer(call) \in Seq(Seq(Nat))
        /\ \A k \in 1..l : Answer(call)[k] = <<1>>
    BY <2>1, <2>2
  <2>4. QED
    BY <1>2, <2>1, <2>3 DEF l, Runner
<1>3. CASE call.method = "AppendAndPrint"
  <2>1. Answer(call) = [i \in 1..call.n |-> <<i>>] /\ call.method \notin Rendering
    BY <1>3 DEF Answer, Rendering
  <2>2. Len(Answer(call)) = call.n /\ Answer(call) \in Seq(Seq(Nat))
        /\ \A k \in 1..call.n : Answer(call)[k] = <<k>>
    <3>1. PICK l \in Nat : l = call.n
      OBVIOUS
    <3>2. Answer(call) = [i \in 1..l |-> <<i>>] /\ \A i \in 1..l : <<i>> \in Seq(Nat)
      BY <2>1, <3>1
    <3>3. Len(Answer(call)) = l /\ Answer(call) \in Seq(Seq(Nat))
      BY <3>2
    <3>4. \A k \in 1..l : Answer(call)[k] = <<k>>
      BY <3>2
    <3>5. QED
      BY <3>1, <3>3, <3>4
  <2>3. QED
    BY <1>3, <2>1, <2>2 DEF Runner
<1>4. CASE call.method = "AddNewLine"
  BY <1>4 DEF Answer, Rendering, Runner
<1>5. CASE call.method \in Rendering
  <2>1. FrameCount(call) \in Nat \ {0}
    BY DEF FrameCount
  <2>2. Answer(call) = [i \in 1..FrameCount(call) |-> <<i, i - 1, FrameCount(call)>>]
    BY <1>5 DEF Answer, Rendering
  <2>3. \A i \in 1..FrameCount(call) : <<i, i - 1, FrameCount(call)>> \in Seq(Nat)
    BY <2>1
  <2>4. /\ Answer(call) \in Seq(Seq(Nat)) /\ Len(Answer(call)) = FrameCount(call)
        /\ \A k \in 1..FrameCount(call) : Answer(call)[k] = <<k, k - 1, FrameCount(call)>>
    <3> DEFINE l == FrameCount(call)
    <3> HIDE DEF l
    <3>1. l \in Nat /\ Answer(call) = [i \in 1..l |-> <<i, i - 1, l>>]
          /\ \A i \in 1..l : <<i, i - 1, l>> \in Seq(Nat)
      BY <2>1, <2>2, <2>3 DEF l
    <3>2. /\ Answer(call) \in Seq(Seq(Nat)) /\ Len(Answer(call)) = l
          /\ \A k \in 1..l : Answer(call)[k] = <<k, k - 1, l>>
      BY <3>1
    <3>3. QED
      BY <3>2 DEF l
  <2>5. QED
    BY <1>5, <2>4 DEF Rendering, Runner
<1>6. CASE call.method \in {"Exec", "Garbage", "Link", "Load", "Identify", "Authenticate"}
  BY <1>6 DEF Answer, Rendering, Runner
<1>7. QED
  BY <1>1, <1>2, <1>3, <1>4, <1>5, <1>6 DEF Methods, Streaming, Rendering, Runner

LEMMA CallTypes ==
  ASSUME script \in Scripts, NEW c \in Calls
  PROVE  script[c].method \in Methods /\ script[c].n \in Nat
         /\ Answer(script[c]) \in Seq(Seq(Nat)) /\ Len(Answer(script[c])) \in Nat
<1>1. script[c].method \in Methods /\ script[c].n \in Nat
  BY LoaderAssumption DEF Calls
<1>2. QED
  BY <1>1, Answers

\* Nothing of it changes, but that the loader may come to an end.
LEMMA StillPreserves ==
  ASSUME LInv, UNCHANGED <<script, handler, got, status, stdout, stdoutOpen, down>>,
         server' # "gone" => server # "gone", Deaf => Deaf', Unspawned'
  PROVE  LInv'
<1>1. UNCHANGED <<Calls, Way>>
  BY DEF Calls, Way
<1>2. LTypes' /\ Handling' /\ Given'
  BY <1>1 DEF LInv, LTypes, Item, Calls, Handling, Placed, Given
<1>3. ASSUME NEW num \in Seq(Nat), Numbering(num) PROVE Numbering(num)'
  <2>1. \A c \in Calls : (Working(c)' => Working(c)) /\ Produced(c)' = Produced(c)
    BY DEF Working, Produced
  <2>2. QED
    BY <1>1, <1>3, <2>1 DEF Numbering
<1>4. Onward'
  BY <1>3 DEF LInv, Onward
<1>5. Returned' /\ Told'
  BY <1>1 DEF LInv, Returned, Told
<1>6. QED
  BY <1>2, <1>4, <1>5 DEF LInv

\* The client reads no more.
LEMMA ShutPreserves ==
  ASSUME LInv, UNCHANGED <<script, handler, got, status, down>>, Unspawned',
         stdoutOpen' = FALSE, stdout' = <<>>
  PROVE  LInv'
<1>1. UNCHANGED <<Calls, Item>> /\ stdout' \in Seq(Item)
  BY DEF Calls, Item
<1>2. LTypes' /\ Handling' /\ Given'
  BY <1>1 DEF LInv, LTypes, Handling, Placed, Given
<1>3. Onward' /\ Returned' /\ Told'
  BY DEF Onward, Returned, Told
<1>4. QED
  BY <1>2, <1>3 DEF LInv

\* The server's transport goes, with what it had sent and the bridge has not read.
LEMMA CutPreserves ==
  ASSUME LInv, UNCHANGED <<script, handler, got, status, stdout, stdoutOpen>>,
         server' = "gone", down' = <<>>, Deaf => Deaf', Unspawned'
  PROVE  LInv'
<1>1. UNCHANGED Calls /\ Way' = stdout /\ Way = stdout \o down
      /\ stdout \in Seq(Item) /\ down \in Seq(Item)
  BY DEF LInv, LTypes, Calls, Way
<1>2. LTypes' /\ Handling' /\ Given'
  BY <1>1 DEF LInv, LTypes, Item, Calls, Handling, Placed, Given
<1>3. ASSUME NEW num \in Seq(Nat), Numbering(num)
      PROVE  \E u \in Seq(Nat) : Numbering(u)'
  <2>1. PICK u \in Seq(Nat) : u = SubSeq(num, 1, Len(stdout)) /\ Len(u) = Len(stdout)
    <3>1. Len(num) = Len(stdout) + Len(down) /\ Len(stdout) \in Nat /\ Len(down) \in Nat
      BY <1>1, <1>3 DEF Numbering
    <3>2. SubSeq(num, 1, Len(stdout)) \in Seq(Nat)
          /\ Len(SubSeq(num, 1, Len(stdout))) = Len(stdout)
      BY <3>1
    <3>3. QED
      BY <3>2
  <2>2. ASSUME NEW c \in Calls
        PROVE  Fits(c, Way', u, Len(got'[c]), Answer(script'[c]))
    <3>1. Len(got[c]) \in Nat /\ Fits(c, stdout \o down, num, Len(got[c]), Answer(script[c]))
      BY <1>1, <1>3 DEF Numbering, LInv, LTypes
    <3>2. Len(num) = Len(stdout \o down)
      BY <1>1, <1>3 DEF Numbering
    <3>3. QED
      BY <1>1, <2>1, <3>1, <3>2, PrefixFits
  <2>3. \A c \in Calls : ~Working(c)'
    BY DEF Working
  <2>4. Numbering(u)'
    BY <1>1, <2>1, <2>2, <2>3 DEF Numbering
  <2>5. QED
    BY <2>1, <2>4
<1>4. Onward'
  BY <1>3 DEF LInv, Onward
<1>5. \A c : Msgs(c, Way') \subseteq Msgs(c, Way) /\ Lasts(c, Way') \subseteq Lasts(c, Way)
  <2>1. DOMAIN stdout \subseteq DOMAIN Way /\ \A i \in DOMAIN stdout : Way[i] = stdout[i]
    BY <1>1
  <2>2. QED
    BY <1>1, <2>1 DEF Msgs, Lasts
<1>6. Returned' /\ Told'
  BY <1>1, <1>5 DEF LInv, Returned, Told
<1>7. QED
  BY <1>2, <1>4, <1>6 DEF LInv

\* What has been copied to stdout was first on its way, and still is.
LEMMA CopyOutPreserves ==
  ASSUME LInv, CopyOut
  PROVE  LInv'
<1>1. UNCHANGED <<script, process, server, handler, user, got, status, stdoutOpen>>
      /\ down # <<>> /\ stdout' = Append(stdout, Head(down)) /\ down' = Tail(down)
      /\ process = "running"
  BY DEF CopyOut, Bridging
<1>2. stdout \in Seq(Item) /\ down \in Seq(Item) /\ UNCHANGED <<Calls, Item>>
  BY <1>1 DEF LInv, LTypes, Calls, Item
<1>3. stdout' \in Seq(Item) /\ down' \in Seq(Item)
  BY <1>1, <1>2
<1>4. UNCHANGED Way
  BY <1>1, <1>2 DEF Way
<1>5. LTypes' /\ Handling' /\ Given' /\ Unspawned'
  BY <1>1, <1>2, <1>3 DEF LInv, LTypes, Handling, Placed, Given, Unspawned
<1>6. ASSUME NEW num \in Seq(Nat), Numbering(num) PROVE Numbering(num)'
  <2>1. \A c \in Calls : Working(c)' = Working(c) /\ Produced(c)' = Produced(c)
    BY <1>1 DEF Working, Produced
  <2>2. QED
    BY <1>1, <1>2, <1>4, <1>6, <2>1 DEF Numbering
<1>7. Onward' /\ Returned' /\ Told'
  BY <1>1, <1>2, <1>4, <1>6 DEF LInv, Onward, Returned, Told, Deaf
<1>8. QED
  BY <1>5, <1>7 DEF LInv

\* What the client reads is the next message of an open call, or the end of one; and
\* what then is on its way goes on from there.
LEMMA TakePreserves ==
  ASSUME LInv, Take
  PROVE  /\ LInv'
         /\ \E c \in Calls : /\ status[c] = "open"
                             /\ \/ /\ Len(got[c]) < Len(Answer(script[c])) /\ status' = status
                                   /\ got' = [got EXCEPT ![c] =
                                                 Append(@, Answer(script[c])[Len(@) + 1])]
                                \/ /\ got[c] = Answer(script[c]) /\ got' = got
                                   /\ status' = [status EXCEPT ![c] = "ok"]
                                \/ got' = got /\ status' = [status EXCEPT ![c] = "failed"]
<1> DEFINE m == Head(stdout)
<1>1. UNCHANGED <<script, process, server, handler, down, stdoutOpen, Calls, Item>>
      /\ stdoutOpen /\ stdout # <<>> /\ stdout' = Tail(stdout)
      /\ script \in Scripts /\ stdout \in Seq(Item) /\ down \in Seq(Item)
  BY DEF Take, serviceVars, LInv, LTypes, Calls, Item
<1>2. m.call \in Calls /\ m.kind \in {"msg", "ok", "error"} /\ m.body \in Seq(Nat)
      /\ stdout' \in Seq(Item)
  <2>1. m \in Item /\ stdout' \in Seq(Item)
    BY <1>1
  <2>2. QED
    BY <2>1 DEF Item
<1>3. /\ got' = IF m.kind = "msg" THEN [got EXCEPT ![m.call] = Append(@, m.body)] ELSE got
      /\ status' = CASE m.kind = "msg" -> status
                     [] m.kind = "ok" -> [status EXCEPT ![m.call] = "ok"]
                     [] m.kind = "error" -> [status EXCEPT ![m.call] = "failed"]
      /\ Prompt(m.kind # "msg")
  BY DEF Take
<1> HIDE DEF m
<1>4. Way \in Seq(Item) /\ Way # <<>> /\ m = Head(Way) /\ Way' = Tail(Way)
  BY <1>1 DEF m, Way
<1>5. got \in [Calls -> Seq(Seq(Nat))] /\ status \in [Calls -> {"open", "ok", "failed"}]
  BY DEF LInv, LTypes
<1>6. got' \in [Calls -> Seq(Seq(Nat))] /\ status' \in [Calls -> {"open", "ok", "failed"}]
  BY <1>2, <1>3, <1>5
<1>7. LTypes' /\ Handling'
  BY <1>1, <1>2, <1>6 DEF LInv, LTypes, Handling, Placed
<1>8. Unspawned'
  BY <1>1, <1>3 DEF LInv, Unspawned, Prompt
<1>9. PICK num \in Seq(Nat) : Numbering(num)
  BY <1>1 DEF LInv, Onward
<1>10. PICK u \in Seq(Nat) : u = Tail(num)
  <2>1. num # <<>>
    BY <1>4, <1>9 DEF Numbering
  <2>2. Tail(num) \in Seq(Nat)
    BY <2>1
  <2>3. QED
    BY <2>2
<1>11. ASSUME NEW c \in Calls
       PROVE  /\ Len(got'[c]) = IF m.call = c /\ m.kind = "msg" THEN Len(got[c]) + 1
                                ELSE Len(got[c])
              /\ Len(got[c]) \in Nat /\ Len(got'[c]) \in Nat
  BY <1>2, <1>3, <1>5, <1>11
<1>12. ASSUME NEW c \in Calls
       PROVE
         LET g == Len(got[c])  h == Len(got'[c])  ans == Answer(script[c])
         IN  /\ Fits(c, Tail(Way), u, h, ans) /\ h <= Len(ans)
             /\ Len(u) = Len(Tail(Way))
             /\ \A p \in Nat : UpTo(c, Way, num, g, p) => UpTo(c, Tail(Way), u, h, p)
             /\ m.call = c /\ m.kind = "msg" => h = g + 1 /\ m.body = ans[h]
             /\ m.call = c /\ m.kind # "msg" =>
                   Msgs(c, Tail(Way)) \cup Lasts(c, Tail(Way)) = {} /\ Lasts(c, Way) # {}
             /\ m.call = c /\ m.kind = "ok" => g = Len(ans)
             /\ m.call = c => Msgs(c, Way) \cup Lasts(c, Way) # {}
             /\ Lasts(c, Tail(Way)) # {} => Lasts(c, Way) # {}
             /\ Msgs(c, Way) \cup Lasts(c, Way) = {} =>
                   Msgs(c, Tail(Way)) \cup Lasts(c, Tail(Way)) = {}
  <2> DEFINE g == Len(got[c])  h == Len(got'[c])  ans == Answer(script[c])
  <2>1. g \in Nat /\ h = Further(c, Way, g)
    BY <1>4, <1>11 DEF Further
  <2>2. ans \in Seq(Seq(Nat)) /\ Len(ans) \in Nat
    BY <1>1, CallTypes
  <2>3. g <= Len(ans)
    BY DEF LInv, Given
  <2>4. Len(num) = Len(Way) /\ Fits(c, Way, num, g, ans)
    BY <1>9 DEF Numbering
  <2> HIDE DEF g, h, ans
  <2>5. /\ Fits(c, Tail(Way), Tail(num), h, ans) /\ h <= Len(ans)
        /\ Len(Tail(num)) = Len(Tail(Way))
        /\ \A p \in Nat : UpTo(c, Way, num, g, p) => UpTo(c, Tail(Way), Tail(num), h, p)
        /\ m.call = c /\ m.kind = "msg" => h = g + 1 /\ m.body = ans[h]
        /\ m.call = c /\ m.kind # "msg" =>
              Msgs(c, Tail(Way)) \cup Lasts(c, Tail(Way)) = {} /\ Lasts(c, Way) # {}
        /\ m.call = c /\ m.kind = "ok" => g = Len(ans)
        /\ m.call = c => Msgs(c, Way) \cup Lasts(c, Way) # {}
        /\ Lasts(c, Tail(Way)) # {} => Lasts(c, Way) # {}
        /\ Msgs(c, Way) \cup Lasts(c, Way) = {} =>
              Msgs(c, Tail(Way)) \cup Lasts(c, Tail(Way)) = {}
    <3>1. Left(c, Way, num, g, ans)
      BY <1>4, <2>1, <2>2, <2>3, <2>4, Taken
    <3>2. QED
      BY <1>4, <2>1, <3>1 DEF Left
  <2>6. QED
    BY <1>10, <2>5 DEF g, h, ans
<1>13. Given'
  <2>1. ASSUME NEW c \in Calls
        PROVE  /\ Len(got'[c]) <= Len(Answer(script[c]))
               /\ \A k \in DOMAIN got'[c] : got'[c][k] = Answer(script[c])[k]
    <3>1. Len(got'[c]) <= Len(Answer(script[c]))
      BY <1>12
    <3>2. CASE m.call = c /\ m.kind = "msg"
      <4>1. got'[c] = Append(got[c], m.body) /\ m.body = Answer(script[c])[Len(got[c]) + 1]
        BY <1>3, <1>5, <1>11, <1>12, <3>2
      <4>2. \A k \in DOMAIN got[c] : got[c][k] = Answer(script[c])[k]
        BY DEF LInv, Given
      <4>3. got[c] \in Seq(Seq(Nat))
        BY <1>5
      <4>4. QED
        BY <1>2, <3>1, <4>1, <4>2, <4>3
    <3>3. CASE ~(m.call = c /\ m.kind = "msg")
      <4>1. got'[c] = got[c]
        BY <1>2, <1>3, <1>5, <3>3
      <4>2. QED
        BY <3>1, <4>1 DEF LInv, Given
    <3>4. QED
      BY <3>2, <3>3
  <2>2. QED
    BY <1>1, <2>1 DEF Given
<1>14. Numbering(u)'
  <2>1. ASSUME NEW c \in Calls
        PROVE  /\ Fits(c, Way', u, Len(got'[c]), Answer(script'[c]))
               /\ Working(c)' => UpTo(c, Way', u, Len(got'[c]), Produced(c)')
    <3>1. Working(c)' = Working(c) /\ Produced(c)' = Produced(c)
      BY <1>1 DEF Working, Produced
    <3>2. Produced(c) \in Nat
      BY DEF LInv, LTypes, Produced, Places
    <3>3. Working(c) => UpTo(c, Way, num, Len(got[c]), Produced(c))
      BY <1>9 DEF Numbering
    <3>4. QED
      BY <1>1, <1>4, <1>12, <3>1, <3>2, <3>3
  <2>2. Len(u) = Len(Way')
    BY <1>2, <1>4, <1>12
  <2>3. QED
    BY <1>1, <2>1, <2>2 DEF Numbering
<1>15. Onward'
  BY <1>14 DEF Onward
<1>16. Returned'
  BY <1>1, <1>4, <1>12 DEF LInv, Returned
\* It is not over for any call: there was something in stdout.
<1>17. \A c \in Calls : status[c] # "open" =>
          handler[c].at = "returned" /\ Msgs(c, Way) \cup Lasts(c, Way) = {}
  BY <1>1 DEF LInv, Told, Deaf
<1>18. Told'
  <2>1. ASSUME NEW c \in Calls, status'[c] # "open"
        PROVE  handler[c].at = "returned" /\ Msgs(c, Tail(Way)) \cup Lasts(c, Tail(Way)) = {}
    <3>1. CASE m.call = c /\ m.kind # "msg"
      BY <1>1, <1>12, <3>1 DEF LInv, Returned
    <3>2. CASE ~(m.call = c /\ m.kind # "msg")
      <4>1. status'[c] = status[c]
        BY <1>2, <1>3, <1>5, <3>2
      <4>2. QED
        BY <1>12, <1>17, <2>1, <4>1
    <3>3. QED
      BY <3>1, <3>2
  <2>2. QED
    BY <1>1, <1>4, <2>1 DEF Told
<1>19. LInv'
  BY <1>7, <1>8, <1>13, <1>15, <1>16, <1>18 DEF LInv
<1>20. status[m.call] = "open"
  BY <1>2, <1>12, <1>17
<1>21. CASE m.kind = "msg"
  <2>1. Len(got[m.call]) < Len(Answer(script[m.call]))
        /\ m.body = Answer(script[m.call])[Len(got[m.call]) + 1]
    <3>1. Len(got'[m.call]) = Len(got[m.call]) + 1
          /\ Len(got'[m.call]) <= Len(Answer(script[m.call]))
          /\ m.body = Answer(script[m.call])[Len(got'[m.call])] /\ Len(got[m.call]) \in Nat
          /\ Len(Answer(script[m.call])) \in Nat
      BY <1>1, <1>2, <1>11, <1>12, <1>21, CallTypes
    <3>2. QED
      BY <3>1
  <2>2. got' = [got EXCEPT ![m.call] = Append(got[m.call], m.body)] /\ status' = status
    BY <1>3, <1>21
  <2>3. QED
    BY <1>2, <1>19, <1>20, <2>1, <2>2
<1>22. CASE m.kind = "ok"
  <2>1. got[m.call] = Answer(script[m.call])
    <3>1. got[m.call] \in Seq(Seq(Nat)) /\ Answer(script[m.call]) \in Seq(Seq(Nat))
      BY <1>1, <1>2, <1>5, CallTypes
    <3>2. Len(got[m.call]) = Len(Answer(script[m.call]))
      BY <1>2, <1>12, <1>22
    <3>3. \A k \in DOMAIN got[m.call] : got[m.call][k] = Answer(script[m.call])[k]
      BY <1>2 DEF LInv, Given
    <3>4. QED
      BY <3>1, <3>2, <3>3
  <2>2. got' = got /\ status' = [status EXCEPT ![m.call] = "ok"]
    BY <1>3, <1>22
  <2>3. QED
    BY <1>2, <1>19, <1>20, <2>1, <2>2
<1>23. CASE m.kind = "error"
  <2>1. got' = got /\ status' = [status EXCEPT ![m.call] = "failed"]
    BY <1>3, <1>23
  <2>2. QED
    BY <1>2, <1>19, <1>20, <2>1
<1>24. QED
  BY <1>2, <1>21, <1>22, <1>23

\* The connection is gone for the client: it reads no more, or nothing more comes.
LEMMA ConnLostPreserves ==
  ASSUME LInv, NEW c \in Calls, ConnLost(c)
  PROVE  LInv' /\ status[c] = "open" /\ got' = got
         /\ status' = [status EXCEPT ![c] = "failed"] /\ script' = script
<1>1. UNCHANGED <<script, process, server, handler, down, got, stdout, stdoutOpen>>
      /\ (~stdoutOpen \/ Deaf)
      /\ status[c] = "open" /\ status' = [status EXCEPT ![c] = "failed"] /\ Prompt(TRUE)
  BY DEF ConnLost, serviceVars, Ends, Deaf
<1>2. UNCHANGED <<Calls, Item, Way>>
  BY <1>1 DEF Calls, Item, Way
<1>3. LTypes' /\ Handling' /\ Given' /\ Unspawned'
  BY <1>1, <1>2 DEF LInv, LTypes, Handling, Placed, Given, Unspawned, Prompt
<1>4. ASSUME NEW num \in Seq(Nat), Numbering(num) PROVE Numbering(num)'
  <2>1. \A d \in Calls : Working(d)' = Working(d) /\ Produced(d)' = Produced(d)
    BY <1>1 DEF Working, Produced
  <2>2. QED
    BY <1>1, <1>2, <1>4, <2>1 DEF Numbering
<1>5. Onward' /\ Returned'
  BY <1>1, <1>2, <1>4 DEF LInv, Onward, Returned
<1>6. Told'
  BY <1>1, <1>2 DEF Told, Deaf
<1>7. QED
  BY <1>1, <1>3, <1>5, <1>6 DEF LInv

-----------------------------------------------------------------------------
(* The loader and its client: the handlers.                                *)

\* A handler that has not returned has an open call, and no end of it is on its way.
LEMMA StillOpen ==
  ASSUME LInv, process = "running", stdoutOpen
  PROVE  /\ \A d \in Calls : status[d] # "open" =>
                handler[d].at = "returned" /\ Msgs(d, Way) \cup Lasts(d, Way) = {}
         /\ \A d \in Calls : handler[d].at # "returned" => Lasts(d, Way) = {}
BY DEF LInv, Told, Deaf, Returned

\* What a handler may send.
LEMMA Sendable ==
  ASSUME NEW c \in Calls, NEW body \in Seq(Nat)
  PROVE  \E m \in Item : m = Message(c, body) /\ m.call = c /\ m.kind = "msg" /\ m.body = body
<1>1. Message(c, body) \in Item
  BY DEF Message, Item
<1>2. /\ Message(c, body).call = c /\ Message(c, body).kind = "msg"
      /\ Message(c, body).body = body
  BY DEF Message
<1>3. QED
  BY <1>1, <1>2

LEMMA Returnable ==
  ASSUME NEW c \in Calls, NEW kind \in {"ok", "error"}
  PROVE  \E m \in Item : m = Trailer(c, kind) /\ m.call = c /\ m.kind = kind /\ m.kind # "msg"
<1>1. Trailer(c, kind) \in Item
  <2>1. <<>> \in Seq(Nat)
    OBVIOUS
  <2>2. QED
    BY <2>1 DEF Trailer, Item
<1>2. Trailer(c, kind).call = c /\ Trailer(c, kind).kind = kind /\ kind # "msg"
  BY DEF Trailer
<1>3. QED
  BY <1>1, <1>2

\* It goes on, and sends nothing.
LEMMA GoesOnPreserves ==
  ASSUME LInv, NEW c \in Calls, process = "running", handler[c].at # "returned",
         UNCHANGED <<script, process, server, user, got, status, stdout, stdoutOpen, down>>,
         handler' \in [Calls -> Places], \A d \in Calls : d # c => handler'[d] = handler[d],
         handler'[c].at # "returned", Produced(c)' = Produced(c), Handling'
  PROVE  LInv'
<1>1. UNCHANGED <<Calls, Item, Way>>
  BY DEF Calls, Item, Way
<1>2. LTypes' /\ Given' /\ Unspawned'
  BY <1>1 DEF LInv, LTypes, Given, Unspawned
<1>3. ASSUME NEW num \in Seq(Nat), Numbering(num) PROVE Numbering(num)'
  <2>1. \A d \in Calls : Working(d)' = Working(d) /\ Produced(d)' = Produced(d)
    BY DEF Working, Produced
  <2>2. QED
    BY <1>1, <1>3, <2>1 DEF Numbering
<1>4. Onward'
  BY <1>3 DEF LInv, Onward
<1>5. Returned'
  BY <1>1 DEF LInv, Returned
<1>6. Told'
  BY <1>1, StillOpen DEF Told
<1>7. QED
  BY <1>2, <1>4, <1>5, <1>6 DEF LInv

\* It sends the next message of its answer.
LEMMA SendPreserves ==
  ASSUME LInv, NEW c \in Calls, process = "running", handler[c].at # "returned",
         UNCHANGED <<script, process, server, user, got, status, stdout, stdoutOpen>>,
         handler' \in [Calls -> Places], \A d \in Calls : d # c => handler'[d] = handler[d],
         handler'[c].at # "returned", Produced(c)' = Produced(c) + 1, Handling',
         server # "gone", NEW body \in Seq(Nat), down' = Append(down, Message(c, body)),
         Produced(c) + 1 <= Len(Answer(script[c])), body = Answer(script[c])[Produced(c) + 1]
  PROVE  LInv'
<1>1. UNCHANGED <<Calls, Item>> /\ stdout \in Seq(Item) /\ down \in Seq(Item)
      /\ Way \in Seq(Item) /\ got \in [Calls -> Seq(Seq(Nat))] /\ script \in Scripts
  BY DEF LInv, LTypes, Calls, Item, Way
<1>2. PICK m \in Item : m = Message(c, body) /\ m.call = c /\ m.kind = "msg" /\ m.body = body
  BY Sendable
<1>3. down' = Append(down, m) /\ down' \in Seq(Item) /\ Way' = Append(Way, m)
  BY <1>1, <1>2 DEF Way
<1>4. LTypes' /\ Given' /\ Unspawned'
  BY <1>1, <1>3 DEF LInv, LTypes, Given, Unspawned
<1>5. PICK p \in Nat : p = Produced(c)
  BY DEF LInv, LTypes, Produced, Places
<1>6. ASSUME stdoutOpen, NEW num \in Seq(Nat), Numbering(num)
      PROVE  /\ \E u \in Seq(Nat) : Numbering(u)'
             /\ \A d \in Calls \ {c} : /\ Msgs(d, Way') = Msgs(d, Way)
                                       /\ Lasts(d, Way') = Lasts(d, Way)
             /\ Lasts(c, Way') = {}
  <2>1. PICK u \in Seq(Nat) : u = Append(num, p + 1) /\ Len(u) = Len(Way')
    <3>1. Append(num, p + 1) \in Seq(Nat) /\ Len(Append(num, p + 1)) = Len(num) + 1
      OBVIOUS
    <3>2. Len(Way') = Len(Way) + 1
      BY <1>1, <1>3
    <3>3. Len(num) = Len(Way)
      BY <1>6 DEF Numbering
    <3>4. QED
      BY <3>1, <3>2, <3>3
  <2>2. ASSUME NEW d \in Calls
        PROVE  /\ Len(got[d]) \in Nat /\ Len(num) = Len(Way)
               /\ Fits(d, Way, num, Len(got[d]), Answer(script[d]))
               /\ Working(d) => UpTo(d, Way, num, Len(got[d]), Produced(d))
    BY <1>1, <1>6 DEF Numbering
  <2>3. /\ Fits(c, Way', u, Len(got[c]), Answer(script[c]))
        /\ UpTo(c, Way', u, Len(got[c]), p + 1)
        /\ Lasts(c, Way') = {}
    <3>1. UpTo(c, Way, num, Len(got[c]), p)
      <4>1. Working(c)
        BY DEF Working
      <4>2. QED
        BY <1>5, <2>2, <4>1
    <3>2. Lasts(c, Way) = {}
      BY <1>6, StillOpen
    <3>3. p + 1 <= Len(Answer(script[c])) /\ m.body = Answer(script[c])[p + 1]
          /\ Answer(script[c]) \in Seq(Seq(Nat))
      BY <1>1, <1>2, <1>5, CallTypes
    <3>4. Grown(c, Way, m, num, p, Len(got[c]), Answer(script[c]))
      BY <1>1, <1>2, <2>2, <3>1, <3>2, <3>3, NextAppended
    <3>5. QED
      BY <1>3, <2>1, <3>4 DEF Grown
  <2>4. ASSUME NEW d \in Calls, d # c
        PROVE  /\ Fits(d, Way', u, Len(got[d]), Answer(script[d]))
               /\ Working(d) => UpTo(d, Way', u, Len(got[d]), Produced(d))
               /\ Msgs(d, Way') = Msgs(d, Way) /\ Lasts(d, Way') = Lasts(d, Way)
    <3>1. Produced(d) \in Nat
      BY DEF LInv, LTypes, Produced, Places
    <3>2. PICK q \in Nat : q = p + 1
      OBVIOUS
    <3>3. Unmoved(d, Way, m, num, q, Len(got[d]), Answer(script[d]))
      BY <1>1, <1>2, <2>2, <2>4, OtherAppended
    <3>4. QED
      BY <1>3, <2>1, <2>2, <3>1, <3>2, <3>3 DEF Unmoved
  <2>5. \A d \in Calls : /\ Working(d)' = Working(d)
                         /\ Produced(d)' = IF d = c THEN p + 1 ELSE Produced(d)
    BY <1>5 DEF Working, Produced
  <2>6. Numbering(u)'
    BY <1>1, <2>1, <2>3, <2>4, <2>5 DEF Numbering
  <2>7. QED
    BY <2>3, <2>4, <2>6
<1>7. Onward' /\ Returned' /\ Told'
  <2>1. CASE stdoutOpen
    <3>1. PICK num \in Seq(Nat) : Numbering(num)
      BY <2>1 DEF LInv, Onward
    <3>2. Onward' /\ Returned'
      BY <1>1, <1>6, <2>1, <3>1 DEF LInv, Onward, Returned
    <3>3. Told'
      BY <1>1, <1>6, <2>1, <3>1, StillOpen DEF Told
    <3>4. QED
      BY <3>2, <3>3
  <2>2. CASE ~stdoutOpen
    BY <2>2 DEF Onward, Returned, Told
  <2>3. QED
    BY <2>1, <2>2
<1>8. QED
  BY <1>4, <1>7 DEF LInv

\* It returns: what was on its way is followed by the end of the call, if there is a
\* transport to carry it, and an ok comes after the whole answer.
LEMMA ReturnPreserves ==
  ASSUME LInv, NEW c \in Calls, process = "running", handler[c].at # "returned",
         UNCHANGED <<script, process, server, user, got, status, stdout, stdoutOpen>>,
         handler' \in [Calls -> Places], \A d \in Calls : d # c => handler'[d] = handler[d],
         handler'[c].at = "returned", Handling', NEW kind \in {"ok", "error"},
         down' = IF server = "serving" THEN Append(down, Trailer(c, kind)) ELSE down,
         kind = "ok" => Produced(c) = Len(Answer(script[c]))
  PROVE  LInv'
<1>1. UNCHANGED <<Calls, Item>> /\ stdout \in Seq(Item) /\ down \in Seq(Item)
      /\ Way \in Seq(Item) /\ got \in [Calls -> Seq(Seq(Nat))] /\ script \in Scripts
  BY DEF LInv, LTypes, Calls, Item, Way
<1>2. PICK m \in Item : m = Trailer(c, kind) /\ m.call = c /\ m.kind = kind /\ m.kind # "msg"
  BY Returnable
<1>3. down' \in Seq(Item)
      /\ \/ Way' = Way /\ server # "serving"
         \/ Way' = Append(Way, m) /\ server = "serving"
  BY SMTT(30), <1>1, <1>2 DEF Way
<1>4. LTypes' /\ Given' /\ Unspawned'
  BY <1>1, <1>3 DEF LInv, LTypes, Given, Unspawned
<1>5. \A d \in Calls : /\ Working(d)' => d # c /\ Working(d)
                       /\ d # c => Produced(d)' = Produced(d)
  BY DEF Working, Produced
<1>6. ASSUME stdoutOpen, NEW num \in Seq(Nat), Numbering(num)
      PROVE  /\ \E u \in Seq(Nat) : Numbering(u)'
             /\ \A d \in Calls \ {c} : /\ Msgs(d, Way') = Msgs(d, Way)
                                       /\ Lasts(d, Way') = Lasts(d, Way)
  <2>1. ASSUME NEW d \in Calls
        PROVE  /\ Len(got[d]) \in Nat /\ Len(num) = Len(Way)
               /\ Fits(d, Way, num, Len(got[d]), Answer(script[d]))
               /\ Working(d) => UpTo(d, Way, num, Len(got[d]), Produced(d))
    BY <1>1, <1>6 DEF Numbering
  <2>2. CASE Way' = Way
    <3>1. Numbering(num)'
      BY <1>1, <1>5, <1>6, <2>2 DEF Numbering
    <3>2. QED
      BY <2>2, <3>1
  <2>3. CASE Way' = Append(Way, m) /\ server = "serving"
    <3>1. PICK u \in Seq(Nat) : u = Append(num, 0) /\ Len(u) = Len(Way')
      <4>1. Append(num, 0) \in Seq(Nat) /\ Len(Append(num, 0)) = Len(num) + 1
        OBVIOUS
      <4>2. Len(Way') = Len(Way) + 1
        BY <1>1, <2>3
      <4>3. Len(num) = Len(Way)
        BY <1>6 DEF Numbering
      <4>4. QED
        BY <4>1, <4>2, <4>3
    <3>2. Fits(c, Way', u, Len(got[c]), Answer(script[c]))
      <4>1. Working(c)
        BY <2>3 DEF Working
      <4>2. kind = "ok" => UpTo(c, Way, num, Len(got[c]), Len(Answer(script[c])))
        BY <2>1, <4>1
      <4>3. Lasts(c, Way) = {}
        BY <1>6, StillOpen
      <4>4. Answer(script[c]) \in Seq(Seq(Nat)) /\ m.kind # "msg"
        BY <1>1, <1>2, CallTypes
      <4>5. Fits(c, Append(Way, m), Append(num, 0), Len(got[c]), Answer(script[c]))
        BY <1>1, <1>2, <2>1, <4>2, <4>3, <4>4, EndAppended
      <4>6. QED
        BY <2>3, <3>1, <4>5
    <3>3. ASSUME NEW d \in Calls, d # c
          PROVE  /\ Fits(d, Way', u, Len(got[d]), Answer(script[d]))
                 /\ Working(d) => UpTo(d, Way', u, Len(got[d]), Produced(d))
                 /\ Msgs(d, Way') = Msgs(d, Way) /\ Lasts(d, Way') = Lasts(d, Way)
      <4>1. Produced(d) \in Nat
        BY DEF LInv, LTypes, Produced, Places
      <4>2. Unmoved(d, Way, m, num, 0, Len(got[d]), Answer(script[d]))
        BY <1>1, <1>2, <2>1, <3>3, OtherAppended
      <4>3. QED
        BY <2>1, <2>3, <3>1, <4>1, <4>2 DEF Unmoved
    <3>4. Numbering(u)'
      BY <1>1, <1>5, <3>1, <3>2, <3>3 DEF Numbering
    <3>5. QED
      BY <3>3, <3>4
  <2>4. QED
    BY <1>3, <2>2, <2>3
<1>7. Onward' /\ Returned' /\ Told'
  <2>1. CASE stdoutOpen
    <3>1. PICK num \in Seq(Nat) : Numbering(num)
      BY <2>1 DEF LInv, Onward
    <3>2. Onward' /\ Returned'
      BY <1>1, <1>6, <2>1, <3>1 DEF LInv, Onward, Returned
    <3>3. Told'
      BY <1>1, <1>6, <2>1, <3>1, StillOpen DEF Told
    <3>4. QED
      BY <3>2, <3>3
  <2>2. CASE ~stdoutOpen
    BY <2>2 DEF Onward, Returned, Told
  <2>3. QED
    BY <2>1, <2>2
<1>8. QED
  BY <1>4, <1>7 DEF LInv

\* It sends the one message of its answer and returns.
LEMMA ReplyPreserves ==
  ASSUME LInv, NEW c \in Calls, process = "running", handler[c].at # "returned",
         UNCHANGED <<script, process, server, user, got, status, stdout, stdoutOpen>>,
         handler' \in [Calls -> Places], \A d \in Calls : d # c => handler'[d] = handler[d],
         handler'[c].at = "returned", Handling', server = "serving", NEW body \in Seq(Nat),
         down' = down \o <<Message(c, body), Trailer(c, "ok")>>,
         Produced(c) = 0, Answer(script[c]) = <<body>>
  PROVE  LInv'
<1>1. UNCHANGED <<Calls, Item>> /\ stdout \in Seq(Item) /\ down \in Seq(Item)
      /\ Way \in Seq(Item) /\ got \in [Calls -> Seq(Seq(Nat))] /\ script \in Scripts
  BY DEF LInv, LTypes, Calls, Item, Way
<1>2. PICK m \in Item : m = Message(c, body) /\ m.call = c /\ m.kind = "msg" /\ m.body = body
  BY Sendable
<1>3. PICK t \in Item : t = Trailer(c, "ok") /\ t.call = c /\ t.kind = "ok" /\ t.kind # "msg"
  BY Returnable
<1>4. PICK w \in Seq(Item) : w = Append(Way, m)
  <2>1. Append(Way, m) \in Seq(Item)
    BY <1>1, <1>2
  <2>2. QED
    BY <2>1
<1>5. down' \in Seq(Item) /\ Way' = Append(w, t)
  <2>1. PICK x \in Seq(Item) : x = Append(down, m)
    <3>1. Append(down, m) \in Seq(Item)
      BY <1>1, <1>2
    <3>2. QED
      BY <3>1
  <2>2. down' = Append(x, t)
    BY <1>1, <1>2, <1>3, <2>1
  <2>3. stdout \o x = w
    BY <1>1, <1>2, <1>4, <2>1 DEF Way
  <2>4. Append(x, t) \in Seq(Item) /\ stdout \o Append(x, t) = Append(stdout \o x, t)
    BY SMTT(30), <1>1, <1>3, <2>1
  <2>5. QED
    BY <1>1, <2>2, <2>3, <2>4 DEF Way
<1>6. LTypes' /\ Given' /\ Unspawned'
  BY <1>1, <1>5 DEF LInv, LTypes, Given, Unspawned
<1>7. \A d \in Calls : /\ Working(d)' => d # c /\ Working(d)
                       /\ d # c => Produced(d)' = Produced(d)
  BY DEF Working, Produced
<1>8. ASSUME stdoutOpen, NEW num \in Seq(Nat), Numbering(num)
      PROVE  /\ \E u \in Seq(Nat) : Numbering(u)'
             /\ \A d \in Calls \ {c} : /\ Msgs(d, Way') = Msgs(d, Way)
                                       /\ Lasts(d, Way') = Lasts(d, Way)
  <2>1. ASSUME NEW d \in Calls
        PROVE  /\ Len(got[d]) \in Nat /\ Len(num) = Len(Way)
               /\ Fits(d, Way, num, Len(got[d]), Answer(script[d]))
               /\ Working(d) => UpTo(d, Way, num, Len(got[d]), Produced(d))
    BY <1>1, <1>8 DEF Numbering
  <2> PICK p \in Nat : p = 0
    OBVIOUS
  <2>2. PICK v \in Seq(Nat) : v = Append(num, p + 1) /\ Len(v) = Len(w)
    <3>1. Append(num, p + 1) \in Seq(Nat) /\ Len(Append(num, p + 1)) = Len(num) + 1
      OBVIOUS
    <3>2. Len(w) = Len(Way) + 1
      BY <1>1, <1>4
    <3>3. Len(num) = Len(Way)
      BY <1>8 DEF Numbering
    <3>4. QED
      BY <3>1, <3>2, <3>3
  <2>3. PICK u \in Seq(Nat) : u = Append(v, 0) /\ Len(u) = Len(Way')
    <3>1. Append(v, 0) \in Seq(Nat) /\ Len(Append(v, 0)) = Len(v) + 1
      OBVIOUS
    <3>2. Len(Way') = Len(w) + 1
      BY <1>4, <1>5
    <3>3. QED
      BY <2>2, <3>1, <3>2
  <2>4. Fits(c, Way', u, Len(got[c]), Answer(script[c]))
    <3>1. UpTo(c, Way, num, Len(got[c]), p)
      <4>1. Working(c)
        BY DEF Working
      <4>2. QED
        BY <2>1, <4>1
    <3>2. Lasts(c, Way) = {}
      BY <1>8, StillOpen
    <3>3. Answer(script[c]) \in Seq(Seq(Nat)) /\ p + 1 <= Len(Answer(script[c]))
          /\ m.body = Answer(script[c])[p + 1] /\ Len(Answer(script[c])) = p + 1
      BY <1>1, <1>2, CallTypes
    <3>4. Grown(c, Way, m, num, p, Len(got[c]), Answer(script[c]))
      BY <1>1, <1>2, <2>1, <3>1, <3>2, <3>3, NextAppended
    <3>5. /\ Fits(c, w, v, Len(got[c]), Answer(script[c]))
          /\ UpTo(c, w, v, Len(got[c]), Len(Answer(script[c])))
          /\ Lasts(c, w) = {}
      BY <1>4, <2>2, <3>3, <3>4 DEF Grown
    <3>6. Fits(c, Append(w, t), Append(v, 0), Len(got[c]), Answer(script[c]))
      BY <1>3, <1>4, <2>1, <2>2, <3>3, <3>5, EndAppended
    <3>7. QED
      BY <1>5, <2>3, <3>6
  <2>5. ASSUME NEW d \in Calls, d # c
        PROVE  /\ Fits(d, Way', u, Len(got[d]), Answer(script[d]))
               /\ Working(d) => UpTo(d, Way', u, Len(got[d]), Produced(d))
               /\ Msgs(d, Way') = Msgs(d, Way) /\ Lasts(d, Way') = Lasts(d, Way)
    <3>1. Produced(d) \in Nat
      BY DEF LInv, LTypes, Produced, Places
    <3>2. PICK q \in Nat : q = p + 1
      OBVIOUS
    <3>3. Unmoved(d, Way, m, num, q, Len(got[d]), Answer(script[d]))
      BY <1>1, <1>2, <2>1, <2>5, OtherAppended
    <3>4. Unmoved(d, w, t, v, 0, Len(got[d]), Answer(script[d]))
      BY <1>3, <1>4, <2>1, <2>2, <2>5, OtherAppended
    <3>5. QED
      BY <1>4, <1>5, <2>1, <2>2, <2>3, <3>1, <3>2, <3>3, <3>4 DEF Unmoved
  <2>6. Numbering(u)'
    BY <1>1, <1>7, <2>3, <2>4, <2>5 DEF Numbering
  <2>7. QED
    BY <2>5, <2>6
<1>9. Onward' /\ Returned' /\ Told'
  <2>1. CASE stdoutOpen
    <3>1. PICK num \in Seq(Nat) : Numbering(num)
      BY <2>1 DEF LInv, Onward
    <3>2. Onward' /\ Returned'
      BY <1>1, <1>8, <2>1, <3>1 DEF LInv, Onward, Returned
    <3>3. Told'
      BY <1>1, <1>8, <2>1, <3>1, StillOpen DEF Told
    <3>4. QED
      BY <3>2, <3>3
  <2>2. CASE ~stdoutOpen
    BY <2>2 DEF Onward, Returned, Told
  <2>3. QED
    BY <2>1, <2>2
<1>10. QED
  BY <1>6, <1>9 DEF LInv

\* What a handler's step leaves alone, but for Exec.
Kept == UNCHANGED <<script, process, server, user, got, status, stdout, stdoutOpen>>

\* A handler moves to another place.
LEMMA Moved ==
  ASSUME LInv, script' = script, NEW c \in Calls, NEW at, At(c, at),
         at \in PlaceNames, Placed(c, at)
  PROVE  /\ handler' \in [Calls -> Places] /\ \A d \in Calls : d # c => handler'[d] = handler[d]
         /\ handler'[c].at = at /\ Handling' /\ Produced(c)' = Produced(c)
<1>1. handler \in [Calls -> Places]
  BY DEF LInv, LTypes
<1>2. /\ handler' \in [Calls -> Places] /\ \A d \in Calls : d # c => handler'[d] = handler[d]
      /\ handler'[c].at = at /\ handler'[c].n = handler[c].n
  BY <1>1 DEF At, Places
<1>3. Produced(c)' = Produced(c)
  BY <1>2 DEF Produced
<1>4. Handling'
  <2>1. ASSUME NEW d \in Calls
        PROVE  handler'[d].n <= Limit(script[d]) /\ Placed(d, handler'[d].at)
    BY <1>2 DEF LInv, Handling
  <2>2. QED
    BY <2>1 DEF Handling, Placed, Calls
<1>5. QED
  BY <1>2, <1>3, <1>4

\* A handler counts what it has handled.
LEMMA Counted ==
  ASSUME LInv, script' = script, NEW c \in Calls, Count(c), handler[c].n + 1 <= Limit(script[c])
  PROVE  /\ handler' \in [Calls -> Places] /\ \A d \in Calls : d # c => handler'[d] = handler[d]
         /\ handler'[c].at = handler[c].at /\ handler'[c].n = handler[c].n + 1 /\ Handling'
<1>1. handler \in [Calls -> Places]
  BY DEF LInv, LTypes
<1>2. /\ handler' \in [Calls -> Places] /\ \A d \in Calls : d # c => handler'[d] = handler[d]
      /\ handler'[c].at = handler[c].at /\ handler'[c].n = handler[c].n + 1
  BY <1>1 DEF Count, Places
<1>3. Handling'
  <2>1. ASSUME NEW d \in Calls
        PROVE  handler'[d].n <= Limit(script[d]) /\ Placed(d, handler'[d].at)
    BY <1>2 DEF LInv, Handling
  <2>2. QED
    BY <2>1 DEF Handling, Placed, Calls
<1>4. QED
  BY <1>2, <1>3

LEMMA MovePreserves ==
  ASSUME LInv, Kept, process = "running", NEW c \in Calls, handler[c].at # "returned",
         UNCHANGED down, NEW at, At(c, at),
         at \in PlaceNames \ {"returned"}, Placed(c, at)
  PROVE  LInv'
<1>1. /\ handler' \in [Calls -> Places] /\ \A d \in Calls : d # c => handler'[d] = handler[d]
      /\ handler'[c].at = at /\ Handling' /\ Produced(c)' = Produced(c)
  BY Moved DEF Kept
<1>2. QED
  BY <1>1, GoesOnPreserves DEF Kept

LEMMA ReturningPreserves ==
  ASSUME LInv, Kept, process = "running", NEW c \in Calls, handler[c].at # "returned",
         NEW kind \in {"ok", "error"}, Return(c, kind),
         kind = "ok" => Produced(c) = Len(Answer(script[c]))
  PROVE  LInv'
<1>1. /\ At(c, "returned")
      /\ down' = IF server = "serving" THEN Append(down, Trailer(c, kind)) ELSE down
  BY DEF Return
<1>2. /\ handler' \in [Calls -> Places] /\ \A d \in Calls : d # c => handler'[d] = handler[d]
      /\ handler'[c].at = "returned" /\ Handling'
  BY <1>1, Moved DEF Kept, PlaceNames, Placed
<1>3. QED
  BY <1>1, <1>2, ReturnPreserves DEF Kept

LEMMA ReplyingPreserves ==
  ASSUME LInv, Kept, NEW c \in Calls, NEW at, at # "returned", NEW body \in Seq(Nat),
         ReplyFrom(c, at, body), process = "running",
         Produced(c) = 0, Answer(script[c]) = <<body>>
  PROVE  LInv'
<1>1. /\ At(c, "returned") /\ server = "serving" /\ handler[c].at # "returned"
      /\ down' = down \o <<Message(c, body), Trailer(c, "ok")>>
  BY DEF ReplyFrom, Runs, Room
<1>2. /\ handler' \in [Calls -> Places] /\ \A d \in Calls : d # c => handler'[d] = handler[d]
      /\ handler'[c].at = "returned" /\ Handling'
  BY <1>1, Moved DEF Kept, PlaceNames, Placed
<1>3. QED
  BY <1>1, <1>2, ReplyPreserves DEF Kept

LEMMA SendingPreserves ==
  ASSUME LInv, Kept, process = "running", NEW c \in Calls, handler[c].at # "returned",
         NEW body \in Seq(Nat), Count(c), Send(c, body),
         script[c].method \in {"AppendAndPrint", "Babble"} \cup Rendering,
         handler[c].n + 1 <= Limit(script[c]),
         handler[c].n + 1 <= Len(Answer(script[c])),
         body = Answer(script[c])[handler[c].n + 1]
  PROVE  LInv'
<1>1. server # "gone" /\ down' = Append(down, Message(c, body))
  BY DEF Send, Room
<1>2. /\ handler' \in [Calls -> Places] /\ \A d \in Calls : d # c => handler'[d] = handler[d]
      /\ handler'[c].at = handler[c].at /\ handler'[c].n = handler[c].n + 1 /\ Handling'
  BY Counted DEF Kept
<1>3. Produced(c) = handler[c].n /\ Produced(c)' = Produced(c) + 1
  BY <1>2 DEF Produced, Kept
<1>4. QED
  BY <1>1, <1>2, <1>3, SendPreserves DEF Kept

LEMMA Bodies ==
  ASSUME NEW a \in Nat, NEW b \in Nat, NEW d \in Nat
  PROVE  /\ \E body \in Seq(Nat) : body = <<a>>
         /\ \E body \in Seq(Nat) : body = <<a, b, d>>
<1>1. <<a>> \in Seq(Nat) /\ <<a, b, d>> \in Seq(Nat)
  OBVIOUS
<1>2. QED
  BY <1>1

LEMMA OneBody ==
  ASSUME NEW ans \in Seq(Seq(Nat)), Len(ans) = 1, NEW body, ans[1] = body
  PROVE  ans = <<body>>
OBVIOUS

\* The runner's streams, Authority, Exec and those that are not implemented.
LEMMA ServicePreserves ==
  ASSUME LInv, Kept, process = "running", NEW c \in Calls, stolen = {},
         Authority(c) \/ Unimplemented(c) \/ ExecFails(c) \/ StringMethods(c)
  PROVE  LInv'
<1> DEFINE call == script[c]
<1>1. /\ call.method \in Methods /\ call.n \in Nat
      /\ Answer(call) \in Seq(Seq(Nat)) /\ Len(Answer(call)) \in Nat
  BY CallTypes DEF LInv, LTypes
<1>2. handler[c].n \in Nat /\ handler[c].n <= Limit(call)
  BY DEF LInv, LTypes, Places, Handling
<1> \A i : ~Lost(c, i)
  BY DEF Lost
<1>3. CASE Authority(c)
  <2>1. PICK body \in Seq(Nat) : body = <<1>>
    BY Bodies
  <2>2. ReplyFrom(c, "serve", body) /\ call.method = "Authority"
    BY <1>3, <2>1 DEF Authority, Reply
  <2>3. Answer(call) = <<body>> /\ Produced(c) = 0
    BY <1>1, <2>1, <2>2, Answers DEF Produced, Rendering
  <2>4. QED
    BY <2>2, <2>3, ReplyingPreserves
<1>4. CASE Unimplemented(c) \/ ExecFails(c)
  <2>1. Return(c, "error") /\ handler[c].at # "returned"
    BY <1>4 DEF Unimplemented, ExecFails, Refuse, Runs
  <2>2. QED
    BY <2>1, ReturningPreserves
<1>5. CASE AppendAndPrint(c)
  <2>1. handler[c].at # "returned" /\ Limit(call) = call.n /\ Produced(c) = handler[c].n
        /\ call.method = "AppendAndPrint"
    BY <1>5 DEF AppendAndPrint, Runs, Limit, Produced
  <2>2. Len(Answer(call)) = call.n /\ \A k \in 1..call.n : Answer(call)[k] = <<k>>
    BY <1>1, <2>1, Answers
  <2>3. CASE HasNext(c) /\ Count(c) /\ Send(c, <<handler[c].n + 1>>)
    <3>1. handler[c].n + 1 <= call.n
      BY <1>1, <1>2, <2>3 DEF HasNext
    <3>2. PICK body \in Seq(Nat) : body = <<handler[c].n + 1>>
      <4>1. handler[c].n + 1 \in Nat
        BY <1>2
      <4>2. QED
        BY <4>1, Bodies
    <3>3. Send(c, body) /\ body = Answer(call)[handler[c].n + 1]
      BY <1>2, <2>2, <2>3, <3>1, <3>2
    <3>4. QED
      BY <2>1, <2>2, <2>3, <3>1, <3>3, SendingPreserves
  <2>4. CASE Ended(c) /\ Return(c, "ok")
    <3>1. Produced(c) = Len(Answer(call))
      BY <2>1, <2>2, <2>4 DEF Ended
    <3>2. QED
      BY <2>1, <2>4, <3>1, ReturningPreserves
  <2>5. QED
    BY <1>5, <2>3, <2>4 DEF AppendAndPrint
<1>6. CASE AddNewLine(c)
  <2>1. call.method = "AddNewLine" /\ Limit(call) = call.n
    BY <1>6 DEF AddNewLine, Limit
  <2>2. Answer(call) = <<[i \in 1..call.n |-> i]>> /\ [i \in 1..call.n |-> i] \in Seq(Nat)
    <3>1. Answer(call) = <<[i \in 1..call.n |-> i]>>
      BY <1>1, <2>1, Answers
    <3>2. \A l \in Nat : [i \in 1..l |-> i] \in Seq(Nat)
      OBVIOUS
    <3>3. QED
      BY <1>1, <3>1, <3>2
  <2>3. CASE Runs(c, "serve") /\ HasNext(c) /\ Count(c) /\ Pause
    <3>1. handler[c].at = "serve" /\ handler[c].n + 1 <= call.n
      BY <1>1, <1>2, <2>3 DEF Runs, HasNext
    <3>2. /\ handler' \in [Calls -> Places] /\ \A d \in Calls : d # c => handler'[d] = handler[d]
          /\ handler'[c].at = handler[c].at /\ Handling'
      BY <2>1, <2>3, <3>1, Counted DEF Kept
    <3>3. Produced(c)' = Produced(c)
      BY <2>1 DEF Produced, Rendering, Kept
    <3>4. QED
      BY <2>3, <3>1, <3>2, <3>3, GoesOnPreserves DEF Kept, Pause
  <2>4. CASE Ended(c) /\ Reply(c, [i \in 1..call.n |-> IF Lost(c, i) THEN 0 ELSE i])
    <3>1. PICK body \in Seq(Nat) : body = [i \in 1..call.n |-> i]
      BY <2>2
    <3>2. [i \in 1..call.n |-> IF Lost(c, i) THEN 0 ELSE i] = body
      BY <3>1
    <3>3. ReplyFrom(c, "serve", body) /\ Answer(call) = <<body>> /\ Produced(c) = 0
      BY <2>1, <2>2, <2>4, <3>1, <3>2 DEF Reply, Produced, Rendering
    <3>4. QED
      BY <3>3, ReplyingPreserves
  <2>5. QED
    BY <1>6, <2>3, <2>4 DEF AddNewLine
<1>7. CASE Babble(c)
  <2>1. handler[c].at # "returned" /\ call.method = "Babble" /\ Produced(c) = handler[c].n
        /\ Limit(call) = IF call.n = 0 THEN 0 ELSE Copies
    BY <1>7 DEF Babble, Runs, Limit, Produced
  <2>2. Len(Answer(call)) = Limit(call) /\ \A k \in 1..Len(Answer(call)) : Answer(call)[k] = <<1>>
    BY <1>1, <2>1, Answers
  <2>3. CASE call.n # 0 /\ handler[c].n < Copies
    <3>1. PICK body \in Seq(Nat) : body = <<1>>
      BY Bodies
    <3>2. Count(c) /\ Send(c, body)
      BY <1>7, <2>3, <3>1 DEF Babble
    <3>3. handler[c].n + 1 <= Limit(call) /\ body = Answer(call)[handler[c].n + 1]
      BY <1>2, <2>1, <2>2, <2>3, <3>1, ReplyAssumption
    <3>4. QED
      BY <2>1, <2>2, <3>2, <3>3, SendingPreserves
  <2>4. CASE ~(call.n # 0 /\ handler[c].n < Copies)
    <3>1. Return(c, "ok")
      BY <1>7, <2>4 DEF Babble
    <3>2. Produced(c) = Len(Answer(call))
      BY <1>1, <1>2, <2>1, <2>2, <2>4, ReplyAssumption
    <3>3. QED
      BY <2>1, <3>1, <3>2, ReturningPreserves
  <2>5. QED
    BY <2>3, <2>4
<1>8. QED
  BY <1>3, <1>4, <1>5, <1>6, <1>7 DEF StringMethods

\* Shell, and what the runner does with processes but for starting them.
LEMMA ProcessesPreserve ==
  ASSUME LInv, Kept, process = "running", NEW c \in Calls, Processes(c),
         ~ForkLoader(c), ~SpawnProgram(c)
  PROVE  LInv'
<1> DEFINE call == script[c]
<1>1. call.method \in Methods /\ call.n \in Nat /\ Placed(c, handler[c].at)
  BY CallTypes DEF LInv, LTypes, Handling
<1>2. ASSUME Return(c, "error"), handler[c].at # "returned" PROVE LInv'
  BY <1>2, ReturningPreserves
<1>3. ASSUME NEW at \in {"command", "open", "await", "reply"}, ReplyFrom(c, at, << 1 >>) PROVE LInv'
  <2>1. PICK body \in Seq(Nat) : body = <<1>>
    BY Bodies
  <2>2. call.method \in {"Shell"} \cup Runner
    BY <1>1, <1>3 DEF ReplyFrom, Runs, Placed
  <2>3. Answer(call) = <<body>> /\ Produced(c) = 0
    BY <1>1, <2>1, <2>2, Answers DEF Produced, Rendering, Runner
  <2>4. QED
    BY <1>3, <2>1, <2>3, ReplyingPreserves
<1>4. ASSUME NEW at \in {"command", "open", "await", "reply"}, At(c, at), UNCHANGED down,
             Placed(c, at), handler[c].at # "returned"
      PROVE  LInv'
  BY <1>4, MovePreserves DEF PlaceNames
<1>5. CASE Shell(c) \/ BatchAlone(c) \/ StopProcess(c)
  <2>1. /\ handler[c].at # "returned" /\ UNCHANGED down
        /\ \/ At(c, "command") /\ call.method = "Shell"
           \/ At(c, "open") /\ call.method = "Batch"
           \/ At(c, "reply") /\ call.method = "Stop"
    BY <1>5 DEF Shell, BatchAlone, StopProcess, Runs, Pause
  <2>2. QED
    BY <1>4, <2>1 DEF Placed, Runner
<1>6. CASE WrapSocket(c) \/ BatchWaits(c)
  <2>1. handler[c].at \in {"wrap", "open"} /\ call.method \in Runner
    BY <1>1, <1>6 DEF WrapSocket, BatchWaits, Runs, Placed
  <2>2. \/ Return(c, "error")
        \/ UNCHANGED down /\ \E at \in {"reply", "open", "await"} : At(c, at)
    BY <1>6 DEF WrapSocket, BatchWaits, Pause
  <2>3. QED
    BY <1>2, <1>4, <2>1, <2>2 DEF Placed
<1>7. CASE Refused(c) \/ BatchFails(c)
  <2>1. Return(c, "error") /\ handler[c].at # "returned"
    BY <1>7 DEF Refused, BatchFails, Refuse, Runs
  <2>2. QED
    BY <1>2, <2>1
<1>8. CASE ShellEnds(c) \/ ProcessReply(c) \/ BatchApplies(c)
  <2>1. \/ \E at \in {"command", "open", "reply"} : ReplyFrom(c, at, <<1>>)
        \/ Return(c, "error") /\ handler[c].at # "returned"
    BY <1>8 DEF ShellEnds, ProcessReply, BatchApplies, Runs
  <2>2. QED
    BY <1>2, <1>3, <2>1
<1>9. QED
  BY <1>5, <1>6, <1>7, <1>8 DEF Processes

\* The imager, and the handlers' other ends.
LEMMA ImagerPreserves ==
  ASSUME NamesInOrder, LInv, Kept, process = "running", NEW c \in Calls,
         Imager(c) \/ Hang(c) \/ Abandon(c)
  PROVE  LInv'
<1> DEFINE call == script[c]
<1>1. /\ call.method \in Methods /\ call.n \in Nat
      /\ Answer(call) \in Seq(Seq(Nat)) /\ Len(Answer(call)) \in Nat
  BY CallTypes DEF LInv, LTypes
<1>2. /\ handler[c].n \in Nat /\ handler[c].n <= Limit(call)
      /\ Placed(c, handler[c].at)
  BY DEF LInv, LTypes, Places, Handling
<1>3. ASSUME handler[c].at \in {"fetch", "save", "render", "extract", "frames"}
      PROVE  /\ Limit(call) = call.n /\ Produced(c) = handler[c].n
             /\ call.method \in Rendering /\ Len(Answer(call)) = FrameCount(call)
             /\ \A k \in 1..FrameCount(call) : Answer(call)[k] = <<k, k - 1, FrameCount(call)>>
  BY <1>1, <1>2, <1>3, Answers DEF Limit, Produced, Placed, Rendering
\* A step that ends in an error.
<1>4. ASSUME Return(c, "error"), handler[c].at # "returned" PROVE LInv'
  BY <1>4, ReturningPreserves
\* A step to another place.
<1>5. ASSUME NEW at \in {"fetch", "save", "render", "extract", "frames", "hung"}, At(c, at),
             UNCHANGED down, at # "hung" => call.method \in Rendering,
             handler[c].at # "returned", at \in {"extract", "frames"} => call.n > 0
      PROVE  LInv'
  BY <1>5, MovePreserves DEF PlaceNames, Placed
<1>6. CASE Render(c) \/ RenderBytes(c)
  <2>1. handler[c].at # "returned" /\ call.method \in Rendering
    BY <1>6 DEF Render, RenderBytes, Runs, Rendering
  <2>2. \/ Return(c, "error")
        \/ UNCHANGED down /\ (At(c, "fetch") \/ At(c, "render"))
    BY <1>6 DEF Render, RenderBytes, Pause
  <2>3. QED
    BY <1>4, <1>5, <2>1, <2>2
<1>7. CASE Fetch(c) \/ Save(c) \/ Extract(c)
  <2>1. handler[c].at # "returned" /\ call.method \in Rendering
        /\ (Extract(c) => call.n > 0)
    BY <1>2, <1>7 DEF Fetch, Save, Extract, Runs, Placed
  <2>2. CASE Return(c, "error")
    BY <1>4, <2>1, <2>2
  <2>3. CASE UNCHANGED down /\ (At(c, "save") \/ At(c, "render"))
    BY <1>5, <2>1, <2>3
  <2>4. CASE Extract(c) /\ UNCHANGED down /\ At(c, "frames")
    BY <1>5, <2>1, <2>4
  <2>5. QED
    BY <1>7, <2>2, <2>3, <2>4 DEF Fetch, Save, Extract, Pause
<1>8. CASE RenderFile(c)
  <2>1. handler[c].at = "render" /\ call.method \in Rendering
    BY <1>2, <1>8 DEF RenderFile, ReplyFrom, Runs, Placed
  <2>2. CASE call.n = 0 /\ ReplyFrom(c, "render", <<1, 0, 1>>)
    <3>1. PICK body \in Seq(Nat) : body = <<1, 0, 1>>
      BY Bodies
    <3>2. Produced(c) = 0 /\ FrameCount(call) = 1
      BY <1>2, <1>3, <2>1, <2>2 DEF FrameCount
    <3>3. Len(Answer(call)) = 1 /\ Answer(call)[1] = body
      BY <1>3, <2>1, <3>1, <3>2
    <3>4. Answer(call) = <<body>>
      BY <1>1, <3>1, <3>3, OneBody
    <3>5. QED
      BY <2>2, <3>1, <3>2, <3>4, ReplyingPreserves
  <2>3. CASE call.n > 0 /\ At(c, "extract") /\ UNCHANGED down
    BY <1>5, <2>1, <2>3
  <2>4. CASE Return(c, "error")
    BY <1>4, <2>1, <2>4
  <2>5. QED
    BY <1>8, <2>2, <2>3, <2>4 DEF RenderFile
<1>9. CASE SendFrame(c)
  <2> DEFINE i == handler[c].n + 1  n == call.n
  <2>1. /\ handler[c].at = "frames" /\ i <= n
        /\ Count(c) /\ Send(c, <<SortedFrames(n)[i], i - 1, n>>)
    BY <1>9 DEF SendFrame, Runs
  <2>2. call.method \in Rendering /\ n > 0 /\ i \in 1..n
    BY <1>1, <1>2, <2>1 DEF Placed
  <2>3. SortedFrames(n) = [k \in 1..n |-> k]
    BY <2>2 DEF NamesInOrder, LInv, LTypes, Calls
  <2>4. SortedFrames(n)[i] = i
    BY <2>2, <2>3
  <2>5. PICK body \in Seq(Nat) : body = <<i, i - 1, n>>
    <3>1. i \in Nat /\ i - 1 \in Nat /\ n \in Nat
      BY <1>1, <1>2, <2>2
    <3>2. QED
      BY <3>1, Bodies
  <2>6. Send(c, body)
    BY <2>1, <2>4, <2>5
  <2>7. FrameCount(call) = n
    BY <2>2 DEF FrameCount
  <2>8. i <= Limit(call) /\ i <= Len(Answer(call)) /\ body = Answer(call)[i]
    BY <1>3, <2>1, <2>2, <2>5, <2>7
  <2>9. QED
    BY <2>1, <2>2, <2>6, <2>8, SendingPreserves
<1>10. CASE FramesSent(c)
  <2>1. handler[c].at = "frames" /\ handler[c].n = call.n /\ Return(c, "ok")
    BY <1>10 DEF FramesSent, Runs
  <2>2. Produced(c) = Len(Answer(call))
    BY <1>1, <1>2, <1>3, <2>1 DEF FrameCount, Placed
  <2>3. QED
    BY <2>1, <2>2, ReturningPreserves
<1>11. CASE ConvertFails(c) \/ Abandon(c)
  <2>1. handler[c].at # "returned" /\ Return(c, "error")
    BY <1>11 DEF ConvertFails, Abandon, Runs
  <2>2. QED
    BY <1>4, <2>1
<1>12. CASE Hang(c)
  <2>1. handler[c].at # "returned" /\ At(c, "hung") /\ UNCHANGED down
    BY <1>12 DEF Hang, Runs, Pause
  <2>2. QED
    BY <1>5, <2>1
<1>13. QED
  BY <1>6, <1>7, <1>8, <1>9, <1>10, <1>11, <1>12 DEF Imager

LEMMA HandlePreserves ==
  ASSUME NamesInOrder, LInv, stolen = {}, NEW c \in Calls, Handle(c), ~shared'
  PROVE  LInv' /\ UNCHANGED <<script, got, status>>
<1>1. process = "running" /\ UNCHANGED <<user, got, status, stdout, stdoutOpen>>
  BY DEF Handle, Bridging, clientVars
<1>2. CASE Exec(c)
  <2>1. script' = script /\ handler' = handler /\ server' = "gone" /\ down' = <<>>
    BY <1>2 DEF Exec
  <2>2. Unspawned' /\ (Deaf => Deaf')
    BY <1>1 DEF LInv, Unspawned, Deaf
  <2>3. QED
    BY <1>1, <2>1, <2>2, CutPreserves
<1>3. CASE Authority(c) \/ Unimplemented(c) \/ ExecFails(c) \/ StringMethods(c)
  <2>1. Kept
    BY <1>1, <1>3 DEF Kept, Authority, Unimplemented, ExecFails, StringMethods, AppendAndPrint,
                      AddNewLine, Babble, Reply, ReplyFrom, Refuse, Stay, Alone
  <2>2. QED
    BY <1>1, <1>3, <2>1, ServicePreserves DEF Kept
<1>4. CASE Processes(c)
  <2>1. ~ForkLoader(c) /\ ~SpawnProgram(c)
    BY DEF ForkLoader, SpawnProgram, Starts
  <2>2. Kept
    BY <1>1, <1>4, <2>1 DEF Kept, Processes, Shell, ShellEnds, Refused, Refuse, WrapSocket,
                      StopProcess, ProcessReply, BatchAlone, BatchApplies, BatchWaits, BatchFails,
                      ReplyFrom, Stay, Alone
  <2>3. QED
    BY <1>1, <1>4, <2>1, <2>2, ProcessesPreserve DEF Kept
<1>5. CASE Imager(c) \/ Hang(c) \/ Abandon(c)
  <2>1. Kept
    BY <1>1, <1>5 DEF Kept, Imager, Render, Fetch, Save, RenderBytes, RenderFile, Extract,
                      SendFrame, FramesSent, ConvertFails, Hang, Abandon, ReplyFrom, Stay, Alone
  <2>2. QED
    BY <1>1, <1>5, <2>1, ImagerPreserves DEF Kept
<1>6. QED
  BY <1>2, <1>3, <1>4, <1>5 DEF Handle, HandlerStep

-----------------------------------------------------------------------------
(* The loader and its client: the contract.                                *)

\* Until the runner has started a process, nobody but the loader has its stdin and stdout.
Unshared == ~shared /\ kin = {} /\ stolen = {}

ContractInv == shared \/ (Unshared /\ LInv)

LEMMA ContractInvInit == LoaderInit => ContractInv /\ Promise!Init
<1> SUFFICES ASSUME LoaderInit PROVE Unshared /\ LInv /\ Promise!Init
  BY DEF ContractInv
<1>1. /\ script \in Scripts /\ handler = [c \in Calls |-> [at |-> "serve", n |-> 0]]
      /\ down = <<>> /\ stdout = <<>> /\ stdoutOpen = TRUE
      /\ got = [c \in Calls |-> <<>>] /\ status = [c \in Calls |-> "open"]
  BY DEF LoaderInit, ServicesInit, QuietInit
<1>2. LTypes
  <2>1. <<>> \in Seq(Item) /\ <<>> \in Seq(Seq(Nat))
    OBVIOUS
  <2>2. QED
    BY <1>1, <2>1 DEF LTypes, Places, PlaceNames
<1>3. Handling
  <2>1. \A c \in Calls : Limit(script[c]) \in Nat
    <3>1. ASSUME NEW c \in Calls PROVE Limit(script[c]) \in Nat
      BY <1>1, CallTypes, ReplyAssumption DEF Limit
    <3>2. QED
      BY <3>1
  <2>2. QED
    BY <1>1, <2>1 DEF Handling, Placed
<1>4. Unspawned /\ Unshared
  BY DEF LoaderInit, ServicesInit, Unspawned, Unshared
<1>5. Given
  <2>1. ASSUME NEW c \in Calls
        PROVE  Len(got[c]) <= Len(Answer(script[c])) /\ DOMAIN got[c] = {}
    BY <1>1, CallTypes
  <2>2. QED
    BY <2>1 DEF Given
<1>6. Way = <<>> /\ \A c : Msgs(c, Way) = {} /\ Lasts(c, Way) = {}
  BY <1>1 DEF Way, Msgs, Lasts
<1>7. Numbering(<<>>)
  <2>1. ASSUME NEW c \in Calls
        PROVE  /\ Fits(c, Way, <<>>, Len(got[c]), Answer(script[c]))
               /\ UpTo(c, Way, <<>>, Len(got[c]), Produced(c))
    <3>1. Fits(c, Way, <<>>, Len(got[c]), Answer(script[c]))
      BY <1>6 DEF Fits, Right, InTurn, NoGap, EndsLast
    <3>2. Len(got[c]) = 0 /\ Produced(c) = 0
      BY <1>1 DEF Produced
    <3>3. UpTo(c, Way, <<>>, Len(got[c]), Produced(c))
      BY <1>6, <3>2 DEF UpTo
    <3>4. QED
      BY <3>1, <3>3
  <2>2. QED
    BY <1>6, <2>1 DEF Numbering
<1>8. <<>> \in Seq(Nat)
  OBVIOUS
<1>9. Onward /\ Returned /\ Told
  BY <1>1, <1>6, <1>7, <1>8 DEF Onward, Returned, Told
<1>10. Promise!Init
  BY <1>1 DEF Promise!Init
<1>11. QED
  BY <1>2, <1>3, <1>4, <1>5, <1>9, <1>10 DEF LInv

\* The steps that leave the calls alone.
LEMMA OthersPreserve ==
  ASSUME LInv,
         \/ \E c \in Calls : Put(c)
         \/ CloseStdin \/ StopReading \/ PtyCliRuns \/ TypeLine \/ Quit \/ Killed
         \/ MainRuns \/ StdinRuns \/ StdoutRuns \/ ServerRuns
  PROVE  LInv' /\ UNCHANGED <<script, got, status>>
<1>1. Unspawned
  BY DEF LInv
<1>2. ASSUME UNCHANGED <<script, handler, got, status, stdout, stdoutOpen, down, server>>,
             Deaf => Deaf', Unspawned'
      PROVE  LInv' /\ UNCHANGED <<script, got, status>>
  BY <1>2, StillPreserves
<1>3. ASSUME UNCHANGED <<script, handler, got, status, down>>, Unspawned',
             stdoutOpen' = FALSE, stdout' = <<>>
      PROVE  LInv' /\ UNCHANGED <<script, got, status>>
  BY <1>3, ShutPreserves
<1>4. CASE \E c \in Calls : Put(c)
  BY <1>1, <1>2, <1>4 DEF Put, Write, serviceVars, Deaf, Unspawned
<1>5. CASE CloseStdin
  BY <1>1, <1>2, <1>5 DEF CloseStdin, serviceVars, Deaf, Unspawned
<1>6. CASE StopReading
  BY <1>1, <1>3, <1>6 DEF StopReading, serviceVars, Unspawned
<1>7. CASE PtyCliRuns
  <2>1. CASE Play \/ NoLoader \/ CleanupWait
    BY <1>1, <1>2, <2>1 DEF Play, NoLoader, CleanupWait, serviceVars, Deaf, Unspawned
  <2>2. CASE Spawn \/ SpawnFails
    BY <1>1, <1>2, <2>2 DEF Spawn, SpawnFails, Deaf, Unspawned
  <2>3. CASE CleanupSignal
    BY <1>1, <1>2, <2>3 DEF CleanupSignal, Deaf, Unspawned
  <2>4. CASE CleanupClose
    BY <1>1, <1>3, <2>4 DEF CleanupClose, HangUp, serviceVars, Unspawned
  <2>5. QED
    BY <1>7, <2>1, <2>2, <2>3, <2>4 DEF PtyCliRuns
<1>8. CASE TypeLine \/ Quit
  BY <1>1, <1>2, <1>8 DEF TypeLine, Quit, Write, serviceVars, Deaf, Unspawned
<1>9. CASE Killed
  BY <1>1, <1>3, <1>9 DEF Killed, HangUp, serviceVars, Unspawned
<1>10. CASE MainRuns
  <2>1. process = "running"
    BY <1>10 DEF MainRuns, ExecLoader, Listen, ShowReflectionServices, Serve, Fatal, Starting,
                 FirstReadDone, StdinClosed, GracefulStop, Bridging
  <2>2. (\E next : MainStep(next)) \/ (\E how : Exit(how))
    BY <1>10 DEF MainRuns, ExecLoader, Listen, ShowReflectionServices, Serve, Fatal,
                 FirstReadDone, StdinClosed, GracefulStop
  <2>3. UNCHANGED <<script, handler, got, status, stdout, stdoutOpen, down, server, user>>
    BY <2>2 DEF MainStep, Exit, serviceVars, clientVars
  <2>4. QED
    BY <1>1, <1>2, <2>1, <2>3 DEF Deaf, Unspawned
<1>11. CASE StdinRuns
  <2>1. UNCHANGED <<script, process, handler, got, status, stdout, stdoutOpen, down, server, user>>
    BY <1>11 DEF StdinRuns, CopyFirst, CopyIn, CopyInEnds, serviceVars, clientVars
  <2>2. QED
    BY <1>1, <1>2, <2>1 DEF Deaf, Unspawned
<1>12. CASE StdoutRuns
  <2>1. CASE CopyOut
    BY <2>1, CopyOutPreserves DEF CopyOut
  <2>2. CASE CopyOutBreaks \/ CopyOutEnds
    <3>1. process = "running"
          /\ UNCHANGED <<script, handler, got, status, stdout, stdoutOpen, down, server, user>>
      BY <2>2 DEF CopyOutBreaks, CopyOutEnds, Bridging, Exit, serviceVars, clientVars
    <3>2. QED
      BY <1>1, <1>2, <3>1 DEF Deaf, Unspawned
  <2>3. QED
    BY <1>12, <2>1, <2>2 DEF StdoutRuns
<1>13. CASE ServerRuns
  <2>1. process = "running" /\ server # "gone"
        /\ UNCHANGED <<script, process, handler, got, status, stdout, stdoutOpen, user>>
    BY <1>13 DEF ServerRuns, Accept, Deliver, Garbled, ServerSeesEnd, ServerIs, Bridging, clientVars
  <2>2. Unspawned' /\ (Deaf => Deaf')
    BY <1>1, <2>1 DEF Deaf, Unspawned
  <2>3. CASE down' = down
    BY <2>1, <2>2, <2>3, StillPreserves
  <2>4. CASE down' = <<>> /\ server' = "gone"
    BY <2>1, <2>2, <2>4, CutPreserves
  <2>5. QED
    BY <1>13, <2>3, <2>4 DEF ServerRuns, Accept, Deliver, Garbled, ServerSeesEnd, ServerIs
<1>14. QED
  BY <1>4, <1>5, <1>6, <1>7, <1>8, <1>9, <1>10, <1>11, <1>12, <1>13

LEMMA StepKeepsPromise ==
  ASSUME NamesInOrder, Unshared, LInv, [LoaderNext]_loaderVars, ~shared'
  PROVE  LInv' /\ [Promise!Next]_<<[c \in Calls |-> Answer(script[c])], got, status>>
<1>1. CASE UNCHANGED loaderVars
  <2>1. Unspawned' /\ (Deaf => Deaf')
    BY <1>1 DEF LInv, Unspawned, Deaf, loaderVars
  <2>2. UNCHANGED <<script, handler, got, status, stdout, stdoutOpen, down, server, Calls>>
    BY <1>1 DEF loaderVars, Calls
  <2>3. QED
    BY <2>1, <2>2, StillPreserves
<1>2. ASSUME UNCHANGED <<script, got, status>>
      PROVE  UNCHANGED <<[c \in Calls |-> Answer(script[c])], got, status>>
  BY <1>2 DEF Calls
<1>3. CASE Take
  <2>1. UNCHANGED <<script, Calls>>
    BY <1>3 DEF Take, serviceVars, Calls
  <2>2. PICK c \in Calls :
           /\ status[c] = "open"
           /\ \/ /\ Len(got[c]) < Len(Answer(script[c])) /\ status' = status
                 /\ got' = [got EXCEPT ![c] = Append(@, Answer(script[c])[Len(@) + 1])]
              \/ /\ got[c] = Answer(script[c]) /\ got' = got
                 /\ status' = [status EXCEPT ![c] = "ok"]
              \/ got' = got /\ status' = [status EXCEPT ![c] = "failed"]
    BY <1>3, TakePreserves
  <2>3. Promise!Give(c) \/ Promise!Finish(c) \/ Promise!Fail(c)
    BY <2>1, <2>2 DEF Promise!Give, Promise!Finish, Promise!Fail
  <2>4. QED
    BY <1>3, <2>3, TakePreserves DEF Promise!Next
<1>4. CASE \E c \in Calls : ConnLost(c)
  <2>1. PICK c \in Calls : ConnLost(c)
    BY <1>4
  <2>2. LInv' /\ status[c] = "open" /\ got' = got /\ script' = script
        /\ status' = [status EXCEPT ![c] = "failed"]
    BY <2>1, ConnLostPreserves
  <2>3. Promise!Fail(c)
    BY <2>2 DEF Promise!Fail, Calls
  <2>4. QED
    BY <2>2, <2>3 DEF Promise!Next
<1>5. CASE \E c \in Calls : Handle(c)
  BY <1>2, <1>5, HandlePreserves DEF Unshared
<1>6. CASE \/ \E c \in Calls : Put(c)
           \/ CloseStdin \/ StopReading \/ PtyCliRuns \/ TypeLine \/ Quit \/ Killed
           \/ MainRuns \/ StdinRuns \/ StdoutRuns \/ ServerRuns
  BY <1>2, <1>6, OthersPreserve
<1>7. ASSUME NEW k \in Calls, Steal(k) \/ Scribble(k) \/ KinEnds(k) PROVE FALSE
  BY <1>7 DEF Steal, Scribble, KinEnds, Unshared
<1>8. QED
  BY <1>1, <1>3, <1>4, <1>5, <1>6, <1>7 DEF LoaderNext, Reads

\* Only handlers, and the processes themselves, touch what is known of processes.
LEMMA KinStays ==
  ASSUME [LoaderNext]_loaderVars
  PROVE  \/ UNCHANGED <<script, kinVars>>
         \/ \E c \in Calls : Handle(c) \/ Steal(c) \/ KinEnds(c)
<1>1. CASE \/ UNCHANGED loaderVars \/ \E c \in Calls : Put(c) \/ Scribble(c)
           \/ CloseStdin \/ StopReading \/ Reads \/ TypeLine \/ Quit \/ Killed
           \/ StdinRuns
  BY <1>1 DEF loaderVars, Put, Scribble, CloseStdin, StopReading, Reads, Take, ConnLost,
     TypeLine, Quit, Killed, StdinRuns, CopyFirst, CopyIn, CopyInEnds, serviceVars, kinVars
<1>2. CASE PtyCliRuns
  BY <1>2 DEF PtyCliRuns, Play, Spawn, NoLoader, SpawnFails, CleanupClose, CleanupSignal,
     CleanupWait, serviceVars, kinVars
<1>3. CASE MainRuns
  BY <1>3 DEF MainRuns, ExecLoader, Listen, ShowReflectionServices, Serve, Fatal, FirstReadDone,
     StdinClosed, GracefulStop, Exit, MainStep, serviceVars, kinVars
<1>4. CASE StdoutRuns \/ ServerRuns
  BY <1>4 DEF StdoutRuns, CopyOut, CopyOutBreaks, CopyOutEnds, ServerRuns, Accept, Deliver,
     Garbled, ServerSeesEnd, ServerIs, Exit, serviceVars, kinVars
<1>5. QED
  BY <1>1, <1>2, <1>3, <1>4 DEF LoaderNext

\* A handler that starts a process shares stdin or stdout from then on; the others at
\* most see one go.
LEMMA HandleKin ==
  ASSUME NEW c \in Calls, Handle(c)
  PROVE  /\ stolen' = stolen /\ script' = script /\ procs' \subseteq procs \cup {c}
         /\ \/ shared' = TRUE /\ kin' = kin \cup {c}
            \/ shared' = shared /\ kin' \subseteq kin
<1>1. CASE Authority(c) \/ Unimplemented(c) \/ ExecFails(c) \/ Exec(c) \/ StringMethods(c)
           \/ Imager(c) \/ Hang(c) \/ Abandon(c)
  <2>1. UNCHANGED <<script, kinVars>>
    BY <1>1 DEF Authority, Unimplemented, ExecFails, Exec, StringMethods, AppendAndPrint,
       AddNewLine, Babble, Imager, Render, Fetch, Save, RenderBytes, RenderFile, Extract,
       SendFrame, FramesSent, ConvertFails, Hang, Abandon, Reply, ReplyFrom, Refuse, Stay,
       Alone, kinVars
  <2>2. QED
    BY <2>1 DEF kinVars
<1>2. CASE Processes(c)
  <2>1. UNCHANGED <<script, stolen>>
    BY <1>2 DEF Processes, Shell, ShellEnds, Refused, Refuse, ForkLoader, WrapSocket,
       SpawnProgram, StopProcess, ProcessReply, BatchAlone, BatchApplies, BatchWaits,
       BatchFails, ReplyFrom, Stay, Alone
  <2>2. CASE ForkLoader(c) \/ SpawnProgram(c)
    BY <2>1, <2>2 DEF ForkLoader, SpawnProgram, Starts
  <2>3. CASE WrapSocket(c) \/ StopProcess(c)
    BY <2>1, <2>3 DEF WrapSocket, StopProcess
  <2>4. CASE Shell(c) \/ ShellEnds(c) \/ Refused(c) \/ ProcessReply(c)
             \/ BatchAlone(c) \/ BatchApplies(c) \/ BatchWaits(c) \/ BatchFails(c)
    BY <2>1, <2>4 DEF Shell, ShellEnds, Refused, Refuse, ProcessReply, BatchAlone, BatchApplies,
       BatchWaits, BatchFails, ReplyFrom, Stay
  <2>5. QED
    BY <1>2, <2>2, <2>3, <2>4 DEF Processes
<1>3. QED
  BY <1>1, <1>2 DEF Handle, HandlerStep

\* What is shared stays so, and nothing is lost before.
LEMMA SharedStays ==
  ASSUME [LoaderNext]_loaderVars
  PROVE  /\ shared => shared'
         /\ Unshared => shared' \/ Unshared'
<1>1. CASE UNCHANGED kinVars
  BY <1>1 DEF kinVars, Unshared
<1>2. ASSUME NEW c \in Calls, Steal(c) \/ KinEnds(c)
      PROVE  shared' = shared /\ ~Unshared
  BY <1>2 DEF Steal, KinEnds, Unshared
<1>3. ASSUME NEW c \in Calls, Handle(c)
      PROVE  /\ shared => shared'
             /\ Unshared => shared' \/ Unshared'
  BY <1>3, HandleKin DEF Unshared
<1>4. QED
  BY <1>1, <1>2, <1>3, KinStays

\* Until the runner starts a process, a client of the loader gets each call's answer in
\* order and once, and success only after all of it (loader-cli/main.go:68-91), for any
\* calls, any room in the pipes and any number of permutations, as long as the movies'
\* names sort in their order.
THEOREM ContractKept ==
  ASSUME NamesInOrder
  PROVE  LoaderSpec => KeepsCallContract
<1>1. ContractInv /\ [LoaderNext]_loaderVars
         => /\ ContractInv'
            /\ [Promise!Next \/ shared']_<<[c \in Calls |-> Answer(script[c])], got, status>>
  <2> SUFFICES ASSUME ContractInv, [LoaderNext]_loaderVars, ~shared'
               PROVE  /\ ContractInv'
                      /\ [Promise!Next]_<<[c \in Calls |-> Answer(script[c])], got, status>>
    BY DEF ContractInv
  <2>1. Unshared /\ LInv /\ Unshared'
    BY SharedStays DEF ContractInv
  <2>2. QED
    BY <2>1, StepKeepsPromise DEF ContractInv
<1>2. QED
  BY <1>1, ContractInvInit, PTL DEF LoaderSpec, KeepsCallContract

-----------------------------------------------------------------------------
(* A program on a pseudo-terminal.                                        *)

\* The slave is open in Start only, between its opening and the fork; the master from
\* Open on, and a Start that has failed has closed it; the copy to stdout exists from
\* the nudge on, and Proxy waits for its end.
Stages ==
    /\ slave <=> proxy = "fork"
    /\ proxy = "open" => master = "none"
    /\ proxy \in {"slave", "fork"} => master = "open"
    /\ proxy = "failed" => master # "open"
    /\ proxy \in {"idle", "open", "slave", "fork", "failed"} => child = "none" /\ ~heir
    /\ outCopy # "none" => proxy \in {"show", "await", "returned"}
    /\ proxy \in {"await", "returned"} => outCopy = "ended"

\* A copy that has ended on an open master, and not by a failed write, has met the end of
\* the file.
EndOfFile == outCopy = "ended" /\ master = "open" /\ ~outBroken => shown = written /\ ~OnTerminal

TerminalInv == Stages /\ EndOfFile

LEMMA TerminalInvInit == TerminalInit => TerminalInv
  BY DEF TerminalInit, TerminalBegins, TerminalInv, Stages, EndOfFile

LEMMA StartPreservesInv ==
  ASSUME TerminalInv, Open \/ OpenSlave \/ ForkExec
  PROVE  TerminalInv'
<1>1. CASE Open
  BY <1>1 DEF TerminalInv, Stages, EndOfFile, Open, OnTerminal, childVars, copyVars
<1>2. CASE OpenSlave
  BY <1>2 DEF TerminalInv, Stages, EndOfFile, OpenSlave, OnTerminal, childVars, copyVars
<1>3. CASE ForkExec
  BY <1>3 DEF TerminalInv, Stages, EndOfFile, ForkExec, OnTerminal, copyVars
<1>4. QED
  BY <1>1, <1>2, <1>3

\* The child and its heirs write only while they are on the terminal, and nobody comes
\* back to it.
LEMMA ChildPreservesInv ==
  ASSUME TerminalInv, ChildWrites \/ ChildEnds \/ HeirEnds \/ HungUp \/ Wait
  PROVE  TerminalInv'
<1>1. CASE ChildWrites
  BY <1>1 DEF TerminalInv, Stages, EndOfFile, ChildWrites, OnTerminal, startVars, childVars
<1>2. CASE ChildEnds
  BY <1>2 DEF TerminalInv, Stages, EndOfFile, ChildEnds, OnTerminal, startVars, copyVars
<1>3. CASE HeirEnds
  BY <1>3 DEF TerminalInv, Stages, EndOfFile, HeirEnds, OnTerminal, startVars, copyVars
<1>4. CASE Wait
  BY <1>4 DEF TerminalInv, Stages, EndOfFile, Wait, OnTerminal, startVars, copyVars
<1>5. QED
  BY <1>1, <1>2, <1>3, <1>4 DEF HungUp

LEMMA CallersPreserveInv ==
  ASSUME TerminalInv, ProxyBegins \/ Close \/ Resize \/ Press \/ OuterResized
  PROVE  TerminalInv'
<1>1. CASE ProxyBegins
  BY <1>1 DEF TerminalInv, Stages, EndOfFile, ProxyBegins, OnTerminal, childVars, copyVars
<1>2. CASE Close
  BY <1>2 DEF TerminalInv, Stages, EndOfFile, Close, Started, OnTerminal, copyVars
<1>3. CASE Resize
  BY <1>3 DEF TerminalInv, Stages, EndOfFile, Resize, OnTerminal, startVars, childVars, copyVars
<1>4. CASE Press
  BY <1>4 DEF TerminalInv, Stages, EndOfFile, Press, OnTerminal, startVars, childVars
<1>5. CASE OuterResized
  BY <1>5 DEF TerminalInv, Stages, EndOfFile, OuterResized, OnTerminal,
              startVars, childVars, copyVars
<1>6. QED
  BY <1>1, <1>2, <1>3, <1>4, <1>5

\* Proxy's goroutines: only the copy to stdout can end, and Proxy only waits for it.
LEMMA ProxyPreservesInv ==
  ASSUME TerminalInv,
         \/ Nudge \/ EnterRead \/ Show \/ ShowEnds \/ ShowFails \/ ProxyAwaits \/ ProxyReturn
         \/ Winch \/ CopyKeys
  PROVE  TerminalInv'
<1>1. CASE Nudge
  BY <1>1 DEF TerminalInv, Stages, EndOfFile, Nudge, OnTerminal, childVars
<1>2. CASE EnterRead
  BY <1>2 DEF TerminalInv, Stages, EndOfFile, EnterRead, OnTerminal, startVars, childVars
<1>3. CASE Show
  BY <1>3 DEF TerminalInv, Stages, EndOfFile, Show, LeavesMaster, OnTerminal, childVars
<1>4. CASE ShowEnds
  BY <1>4 DEF TerminalInv, Stages, EndOfFile, ShowEnds, LeavesMaster, OnTerminal, childVars
<1>9. CASE ShowFails
  BY <1>9 DEF TerminalInv, Stages, EndOfFile, ShowFails, LeavesMaster, OnTerminal, childVars
<1>5. CASE ProxyAwaits
  BY <1>5 DEF TerminalInv, Stages, EndOfFile, ProxyAwaits, OnTerminal, childVars, copyVars
<1>6. CASE ProxyReturn
  BY <1>6 DEF TerminalInv, Stages, EndOfFile, ProxyReturn, OnTerminal, childVars, copyVars
<1>7. CASE Winch
  BY <1>7 DEF TerminalInv, Stages, EndOfFile, Winch, OnTerminal, startVars, childVars, copyVars
<1>8. CASE CopyKeys
  BY <1>8 DEF TerminalInv, Stages, EndOfFile, CopyKeys, OnTerminal, startVars, childVars
<1>10. QED
  BY <1>1, <1>2, <1>3, <1>4, <1>5, <1>6, <1>7, <1>8, <1>9

LEMMA TerminalStepPreservesInv == TerminalInv /\ [TerminalNext]_terminalVars => TerminalInv'
<1> SUFFICES ASSUME TerminalInv, [TerminalNext]_terminalVars PROVE TerminalInv'
  OBVIOUS
<1>1. CASE UNCHANGED terminalVars
  BY <1>1 DEF TerminalInv, Stages, EndOfFile, OnTerminal, terminalVars
<1>2. CASE TerminalNext
  BY <1>2, StartPreservesInv, ChildPreservesInv, CallersPreserveInv, ProxyPreservesInv
     DEF TerminalNext, ProxyRuns, Callers, Others
<1>3. QED
  BY <1>1, <1>2

\* What Proxy has shown when it stops is all there will be, unless Close was called or
\* stdout has refused a write, and a failed Start leaves no descriptor open
\* (pty/pty.go:50-82, 226-229).
THEOREM OutputKept == TerminalSpec => []NothingLost
<1>1. TerminalInv => NothingLost
  BY DEF TerminalInv, Stages, EndOfFile, NothingLost
<1>2. QED
  BY <1>1, TerminalInvInit, TerminalStepPreservesInv, PTL DEF TerminalSpec

-----------------------------------------------------------------------------
(* The boot of an identifier, for any names of providers and any number    *)
(* of them.                                                                *)

BootTypes ==
    /\ loginProviders \in Seq(ProviderNames) /\ providers \in Seq(ProviderNames)
    /\ logins \in Seq(Outcomes) /\ Len(logins) <= Len(providers)
    /\ tokens \in [ProviderNames -> Nat]
    /\ listed \in Lists /\ outcomes \in Seq(Outcomes) /\ Len(outcomes) <= Len(listed)

\* Nobody has logged in before the providers are copied, and all have when Init is done;
\* both names are set before the checks.
InitOrder ==
    /\ init \notin {"login", "done"} => logins = <<>>
    /\ init = "done" => Len(logins) = Len(providers)
    /\ init \notin {"idle", "flags", "run"} => rootAuthority = "set" /\ rootIdentity = "set"

\* The token of a name is that of its last success so far.
LastWins == \A n \in ProviderNames :
                \/ tokens[n] = 0 /\ Wins(n) = {}
                \/ tokens[n] \in Wins(n) /\ \A i \in Wins(n) : i <= tokens[n]

Successes == {i \in DOMAIN outcomes : outcomes[i] = "resource"}

\* login.Run goes on for as long as it has found nothing.
FirstWins == IF found = Running THEN Successes = {} ELSE found = FirstOr0(Successes)

\* The server's second name is read after the first.
Named == /\ authorityName = "none" => ownerName = "none"
         /\ configured => /\ init = "done"
                          /\ authorityName = "set" /\ ownerName \in {"none", "set"}

BootInv == BootTypes /\ InitOrder /\ LastWins /\ FirstWins /\ Named

LEMMA BootInvInit == BootInit => BootInv
<1> SUFFICES ASSUME BootInit PROVE BootInv
  OBVIOUS
<1>1. init \in {"flags", "run"} /\ logins = <<>> /\ providers = <<>> /\ loginProviders = <<>>
      /\ tokens = [n \in ProviderNames |-> 0] /\ outcomes = <<>> /\ found = Running
      /\ configured = FALSE
  BY DEF BootInit, BootBegins
<1>2. <<>> \in Lists
  BY BootAssumption DEF Lists, SeqOf
<1>3. listed \in Lists
  BY <1>2 DEF BootInit, BootBegins
<1>4. \A l \in Lists : Len(l) \in Nat
  BY BootAssumption DEF Lists, SeqOf
<1>5. BootTypes
  BY <1>1, <1>3, <1>4 DEF BootTypes
<1>6. LastWins /\ FirstWins
  BY <1>1 DEF LastWins, Wins, FirstWins, Successes
<1>7. QED
  BY <1>1, <1>5, <1>6 DEF BootInv, InitOrder, Named, BootInit, BootBegins

LEMMA InitStepPreservesInv ==
  ASSUME BootInv, SetFlags \/ RunEnvironmentChecks
  PROVE  BootInv'
<1>1. UNCHANGED <<loginProviders, loginVars, runVars, namesVars>>
  BY DEF SetFlags, RunEnvironmentChecks, DetectContainer, VerifyDomain
<1>2. init \notin {"idle", "run", "login", "done"} /\ init' \notin {"login", "done"}
      /\ (init' = "flags" \/ (rootAuthority' = "set" /\ rootIdentity' = "set"))
  BY DEF BootInv, InitOrder, SetFlags, RunEnvironmentChecks, DetectContainer, VerifyDomain
<1>3. BootTypes' /\ LastWins' /\ FirstWins'
  BY <1>1 DEF BootInv, BootTypes, LastWins, FirstWins, Wins, Successes, loginVars, runVars
<1>4. InitOrder' /\ Named'
  BY <1>1, <1>2 DEF BootInv, InitOrder, Named, loginVars, namesVars
<1>5. QED
  BY <1>3, <1>4 DEF BootInv

LEMMA CopyPreservesInv ==
  ASSUME BootInv, CopyProviders
  PROVE  BootInv'
<1>1. logins = <<>> /\ logins' = <<>> /\ tokens' = tokens /\ init' = "login"
      /\ providers' = loginProviders
      /\ UNCHANGED <<initVars, loginProviders, runVars, namesVars>>
  BY DEF CopyProviders, BootInv, InitOrder
<1>2. BootTypes'
  BY <1>1 DEF BootInv, BootTypes, runVars
<1>3. LastWins'
  BY <1>1 DEF BootInv, LastWins, Wins
<1>4. FirstWins' /\ InitOrder' /\ Named'
  BY <1>1 DEF BootInv, CopyProviders, FirstWins, Successes, InitOrder, Named,
              runVars, namesVars, initVars
<1>5. QED
  BY <1>2, <1>3, <1>4 DEF BootInv

LEMMA LoginPreservesInv ==
  ASSUME BootInv, Login
  PROVE  BootInv'
<1>1. init = "login" /\ UNCHANGED <<initVars, loginProviders, providers, runVars, namesVars>>
  BY DEF Login
<1>2. FirstWins' /\ Named'
  BY <1>1 DEF BootInv, FirstWins, Successes, Named, runVars, namesVars
<1>3. CASE Len(logins) = Len(providers)
  <2>1. init' = "done" /\ UNCHANGED <<logins, tokens>>
    BY <1>3 DEF Login
  <2>2. BootTypes' /\ LastWins' /\ InitOrder'
    BY <1>1, <1>3, <2>1 DEF BootInv, BootTypes, LastWins, Wins, InitOrder, initVars, runVars
  <2>3. QED
    BY <1>2, <2>2 DEF BootInv
<1>4. CASE Len(logins) # Len(providers)
  <2>1. PICK o \in Outcomes :
           /\ logins' = Append(logins, o)
           /\ IF o = "resource" THEN StoreToken(providers[Len(logins')], Len(logins'))
              ELSE UNCHANGED tokens
           /\ UNCHANGED init
    BY <1>4 DEF Login
  <2> DEFINE k == Len(logins) + 1  n0 == providers[k]
  <2>2. k \in 1..Len(providers) /\ Len(logins') = k /\ logins' \in Seq(Outcomes)
        /\ logins'[k] = o /\ \A i \in 1..Len(logins) : logins'[i] = logins[i]
    BY <1>4, <2>1 DEF BootInv, BootTypes
  <2>3. n0 \in ProviderNames
    BY <2>2 DEF BootInv, BootTypes
  <2>4. tokens' = IF o = "resource" THEN [tokens EXCEPT ![n0] = k] ELSE tokens
    BY <2>1, <2>2 DEF StoreToken
  <2>5. BootTypes'
    BY <1>1, <2>2, <2>3, <2>4 DEF BootInv, BootTypes, runVars
  <2>6. \A n \in ProviderNames :
           Wins(n)' = IF n = n0 /\ o = "resource" THEN Wins(n) \cup {k} ELSE Wins(n)
    <3>1. DOMAIN logins' = (DOMAIN logins) \cup {k} /\ DOMAIN logins = 1..Len(logins)
      BY <2>2 DEF BootInv, BootTypes
    <3>2. k \notin DOMAIN logins /\ logins'[k] = o /\ providers' = providers
          /\ \A i \in DOMAIN logins : logins'[i] = logins[i]
      BY <1>1, <2>2, <3>1 DEF BootInv, BootTypes
    <3>3. QED
      BY <3>1, <3>2 DEF Wins
  <2>7. \A n \in ProviderNames : \A i \in Wins(n) : i <= k
    BY <2>2 DEF BootInv, BootTypes, Wins
  <2>8. LastWins'
    <3> SUFFICES ASSUME NEW n \in ProviderNames
                 PROVE  \/ tokens'[n] = 0 /\ Wins(n)' = {}
                        \/ tokens'[n] \in Wins(n)' /\ \A i \in Wins(n)' : i <= tokens'[n]
      BY DEF LastWins
    <3>1. CASE n = n0 /\ o = "resource"
      BY <3>1, <2>2, <2>4, <2>6, <2>7 DEF BootInv, BootTypes
    <3>2. CASE ~(n = n0 /\ o = "resource")
      BY <3>2, <2>4, <2>6 DEF BootInv, BootTypes, LastWins
    <3>3. QED
      BY <3>1, <3>2
  <2>9. InitOrder'
    BY <1>1, <2>1 DEF BootInv, InitOrder, initVars
  <2>10. QED
    BY <1>2, <2>5, <2>8, <2>9 DEF BootInv
<1>5. QED
  BY <1>3, <1>4

LEMMA OthersPreserveInv ==
  ASSUME BootInv, RegisterLoginProvider \/ NewIdentifierServer \/ WithAuthority
  PROVE  BootInv'
<1>1. UNCHANGED <<init, initVars, loginVars, runVars>>
  BY DEF RegisterLoginProvider, NewIdentifierServer, WithAuthority
<1>2. LastWins' /\ FirstWins' /\ InitOrder'
  BY <1>1 DEF BootInv, LastWins, Wins, FirstWins, Successes, InitOrder, loginVars, runVars, initVars
<1>3. loginProviders' \in Seq(ProviderNames)
  <2>1. CASE RegisterLoginProvider
    <3>1. PICK n \in ProviderNames : loginProviders' = Append(loginProviders, n)
      BY <2>1 DEF RegisterLoginProvider
    <3>2. QED
      BY <3>1 DEF BootInv, BootTypes
  <2>2. CASE NewIdentifierServer \/ WithAuthority
    BY <2>2 DEF BootInv, BootTypes, NewIdentifierServer, WithAuthority
  <2>3. QED
    BY <2>1, <2>2
<1>4. BootTypes'
  BY <1>1, <1>3 DEF BootInv, BootTypes, loginVars, runVars
<1>5. Named'
  <2>1. CASE RegisterLoginProvider
    BY <1>1, <2>1 DEF BootInv, Named, RegisterLoginProvider, namesVars
  <2>2. CASE NewIdentifierServer
    <3>1. CASE authorityName = "none"
      <4>1. configured' <=> init = "done"
        BY <2>2, <3>1 DEF NewIdentifierServer
      <4>2. authorityName' = rootAuthority /\ ownerName' = ownerName /\ ownerName = "none"
        BY <2>2, <3>1 DEF NewIdentifierServer, BootInv, Named
      <4>3. QED
        BY <1>1, <4>1, <4>2 DEF BootInv, InitOrder, Named
    <3>2. CASE authorityName # "none"
      <4>1. ownerName' = rootIdentity /\ UNCHANGED <<authorityName, configured>>
        BY <2>2, <3>2 DEF NewIdentifierServer
      <4>2. QED
        BY <1>1, <3>2, <4>1 DEF BootInv, InitOrder, Named
    <3>3. QED
      BY <3>1, <3>2
  <2>3. CASE WithAuthority
    BY <1>1, <2>3 DEF BootInv, Named, WithAuthority
  <2>4. QED
    BY <2>1, <2>2, <2>3
<1>6. QED
  BY <1>2, <1>4, <1>5 DEF BootInv

LEMMA RunPreservesInv ==
  ASSUME BootInv, Run
  PROVE  BootInv'
<1>1. UNCHANGED <<init, initVars, loginProviders, loginVars, listed, namesVars>>
      /\ found = Running /\ Successes = {}
  BY DEF Run, BootInv, FirstWins
<1>2. InitOrder' /\ LastWins' /\ Named'
  BY <1>1 DEF BootInv, InitOrder, LastWins, Wins, Named, initVars, loginVars, namesVars
<1>3. Len(listed) \in Nat /\ Len(listed) <= MaxProviders
  BY BootAssumption DEF BootInv, BootTypes, Lists, SeqOf
<1>4. CASE Len(outcomes) = Len(listed)
  <2>1. found' = 0 /\ outcomes' = outcomes
    BY <1>4 DEF Run
  <2>2. FirstWins'
    BY <1>1, <2>1, BootAssumption DEF FirstWins, FirstOr0, Successes, Running
  <2>3. QED
    BY <1>1, <1>2, <2>1, <2>2 DEF BootInv, BootTypes, loginVars
<1>5. CASE Len(outcomes) # Len(listed)
  <2>1. PICK o \in Outcomes : /\ outcomes' = Append(outcomes, o)
                              /\ found' = IF o = "resource" THEN Len(outcomes') ELSE Running
    BY <1>5 DEF Run
  <2> DEFINE k == Len(outcomes) + 1
  <2>2. k \in 1..Len(listed) /\ Len(outcomes') = k /\ outcomes' \in Seq(Outcomes)
        /\ outcomes'[k] = o /\ \A i \in 1..Len(outcomes) : outcomes'[i] = outcomes[i]
    BY <1>3, <1>5, <2>1 DEF BootInv, BootTypes
  <2>3. BootTypes'
    BY <1>1, <2>2 DEF BootInv, BootTypes, loginVars
  <2>4. Successes' = IF o = "resource" THEN {k} ELSE {}
    <3>1. DOMAIN outcomes' = (DOMAIN outcomes) \cup {k} /\ DOMAIN outcomes = 1..Len(outcomes)
      BY <2>2 DEF BootInv, BootTypes
    <3>2. outcomes'[k] = o /\ \A i \in DOMAIN outcomes : outcomes'[i] = outcomes[i]
      BY <2>2, <3>1
    <3>3. QED
      BY <1>1, <3>1, <3>2 DEF Successes
  <2>5. k # Running /\ k \in Nat
    BY <1>3, <2>2, BootAssumption DEF Running
  <2>6. FirstOr0({k}) = k
    BY <2>5 DEF FirstOr0
  <2>7. FirstWins'
    BY <2>1, <2>2, <2>4, <2>5, <2>6 DEF FirstWins
  <2>8. QED
    BY <1>2, <2>3, <2>7 DEF BootInv
<1>6. QED
  BY <1>4, <1>5

LEMMA BootStepPreservesInv == BootInv /\ [BootNext]_bootVars => BootInv'
<1> SUFFICES ASSUME BootInv, [BootNext]_bootVars PROVE BootInv'
  OBVIOUS
<1>1. CASE UNCHANGED bootVars
  BY <1>1 DEF bootVars, BootInv, BootTypes, InitOrder, LastWins, Wins, FirstWins, Successes, Named
<1>2. CASE BootNext
  BY <1>2, InitStepPreservesInv, CopyPreservesInv, LoginPreservesInv, OthersPreserveInv,
     RunPreservesInv DEF BootNext
<1>3. QED
  BY <1>1, <1>2

\* Init lets every copied provider log in once and keeps the last token of each name,
\* login.Run returns the first resource, and a server built after Init knows both names.
THEOREM Settled == BootSpec => []BootSettles
<1>1. BootInv => BootSettles
  BY DEF BootInv, InitOrder, LastWins, FirstWins, Successes, Named, BootSettles
<1>2. QED
  BY <1>1, BootInvInit, BootStepPreservesInv, PTL DEF BootSpec

-----------------------------------------------------------------------------
(* The types of the three programs: the loader's.                          *)

\* What a message may contain: a number sequence, or a frame, whatever file it was made of.
Contents  == Seq(Nat) \cup {<<SortedFrames(n)[i], i - 1, n>> : n \in Nat, i \in Nat}
Kinds     == {"msg", "ok", "error"}
Sendings  == [call : Calls, kind : Kinds, body : Contents]
TempKinds == {"fifo", "download", "bytes", "frames"}

\* A handler's variables, as they are or as a step leaves them.
Served(h, t, d) == h \in [Calls -> Places] /\ t \subseteq Calls \X TempKinds /\ d \in Seq(Sendings)

\* A part of a request on its way is one the client has written.
Passing(q) == /\ q \in Seq(Calls \X Nat) /\ Len(q) <= PipeRoom
              /\ \A i \in DOMAIN q : q[i][2] <= sent[q[i][1]]

\* The variables that are places or switches.
Plain ==
    /\ process \in {"none", "running", "exited", "dead", "replaced"}
    /\ server \in {"waiting", "serving", "gone"}
    /\ user \in {"pipe", "play", "spawn", "prompt", "recv", "quit", "signal", "wait", "done",
                 "fatal"}
    /\ stdinOpen \in BOOLEAN /\ stdoutOpen \in BOOLEAN /\ pid1 \in BOOLEAN /\ bridge \in BOOLEAN
    /\ launch \in {"args", "listen", "terminal", "stdio"}
    /\ main \in {"boot", "first", "serve", "stdin", "stop", "listen"}
    /\ copyIn \in {"first", "copy", "ended"} /\ copyOut \in {"copy", "ended"}
    /\ firstRead \in {"none", "data", "nothing"}

\* Those that hold requests and answers.
Requests ==
    /\ \A c \in Calls : script[c].method \in Methods /\ script[c].n \in Nat
    /\ sent \in [Calls -> Nat] /\ arrived \in [Calls -> Nat]
    /\ \A c \in Calls : sent[c] <= Parts(script[c]) /\ arrived[c] <= sent[c]
    /\ Passing(stdin) /\ Passing(up)

Answered ==
    /\ Served(handler, temps, down)
    /\ stdout \in Seq(Sendings) /\ Len(stdout) <= PipeRoom
    /\ status \in [Calls -> {"open", "ok", "failed"}]

LoaderTInv == Plain /\ Requests /\ Answered

\* What is known of the processes the runner has started.
Relatives == /\ kin \subseteq Calls /\ procs \subseteq Calls /\ stolen \subseteq Calls \X Nat
             /\ shared \in BOOLEAN

LEMMA Sending ==
  ASSUME NEW c \in Calls
  PROVE  /\ \A body \in Contents : Message(c, body) \in Sendings
         /\ \A kind \in {"ok", "error"} : Trailer(c, kind) \in Sendings
<1>1. <<>> \in Contents
  BY DEF Contents
<1>2. QED
  BY <1>1 DEF Message, Trailer, Sendings, Kinds

LEMMA PlaceTypes ==
  ASSUME handler \in [Calls -> Places], NEW c \in Calls
  PROVE  /\ \A at \in PlaceNames : [handler EXCEPT ![c].at = at] \in [Calls -> Places]
         /\ [handler EXCEPT ![c].n = @ + 1] \in [Calls -> Places]
<1>1. handler[c] \in Places
  OBVIOUS
<1>2. \A at \in PlaceNames : [handler[c] EXCEPT !.at = at] \in Places
  BY <1>1 DEF Places
<1>3. [handler[c] EXCEPT !.n = @ + 1] \in Places
  BY <1>1 DEF Places
<1>4. QED
  BY <1>2, <1>3

\* A handler that returns, and one that replies.
LEMMA ReturnTypes ==
  ASSUME Served(handler, temps, down), NEW c \in Calls, NEW kind \in {"ok", "error"},
         Return(c, kind)
  PROVE  Served(handler', temps', down')
<1>1. handler' \in [Calls -> Places]
  BY PlaceTypes DEF Served, Return, At, PlaceNames
<1>2. temps' \subseteq Calls \X TempKinds
  BY DEF Served, Return
<1>3. down' \in Seq(Sendings)
  <2>1. PICK m \in Sendings : m = Trailer(c, kind)
    BY Sending
  <2>2. down' = down \/ down' = Append(down, m)
    BY <2>1 DEF Return
  <2>3. QED
    BY <2>2 DEF Served
<1>4. QED
  BY <1>1, <1>2, <1>3 DEF Served

LEMMA ReplyTypes ==
  ASSUME Served(handler, temps, down), NEW c \in Calls, NEW at, NEW body \in Contents,
         ReplyFrom(c, at, body)
  PROVE  Served(handler', temps', down') /\ Alone
<1>1. handler' \in [Calls -> Places]
  BY PlaceTypes DEF Served, ReplyFrom, At, PlaceNames
<1>2. temps' \subseteq Calls \X TempKinds
  BY DEF Served, ReplyFrom
<1>3. down' \in Seq(Sendings)
  <2>1. PICK m, e \in Sendings : m = Message(c, body) /\ e = Trailer(c, "ok")
    BY Sending
  <2>2. down' = down \o <<m, e>>
    BY <2>1 DEF ReplyFrom
  <2>3. QED
    BY <2>2 DEF Served
<1>4. QED
  BY <1>1, <1>2, <1>3 DEF Served, ReplyFrom, Stay

LEMMA SendTypes ==
  ASSUME Served(handler, temps, down), NEW c \in Calls, NEW body \in Contents,
         Count(c), Send(c, body), UNCHANGED temps
  PROVE  Served(handler', temps', down')
<1>1. PICK m \in Sendings : m = Message(c, body)
  BY Sending
<1>2. down' = Append(down, m)
  BY <1>1 DEF Send
<1>3. handler' \in [Calls -> Places]
  BY PlaceTypes DEF Served, Count
<1>4. down' \in Seq(Sendings)
  BY <1>2 DEF Served
<1>5. QED
  BY <1>3, <1>4 DEF Served

LEMMA GoTypes ==
  ASSUME Served(handler, temps, down), NEW c \in Calls, UNCHANGED down,
         UNCHANGED temps \/ \E kind \in TempKinds : Keep(c, kind),
         Count(c) \/ \E at \in PlaceNames : At(c, at)
  PROVE  Served(handler', temps', down')
<1>1. handler' \in [Calls -> Places]
  <2>1. handler \in [Calls -> Places]
    BY DEF Served
  <2>2. CASE Count(c)
    BY <2>1, <2>2, PlaceTypes DEF Count
  <2>3. CASE \E at \in PlaceNames : At(c, at)
    <3>1. PICK at \in PlaceNames : handler' = [handler EXCEPT ![c].at = at]
      BY <2>3 DEF At
    <3>2. QED
      BY <2>1, <3>1, PlaceTypes
  <2>4. QED
    BY <2>2, <2>3
<1>2. temps' \subseteq Calls \X TempKinds
  BY DEF Served, Keep
<1>3. QED
  BY <1>1, <1>2 DEF Served

\* Every handler keeps its types; only Exec touches more than them.
LEMMA HandlerTypes ==
  ASSUME LoaderTInv, NEW c \in Calls, HandlerStep(c)
  PROVE  /\ Served(handler', temps', down')
         /\ UNCHANGED <<script, arrived, stolen>>
         /\ \/ UNCHANGED <<process, server>>
            \/ process' = "replaced" /\ server' = "gone"
<1>1. Served(handler, temps, down) /\ script[c].n \in Nat /\ handler[c].n \in Nat
  BY DEF LoaderTInv, Requests, Answered, Served, Places
<1>2. /\ <<1>> \in Contents /\ <<1, 0, 1>> \in Contents
      /\ \A n \in Nat : /\ <<n>> \in Contents
                        /\ [i \in 1..n |-> IF Lost(c, i) THEN 0 ELSE i] \in Contents
      /\ \A n, i \in Nat : <<SortedFrames(n)[i], i - 1, n>> \in Contents
  <2>1. /\ <<1>> \in Seq(Nat) /\ <<1, 0, 1>> \in Seq(Nat)
        /\ \A n \in Nat : <<n>> \in Seq(Nat)
    OBVIOUS
  <2>2. \A n \in Nat : [i \in 1..n |-> IF Lost(c, i) THEN 0 ELSE i] \in Seq(Nat)
    OBVIOUS
  <2>3. QED
    BY <2>1, <2>2 DEF Contents
<1>3. CASE Exec(c)
  <2>1. <<>> \in Seq(Sendings)
    OBVIOUS
  <2>2. QED
    BY <1>1, <1>3, <2>1 DEF Exec, Served, kinVars
<1>4. SUFFICES ASSUME ~Exec(c)
               PROVE  Served(handler', temps', down') /\ Alone
  BY <1>3 DEF Alone
<1>5. CASE Unimplemented(c) \/ ExecFails(c) \/ FramesSent(c) \/ ConvertFails(c) \/ Abandon(c)
  <2>1. Alone /\ \E kind \in {"ok", "error"} : Return(c, kind)
    BY <1>5 DEF Unimplemented, ExecFails, Refuse, FramesSent, ConvertFails, Abandon, Stay
  <2>2. QED
    BY <1>1, <2>1, ReturnTypes
<1>6. CASE Authority(c)
  BY <1>1, <1>2, <1>6, ReplyTypes DEF Authority, Reply
<1>7. CASE AppendAndPrint(c)
  <2>0. Alone
    BY <1>7 DEF AppendAndPrint, Stay
  <2>1. CASE Count(c) /\ Send(c, <<handler[c].n + 1>>) /\ UNCHANGED temps
    <3>1. PICK body \in Contents : body = <<handler[c].n + 1>>
      <4>1. handler[c].n + 1 \in Nat
        BY <1>1
      <4>2. QED
        BY <4>1, <1>2
    <3>2. Send(c, body)
      BY <2>1, <3>1
    <3>3. QED
      BY <1>1, <2>0, <2>1, <3>2, SendTypes
  <2>2. CASE Count(c) /\ UNCHANGED <<down, temps>>
    BY <1>1, <2>0, <2>2, GoTypes
  <2>3. CASE Return(c, "ok")
    BY <1>1, <2>0, <2>3, ReturnTypes
  <2>4. QED
    BY <1>7, <2>1, <2>2, <2>3 DEF AppendAndPrint
<1>8. CASE AddNewLine(c)
  <2>1. CASE Count(c) /\ Stay /\ Pause
    BY <1>1, <2>1, GoTypes DEF Stay, Pause
  <2>2. CASE Reply(c, [i \in 1..script[c].n |-> IF Lost(c, i) THEN 0 ELSE i])
    <3>1. PICK body \in Contents :
               body = [i \in 1..script[c].n |-> IF Lost(c, i) THEN 0 ELSE i]
      BY <1>1, <1>2
    <3>2. ReplyFrom(c, "serve", body)
      BY <2>2, <3>1 DEF Reply
    <3>3. QED
      BY <1>1, <3>2, ReplyTypes
  <2>3. QED
    BY <1>8, <2>1, <2>2 DEF AddNewLine
<1>9. CASE Babble(c)
  <2>1. CASE Count(c) /\ Send(c, <<1>>) /\ UNCHANGED temps
    BY <1>1, <1>2, <1>9, <2>1, SendTypes DEF Babble, Stay
  <2>2. CASE Return(c, "ok")
    BY <1>1, <1>9, <2>2, ReturnTypes DEF Babble, Stay
  <2>3. QED
    BY <1>9, <2>1, <2>2 DEF Babble
<1>10. CASE Render(c) \/ Fetch(c) \/ Save(c) \/ RenderBytes(c) \/ Extract(c) \/ Hang(c)
  <2>1. /\ Alone
        /\ \/ Return(c, "error")
           \/ /\ UNCHANGED down
              /\ UNCHANGED temps \/ \E kind \in TempKinds : Keep(c, kind)
              /\ \E at \in PlaceNames : At(c, at)
    BY <1>10 DEF Render, Fetch, Save, RenderBytes, Extract, Hang, TempKinds, PlaceNames, Stay,
       Pause
  <2>2. QED
    BY <1>1, <2>1, ReturnTypes, GoTypes
<1>11. CASE RenderFile(c)
  <2>1. CASE ReplyFrom(c, "render", <<1, 0, 1>>)
    BY <1>1, <1>2, <2>1, ReplyTypes
  <2>2. CASE At(c, "extract") /\ Keep(c, "frames") /\ UNCHANGED down /\ Stay
    BY <1>1, <2>2, GoTypes DEF TempKinds, PlaceNames, Stay
  <2>3. CASE Return(c, "error") /\ Stay
    BY <1>1, <2>3, ReturnTypes DEF Stay
  <2>4. QED
    BY <1>11, <2>1, <2>2, <2>3 DEF RenderFile
<1>12. CASE SendFrame(c)
  <2> DEFINE i == handler[c].n + 1
             n == script[c].n
  <2>1. PICK body \in Contents : body = <<SortedFrames(n)[i], i - 1, n>>
    <3>1. i \in Nat /\ n \in Nat
      BY <1>1
    <3> HIDE DEF i, n
    <3>2. <<SortedFrames(n)[i], i - 1, n>> \in Contents
      BY <3>1 DEF Contents
    <3>3. QED
      BY <3>2
  <2>2. Send(c, body) /\ Count(c) /\ Stay /\ UNCHANGED temps
    BY <1>12, <2>1 DEF SendFrame
  <2>3. QED
    BY <1>1, <2>2, SendTypes DEF Stay
<1>13. CASE Processes(c)
  <2>1. Alone
    BY <1>13 DEF Processes, Shell, ShellEnds, Refused, Refuse, ForkLoader, WrapSocket,
       SpawnProgram, StopProcess, ProcessReply, BatchAlone, BatchApplies, BatchWaits,
       BatchFails, ReplyFrom, Stay
  <2>2. CASE Shell(c) \/ SpawnProgram(c) \/ StopProcess(c) \/ BatchAlone(c) \/ BatchWaits(c)
    <3>1. UNCHANGED <<down, temps>> /\ \E at \in PlaceNames : At(c, at)
      BY <2>2 DEF Shell, SpawnProgram, StopProcess, BatchAlone, BatchWaits, Pause, PlaceNames
    <3>2. QED
      BY <1>1, <2>1, <3>1, GoTypes
  <2>3. CASE ForkLoader(c)
    <3>1. /\ UNCHANGED down /\ \E at \in PlaceNames : At(c, at)
          /\ UNCHANGED temps \/ \E kind \in TempKinds : Keep(c, kind)
      BY <2>3 DEF ForkLoader, PlaceNames, TempKinds, Keep
    <3>2. QED
      BY <1>1, <2>1, <3>1, GoTypes
  <2>4. CASE WrapSocket(c)
    <3>1. \/ Return(c, "error")
          \/ UNCHANGED <<down, temps>> /\ (\E at \in PlaceNames : At(c, at))
      BY <2>4 DEF WrapSocket, Pause, PlaceNames
    <3>2. QED
      BY <1>1, <2>1, <3>1, GoTypes, ReturnTypes
  <2>5. CASE ShellEnds(c) \/ Refused(c) \/ ProcessReply(c) \/ BatchApplies(c) \/ BatchFails(c)
    <3>1. \/ Return(c, "error")
          \/ \E at \in PlaceNames : ReplyFrom(c, at, <<1>>)
      BY <2>5 DEF ShellEnds, Refused, Refuse, ProcessReply, BatchApplies, BatchFails, PlaceNames
    <3>2. QED
      BY <1>1, <1>2, <2>1, <3>1, ReturnTypes, ReplyTypes
  <2>6. QED
    BY <1>13, <2>2, <2>3, <2>4, <2>5 DEF Processes
<1>14. QED
  BY <1>4, <1>5, <1>6, <1>7, <1>8, <1>9, <1>10, <1>11, <1>12, <1>13
     DEF HandlerStep, StringMethods, Imager

LEMMA LoaderTypes == LoaderTInv /\ Relatives => LoaderTypeOK
<1> SUFFICES ASSUME LoaderTInv, Relatives PROVE LoaderTypeOK
  OBVIOUS
<1>1. \A c \in Calls : Parts(script[c]) \in Nat
  BY DEF LoaderTInv, Requests, Parts
<1>2. ServicesTypeOK
  <2>1. \A c \in Calls : arrived[c] <= Parts(script[c])
    <3>1. TAKE c \in Calls
    <3>2. /\ arrived[c] \in Nat /\ sent[c] \in Nat
          /\ sent[c] <= Parts(script[c]) /\ arrived[c] <= sent[c]
      BY DEF LoaderTInv, Requests
    <3>3. QED
      BY <1>1, <3>2
  <2>2. \A i \in DOMAIN down : down[i].call \in Calls /\ down[i].kind \in Kinds
    <3>1. down \in Seq(Sendings)
      BY DEF LoaderTInv, Answered, Served
    <3>2. \A m \in Sendings : m.call \in Calls /\ m.kind \in Kinds
      BY DEF Sendings
    <3>3. \A i \in DOMAIN down : down[i] \in Sendings
      BY <3>1
    <3>4. QED
      BY <3>2, <3>3
  <2>3. \A c \in Calls : handler[c] \in Places
    BY DEF LoaderTInv, Answered, Served
  <2>4. QED
    BY <2>1, <2>2, <2>3
       DEF LoaderTInv, Relatives, Plain, Requests, Answered, Served, ServicesTypeOK, Kinds,
           TempKinds, Places, PlaceNames
<1>3. \A c \in Calls : /\ sent[c] \in 0..Parts(script[c]) /\ arrived[c] <= sent[c]
                       /\ status[c] \in {"open", "ok", "failed"}
  BY <1>1 DEF LoaderTInv, Requests, Answered
<1>4. Len(stdin) <= PipeRoom /\ Len(up) <= PipeRoom /\ Len(stdout) <= PipeRoom
  BY DEF LoaderTInv, Requests, Answered, Passing
<1>5. QED
  BY <1>2, <1>3, <1>4 DEF LoaderTInv, Plain, LoaderTypeOK

LEMMA LoaderTInvInit == LoaderInit \/ LoaderIdle => LoaderTInv /\ Relatives
<1> SUFFICES ASSUME LoaderInit \/ LoaderIdle PROVE LoaderTInv /\ Relatives
  OBVIOUS
<1>1. QuietInit /\ \E started \in {"none", "running"} :
         ServicesInit(Scripts, started) \/ ServicesInit({<<>>}, started)
  BY DEF LoaderInit, LoaderIdle
<1>2. Plain
  BY <1>1 DEF LoaderInit, LoaderIdle, QuietInit, ServicesInit, Plain
<1>3. \A c \in Calls : script[c].method \in Methods /\ script[c].n \in Nat
  BY <1>1, LoaderAssumption DEF ServicesInit, Calls
<1>4. <<>> \in Seq(Sendings) /\ <<>> \in Seq(Calls \X Nat) /\ Len(<<>>) = 0 /\ DOMAIN <<>> = {}
  OBVIOUS
<1>5. Requests
  <2>1. \A c \in Calls : Parts(script[c]) \in Nat
    BY <1>3 DEF Parts
  <2>2. Passing(<<>>)
    BY <1>4, LoaderAssumption DEF Passing
  <2>3. QED
    BY <1>1, <1>3, <2>1, <2>2 DEF QuietInit, ServicesInit, Requests
<1>6. Answered
  <2>1. Served(handler, temps, down)
    <3>1. [at |-> "serve", n |-> 0] \in Places
      BY DEF Places, PlaceNames
    <3>2. handler \in [Calls -> Places] /\ temps = {} /\ down = <<>>
      BY <1>1, <3>1 DEF ServicesInit
    <3>3. QED
      BY <1>4, <3>2 DEF Served
  <2>2. QED
    BY <1>1, <1>4, <2>1, LoaderAssumption DEF QuietInit, Answered
<1>7. Relatives
  BY <1>1 DEF ServicesInit, Relatives
<1>8. QED
  BY <1>2, <1>5, <1>6, <1>7 DEF LoaderTInv

\* Each of the two flows, while nothing of it changes.
LEMMA RequestsRest ==
  ASSUME Requests, UNCHANGED <<script, sent, arrived, stdin, up>>
  PROVE  Requests'
BY DEF Requests, Calls, Parts, Passing

LEMMA AnsweredRest ==
  ASSUME Answered, UNCHANGED <<script, handler, temps, down, status>>,
         stdout' = stdout \/ stdout' = <<>>
  PROVE  Answered'
<1>1. stdout' \in Seq(Sendings) /\ Len(stdout') <= PipeRoom
  <2>1. CASE stdout' = stdout
    BY <2>1 DEF Answered
  <2>2. CASE stdout' = <<>>
    <3>1. <<>> \in Seq(Sendings) /\ Len(<<>>) = 0
      OBVIOUS
    <3>2. QED
      BY <2>2, <3>1, LoaderAssumption
  <2>3. QED
    BY <2>1, <2>2
<1>2. QED
  BY <1>1 DEF Answered, Calls, Served, Places, Sendings

\* What the clients do but for writing and taking, and main.
LEMMA ClientTypes ==
  ASSUME LoaderTInv,
         \/ CloseStdin \/ StopReading \/ Play \/ Spawn \/ NoLoader \/ SpawnFails \/ Quit
         \/ CleanupClose \/ CleanupSignal \/ CleanupWait \/ Killed
  PROVE  LoaderTInv'
<1>1. /\ UNCHANGED <<script, sent, arrived, stdin, up, handler, temps, down, status>>
      /\ stdout' = stdout \/ stdout' = <<>>
  BY DEF CloseStdin, StopReading, Play, Spawn, NoLoader, SpawnFails, Quit, CleanupClose,
     CleanupSignal, CleanupWait, Killed, HangUp, serviceVars, bridgeVars
<1>2. ASSUME CloseStdin \/ StopReading \/ Play \/ Spawn \/ NoLoader PROVE Plain'
  BY <1>2 DEF LoaderTInv, Plain, CloseStdin, StopReading, Play, Spawn, NoLoader,
     serviceVars, bridgeVars, mainVars
<1>3. ASSUME SpawnFails \/ Quit \/ CleanupClose PROVE Plain'
  BY <1>3 DEF LoaderTInv, Plain, SpawnFails, Quit, CleanupClose, HangUp,
     serviceVars, bridgeVars, mainVars
<1>4. ASSUME CleanupSignal \/ CleanupWait \/ Killed PROVE Plain'
  BY <1>4 DEF LoaderTInv, Plain, CleanupSignal, CleanupWait, Killed, HangUp,
     serviceVars, bridgeVars, mainVars
<1>5. QED
  BY <1>1, <1>2, <1>3, <1>4, RequestsRest, AnsweredRest DEF LoaderTInv

LEMMA MainTypes ==
  ASSUME LoaderTInv, MainRuns
  PROVE  LoaderTInv'
<1>1. UNCHANGED <<script, sent, arrived, stdin, up, handler, temps, down, status, stdout>>
  BY DEF MainRuns, ExecLoader, Listen, ShowReflectionServices, Serve, Fatal, FirstReadDone,
     StdinClosed, GracefulStop, Exit, MainStep, serviceVars, clientVars, bridgeVars
<1>2. /\ UNCHANGED <<server, clientVars, bridgeVars, launch, pid1>>
      /\ \/ process' \in {"replaced", "exited"} /\ UNCHANGED main
         \/ main' \in {"first", "serve", "stdin", "stop", "listen"} /\ UNCHANGED process
  BY DEF MainRuns, ExecLoader, Listen, ShowReflectionServices, Serve, Fatal, FirstReadDone,
     StdinClosed, GracefulStop, Exit, MainStep, serviceVars, mainVars
<1>3. Plain'
  BY <1>2 DEF LoaderTInv, Plain, clientVars, bridgeVars
<1>4. QED
  BY <1>1, <1>3, RequestsRest, AnsweredRest DEF LoaderTInv

\* One more part of a request is written, or passes from one queue to the next.
LEMMA WriteTypes ==
  ASSUME Requests, NEW c \in Calls, Write(c), UNCHANGED <<script, arrived, up>>
  PROVE  Requests'
<1>1. Calls' = Calls /\ \A d \in Calls : Parts(script[d])' = Parts(script[d]) /\ sent[d] \in Nat
                                           /\ arrived[d] \in Nat /\ Parts(script[d]) \in Nat
  BY DEF Calls, Parts, Requests
<1>2. /\ sent' \in [Calls -> Nat] /\ sent'[c] = sent[c] + 1
      /\ \A d \in Calls : d # c => sent'[d] = sent[d]
  BY <1>1 DEF Requests, Write
<1>3. \A d \in Calls : sent[d] <= sent'[d] /\ sent'[d] <= Parts(script[d]) /\ arrived[d] <= sent'[d]
  BY <1>1, <1>2 DEF Requests, Write
<1>4. PICK p \in Calls \X Nat : p = <<c, sent[c] + 1>>
  <2>1. sent[c] + 1 \in Nat
    BY <1>1
  <2>2. QED
    BY <2>1
<1>5. stdin \in Seq(Calls \X Nat) /\ stdin' = Append(stdin, p) /\ Len(stdin) < PipeRoom
  BY <1>4 DEF Requests, Passing, Write
<1>6. stdin' \in Seq(Calls \X Nat) /\ Len(stdin') <= PipeRoom
  BY <1>5, LoaderAssumption
<1>7. ASSUME NEW q \in Seq(Calls \X Nat), NEW i \in DOMAIN q, q[i][2] <= sent[q[i][1]]
      PROVE  q[i][2] <= sent'[q[i][1]]
  <2>1. q[i] \in Calls \X Nat
    OBVIOUS
  <2>2. q[i][1] \in Calls /\ q[i][2] \in Nat
    BY <2>1
  <2>3. \A d \in Calls : \A n \in Nat : n <= sent[d] => n <= sent'[d]
    BY SMTT(30), <1>1, <1>2, <1>3
  <2>4. QED
    BY <1>7, <2>2, <2>3
<1>8. Passing(up)'
  BY <1>1, <1>7 DEF Requests, Passing
<1>9. \A i \in DOMAIN stdin' : stdin'[i][2] <= sent'[stdin'[i][1]]
  <2>1. \A i \in DOMAIN stdin : stdin[i][2] <= sent'[stdin[i][1]]
    BY <1>5, <1>7 DEF Requests, Passing
  <2>2. \A i \in DOMAIN stdin' : \/ i \in DOMAIN stdin /\ stdin'[i] = stdin[i]
                                \/ stdin'[i] = p
    BY <1>5
  <2>3. p[2] <= sent'[p[1]]
    BY <1>1, <1>2, <1>4
  <2>4. QED
    BY <2>1, <2>2, <2>3
<1>10. QED
  BY <1>1, <1>2, <1>3, <1>6, <1>8, <1>9 DEF Requests, Passing

LEMMA WritingTypes ==
  ASSUME LoaderTInv, TypeLine \/ \E c \in Calls : Put(c)
  PROVE  LoaderTInv'
<1>1. PICK c \in Calls : Write(c)
  BY DEF TypeLine, Put
<1>2. /\ UNCHANGED <<serviceVars, mainVars, bridgeVars, status, stdinOpen, stdout, stdoutOpen>>
      /\ user' \in {user, "recv"}
  BY DEF TypeLine, Put
<1>3. Plain'
  BY <1>2 DEF LoaderTInv, Plain, serviceVars, mainVars, bridgeVars
<1>4. Requests' /\ Answered'
  BY <1>1, <1>2, WriteTypes, AnsweredRest DEF LoaderTInv, serviceVars, bridgeVars
<1>5. QED
  BY <1>3, <1>4 DEF LoaderTInv

LEMMA ReadTypes ==
  ASSUME LoaderTInv, Reads
  PROVE  LoaderTInv'
<1>1. CASE Take
  <2>1. PICK m \in Sendings : m = Head(stdout)
    BY <1>1 DEF LoaderTInv, Answered, Take
  <2>2. status' \in [Calls -> {"open", "ok", "failed"}]
    <3>1. status \in [Calls -> {"open", "ok", "failed"}] /\ m.call \in Calls /\ m.kind \in Kinds
      BY <2>1 DEF LoaderTInv, Answered, Sendings
    <3>2. status' \in {status, [status EXCEPT ![m.call] = "ok"],
                      [status EXCEPT ![m.call] = "failed"]}
      BY <1>1, <2>1, <3>1 DEF Take, Kinds
    <3>3. QED
      BY <3>1, <3>2
  <2>3. stdout' \in Seq(Sendings) /\ Len(stdout') <= PipeRoom
    BY <1>1, LoaderAssumption DEF LoaderTInv, Answered, Take
  <2>4. Answered'
    BY <1>1, <2>2, <2>3
       DEF LoaderTInv, Take, serviceVars, Answered, Calls, Served, Places, Sendings
  <2>5. Requests'
    BY <1>1, RequestsRest DEF LoaderTInv, Take, serviceVars, bridgeVars
  <2>6. Plain'
    BY <1>1 DEF LoaderTInv, Plain, Take, Prompt, serviceVars, mainVars, bridgeVars
  <2>7. QED
    BY <2>4, <2>5, <2>6 DEF LoaderTInv
<1>2. ASSUME NEW c \in Calls, ConnLost(c) PROVE LoaderTInv'
  <2>1. UNCHANGED <<serviceVars, mainVars, bridgeVars, sent, stdin, stdinOpen, stdout, stdoutOpen>>
        /\ status' = [status EXCEPT ![c] = "failed"] /\ user' \in {user, "prompt"}
    BY <1>2 DEF ConnLost, Prompt
  <2>2. Plain'
    BY <2>1 DEF LoaderTInv, Plain, serviceVars, mainVars, bridgeVars
  <2>3. Requests'
    BY <2>1, RequestsRest DEF LoaderTInv, serviceVars, bridgeVars
  <2>4. status' \in [Calls -> {"open", "ok", "failed"}]
    BY <2>1 DEF LoaderTInv, Answered
  <2>5. Answered'
    BY <2>1, <2>4 DEF LoaderTInv, serviceVars, Answered, Calls, Served, Places, Sendings
  <2>6. QED
    BY <2>2, <2>3, <2>5 DEF LoaderTInv
<1>3. QED
  BY <1>1, <1>2 DEF Reads

LEMMA HandleTypes ==
  ASSUME LoaderTInv, NEW c \in Calls, Handle(c)
  PROVE  LoaderTInv'
<1>1. /\ Served(handler', temps', down') /\ UNCHANGED <<script, arrived>>
      /\ process' \in {process, "replaced"} /\ server' \in {server, "gone"}
      /\ UNCHANGED <<mainVars, clientVars, bridgeVars>>
  BY HandlerTypes DEF Handle
<1>2. Plain'
  BY <1>1 DEF LoaderTInv, Plain, mainVars, clientVars, bridgeVars
<1>3. Requests'
  BY <1>1, RequestsRest DEF LoaderTInv, clientVars, bridgeVars
<1>4. Answered'
  BY <1>1 DEF LoaderTInv, clientVars, Answered, Calls, Served, Places, Sendings
<1>5. QED
  BY <1>2, <1>3, <1>4 DEF LoaderTInv

\* A queue that gives its first part away, and one that takes it.
LEMMA PassingOn ==
  ASSUME NEW q, Passing(q), q # <<>>
  PROVE  /\ Passing(Tail(q)) /\ Head(q) \in Calls \X Nat /\ Head(q)[2] <= sent[Head(q)[1]]
         /\ Passing(<<>>) /\ Passing(<<Head(q)>>)
         /\ \A p : Passing(p) /\ Len(p) < PipeRoom => Passing(Append(p, Head(q)))
<1>1. /\ q \in Seq(Calls \X Nat) /\ Len(q) <= PipeRoom
      /\ \A i \in DOMAIN q : q[i][2] <= sent[q[i][1]]
  BY DEF Passing
<1>2. Head(q) \in Calls \X Nat /\ Head(q)[2] <= sent[Head(q)[1]]
  BY <1>1
<1>3. Passing(Tail(q))
  <2>1. /\ Tail(q) \in Seq(Calls \X Nat) /\ Len(Tail(q)) <= PipeRoom
        /\ \A i \in DOMAIN Tail(q) : i + 1 \in DOMAIN q /\ Tail(q)[i] = q[i + 1]
    BY <1>1, LoaderAssumption
  <2>2. QED
    BY <1>1, <2>1 DEF Passing
<1>4. Passing(<<>>)
  <2>1. <<>> \in Seq(Calls \X Nat) /\ Len(<<>>) = 0 /\ DOMAIN <<>> = {}
    OBVIOUS
  <2>2. QED
    BY <2>1, LoaderAssumption DEF Passing
<1> DEFINE h == Head(q)
<1> HIDE DEF h
<1>5. h \in Calls \X Nat /\ h[2] <= sent[h[1]]
  BY <1>2 DEF h
<1>6. Passing(<<h>>)
  <2>1. <<h>> \in Seq(Calls \X Nat) /\ Len(<<h>>) = 1 /\ \A i \in DOMAIN <<h>> : <<h>>[i] = h
    BY <1>5
  <2>2. QED
    BY <1>5, <2>1, LoaderAssumption DEF Passing
<1>7. ASSUME NEW p, Passing(p), Len(p) < PipeRoom
      PROVE  Passing(Append(p, h))
  <2>1. p \in Seq(Calls \X Nat) /\ \A i \in DOMAIN p : p[i][2] <= sent[p[i][1]]
    BY <1>7 DEF Passing
  <2>2. /\ Append(p, h) \in Seq(Calls \X Nat) /\ Len(Append(p, h)) <= PipeRoom
        /\ \A i \in DOMAIN Append(p, h) :
              \/ i \in DOMAIN p /\ Append(p, h)[i] = p[i]
              \/ Append(p, h)[i] = h
    BY <1>5, <1>7, <2>1, LoaderAssumption
  <2>3. QED
    BY <1>5, <2>1, <2>2 DEF Passing
<1>8. QED
  BY <1>2, <1>3, <1>4, <1>6, <1>7 DEF h

LEMMA BridgeTypes ==
  ASSUME LoaderTInv, StdinRuns \/ StdoutRuns
  PROVE  LoaderTInv'
<1>1. Plain'
  <2>1. CASE CopyFirst \/ CopyIn \/ CopyInEnds
    BY <2>1 DEF LoaderTInv, Plain, CopyFirst, CopyIn, CopyInEnds, serviceVars, mainVars,
       clientVars
  <2>2. CASE CopyOut \/ CopyOutBreaks \/ CopyOutEnds
    BY <2>2 DEF LoaderTInv, Plain, CopyOut, CopyOutBreaks, CopyOutEnds, Exit, serviceVars,
       mainVars, clientVars, bridgeVars
  <2>3. QED
    BY <2>1, <2>2 DEF StdinRuns, StdoutRuns
<1>2. Requests'
  <2>1. UNCHANGED <<script, sent, arrived>>
    BY DEF StdinRuns, StdoutRuns, CopyFirst, CopyIn, CopyInEnds, CopyOut, CopyOutBreaks,
       CopyOutEnds, Exit, serviceVars, clientVars
  <2>2. Passing(stdin') /\ Passing(up')
    <3>1. Passing(stdin) /\ Passing(up)
      BY DEF LoaderTInv, Requests
    <3>2. \/ UNCHANGED <<stdin, up>>
          \/ stdin # <<>> /\ stdin' = Tail(stdin) /\ up' = <<Head(stdin)>>
          \/ /\ stdin # <<>> /\ stdin' = Tail(stdin)
             /\ up' = Append(up, Head(stdin)) /\ Len(up) < PipeRoom
      BY DEF StdinRuns, StdoutRuns, CopyFirst, CopyIn, CopyInEnds, CopyOut, CopyOutBreaks,
         CopyOutEnds, Exit, clientVars, bridgeVars
    <3>3. QED
      BY <3>1, <3>2, PassingOn
  <2>3. QED
    BY <2>1, <2>2 DEF LoaderTInv, Requests, Passing, Calls, Parts
<1>3. Answered'
  <2>1. UNCHANGED <<script, handler, temps, status>>
    BY DEF StdinRuns, StdoutRuns, CopyFirst, CopyIn, CopyInEnds, CopyOut, CopyOutBreaks,
       CopyOutEnds, Exit, serviceVars, clientVars
  <2>2. \/ UNCHANGED <<stdout, down>>
        \/ /\ down # <<>> /\ Len(stdout) < PipeRoom
           /\ stdout' = Append(stdout, Head(down)) /\ down' = Tail(down)
    BY DEF StdinRuns, StdoutRuns, CopyFirst, CopyIn, CopyInEnds, CopyOut, CopyOutBreaks,
       CopyOutEnds, Exit, serviceVars, clientVars
  <2>3. /\ stdout' \in Seq(Sendings) /\ Len(stdout') <= PipeRoom
        /\ down' \in Seq(Sendings)
    <3>1. stdout \in Seq(Sendings) /\ Len(stdout) <= PipeRoom /\ down \in Seq(Sendings)
      BY DEF LoaderTInv, Answered, Served
    <3>2. CASE UNCHANGED <<stdout, down>>
      BY <3>1, <3>2
    <3>3. CASE /\ down # <<>> /\ Len(stdout) < PipeRoom
               /\ stdout' = Append(stdout, Head(down)) /\ down' = Tail(down)
      <4>1. down' \in Seq(Sendings)
        BY <3>1, <3>3
      <4>2. PICK m \in Sendings : m = Head(down)
        BY <3>1, <3>3
      <4>3. stdout' = Append(stdout, m) /\ Len(stdout) < PipeRoom
        BY <3>3, <4>2
      <4>4. stdout' \in Seq(Sendings) /\ Len(stdout') <= PipeRoom
        BY <3>1, <4>3, LoaderAssumption
      <4>5. QED
        BY <4>1, <4>4
    <3>4. QED
      BY <2>2, <3>2, <3>3
  <2>4. QED
    BY <2>1, <2>3 DEF LoaderTInv, Answered, Calls, Served, Places, Sendings
<1>4. QED
  BY <1>1, <1>2, <1>3 DEF LoaderTInv

LEMMA ServerTypes ==
  ASSUME LoaderTInv, ServerRuns
  PROVE  LoaderTInv'
<1>1. /\ UNCHANGED <<script, process, handler, temps, mainVars, clientVars,
                     copyIn, firstRead, copyOut, bridge>>
      /\ server' \in {"serving", "gone"}
      /\ down' = down \/ down' = <<>>
  BY DEF ServerRuns, Accept, Deliver, Garbled, ServerSeesEnd, ServerIs
<1>2. Plain'
  BY <1>1 DEF LoaderTInv, Plain, mainVars, clientVars
<1>3. Answered'
  <2>1. down' \in Seq(Sendings)
    <3>1. down \in Seq(Sendings) /\ <<>> \in Seq(Sendings)
      BY DEF LoaderTInv, Answered, Served
    <3>2. QED
      BY <1>1, <3>1
  <2>2. QED
    BY <1>1, <2>1 DEF LoaderTInv, clientVars, Answered, Calls, Served, Places, Sendings
<1>4. Requests'
  <2>1. CASE Deliver
    <3>1. /\ up # <<>> /\ up' = Tail(up) /\ arrived' = [arrived EXCEPT ![Head(up)[1]] = Head(up)[2]]
          /\ Passing(up)
      BY <2>1 DEF Deliver, LoaderTInv, Requests
    <3>2. Passing(up') /\ Head(up) \in Calls \X Nat /\ Head(up)[2] <= sent[Head(up)[1]]
      BY <3>1, PassingOn
    <3>3. arrived' \in [Calls -> Nat] /\ \A c \in Calls : arrived'[c] <= sent[c]
      BY <3>1, <3>2 DEF LoaderTInv, Requests
    <3>4. QED
      BY <1>1, <3>2, <3>3 DEF LoaderTInv, clientVars, Requests, Passing, Calls, Parts
  <2>2. CASE Accept
    BY <1>1, <2>2, RequestsRest DEF LoaderTInv, Accept, clientVars
  <2>3. CASE Garbled \/ ServerSeesEnd
    <3>1. up' = <<>> /\ arrived' = arrived
      BY <2>3 DEF Garbled, ServerSeesEnd
    <3>2. Passing(<<>>)
      <4>1. <<>> \in Seq(Calls \X Nat) /\ Len(<<>>) = 0 /\ DOMAIN <<>> = {}
        OBVIOUS
      <4>2. QED
        BY <4>1, LoaderAssumption DEF Passing
    <3>3. QED
      BY <1>1, <3>1, <3>2 DEF LoaderTInv, clientVars, Requests, Passing, Calls, Parts
  <2>4. QED
    BY <2>1, <2>2, <2>3 DEF ServerRuns
<1>5. QED
  BY <1>2, <1>3, <1>4 DEF LoaderTInv

\* The processes: one that was forked takes a part of a request away.
LEMMA KinTypes ==
  ASSUME LoaderTInv, NEW k \in Calls, Steal(k) \/ Scribble(k) \/ KinEnds(k)
  PROVE  LoaderTInv'
<1>1. Plain'
  BY DEF LoaderTInv, Plain, Steal, Scribble, KinEnds, HangUp, serviceVars, mainVars, bridgeVars,
     clientVars
<1>2. /\ UNCHANGED <<script, sent, arrived, up, handler, temps, down, status>>
      /\ stdout' = stdout \/ stdout' = <<>>
  BY DEF Steal, Scribble, KinEnds, HangUp, serviceVars, bridgeVars, clientVars
<1>3. Answered'
  BY <1>2, AnsweredRest DEF LoaderTInv
<1>4. Requests'
  <2>1. CASE stdin' = stdin
    BY <1>2, <2>1, RequestsRest DEF LoaderTInv
  <2>2. CASE stdin # <<>> /\ stdin' = Tail(stdin)
    <3>1. Passing(stdin')
      BY <2>2, PassingOn DEF LoaderTInv, Requests
    <3>2. QED
      BY <1>2, <3>1 DEF LoaderTInv, Requests, Passing, Calls, Parts
  <2>3. QED
    BY <2>1, <2>2 DEF Steal, Scribble, KinEnds, clientVars
<1>5. QED
  BY <1>1, <1>3, <1>4 DEF LoaderTInv

LEMMA RelativesStay ==
  ASSUME LoaderTInv, Relatives, [LoaderNext]_loaderVars
  PROVE  Relatives'
<1>1. CASE UNCHANGED <<script, kinVars>>
  BY <1>1 DEF Relatives, kinVars, Calls
<1>2. ASSUME NEW c \in Calls, Handle(c) PROVE Relatives'
  BY <1>2, HandleKin DEF Relatives, Calls
<1>3. ASSUME NEW k \in Calls, Steal(k) PROVE Relatives'
  <2>1. Head(stdin) \in Calls \X Nat
    BY <1>3, PassingOn DEF Steal, LoaderTInv, Requests
  <2>2. QED
    BY <1>3, <2>1 DEF Steal, Relatives, Calls
<1>4. ASSUME NEW k \in Calls, KinEnds(k) PROVE Relatives'
  BY <1>4 DEF KinEnds, Relatives, Calls
<1>5. QED
  BY <1>1, <1>2, <1>3, <1>4, KinStays

LEMMA LoaderStepTypes == LoaderTInv /\ [LoaderNext]_loaderVars => LoaderTInv'
<1> SUFFICES ASSUME LoaderTInv, [LoaderNext]_loaderVars PROVE LoaderTInv'
  OBVIOUS
<1>1. CASE UNCHANGED loaderVars
  <2>1. Plain'
    BY <1>1 DEF LoaderTInv, Plain, loaderVars
  <2>2. QED
    BY <1>1, <2>1, RequestsRest, AnsweredRest DEF LoaderTInv, loaderVars
<1>2. CASE LoaderNext
  BY <1>2, ClientTypes, MainTypes, WritingTypes, ReadTypes, HandleTypes, BridgeTypes, ServerTypes,
     KinTypes DEF LoaderNext, PtyCliRuns
<1>3. QED
  BY <1>1, <1>2

-----------------------------------------------------------------------------
(* The types of the terminal and of the boot.                              *)

TerminalTInv == TerminalTypeOK /\ keys \in Nat /\ typed \in Nat /\ eaten \in Nat

LEMMA TerminalTInvInit == TerminalInit \/ TerminalIdle => TerminalTInv
<1>1. /\ 0 \in 0..MaxOutput /\ 0 \in 0..MaxKeys /\ 0 \in 0..MaxSizes
      /\ NoSize \in 0..NoSize
  BY TerminalAssumption DEF NoSize
<1>2. 0 + 0 + 0 = 0 /\ 0 \in Nat /\ 0 \in 0..1 /\ 0 \in 0..0
  OBVIOUS
<1>3. QED
  BY <1>1, <1>2 DEF TerminalInit, TerminalIdle, TerminalBegins, TerminalTInv, TerminalTypeOK

LEMMA TerminalStepTypes == TerminalTInv /\ [TerminalNext]_terminalVars => TerminalTInv'
<1> SUFFICES ASSUME TerminalTInv, [TerminalNext]_terminalVars PROVE TerminalTInv'
  OBVIOUS
<1> USE TerminalAssumption
    DEF TerminalTInv, TerminalTypeOK, NoSize, startVars, childVars, copyVars, sizeVars
<1>1. CASE UNCHANGED terminalVars
  BY <1>1 DEF terminalVars
<1>2. CASE Open \/ ForkExec
  BY <1>2 DEF Open, ForkExec
<1>3. CASE OpenSlave
  BY <1>3 DEF OpenSlave, SetSize, GetSize
<1>4. CASE Nudge \/ EnterRead
  BY <1>4 DEF Nudge, EnterRead
<1>5. CASE Show
  BY <1>5 DEF Show, LeavesMaster
<1>6. CASE ProxyAwaits \/ ProxyReturn \/ ProxyBegins
  BY <1>6 DEF ProxyAwaits, ProxyReturn, ProxyBegins
<1>7. CASE Close
  BY <1>7 DEF Close
<1>8. CASE Resize
  BY <1>8 DEF Resize, SetSize
<1>9. CASE Press
  BY <1>9 DEF Press
<1>10. CASE OuterResized
  BY <1>10 DEF OuterResized
<1>11. CASE ChildWrites
  BY <1>11 DEF ChildWrites
<1>12. CASE ChildEnds \/ HungUp
  BY <1>12 DEF ChildEnds, HungUp
<1>13. CASE HeirEnds \/ Wait
  BY <1>13 DEF HeirEnds, Wait
<1>14. CASE Winch
  BY <1>14 DEF Winch, SetSize, GetSize
<1>15. CASE CopyKeys
  BY <1>15 DEF CopyKeys
<1>16. CASE ShowEnds \/ ShowFails
  BY <1>16 DEF ShowEnds, ShowFails, LeavesMaster
<1>17. QED
  BY <1>1, <1>2, <1>3, <1>4, <1>5, <1>6, <1>7, <1>8, <1>9, <1>10, <1>11, <1>12, <1>13, <1>14,
     <1>15, <1>16 DEF TerminalNext, ProxyRuns, Callers, Others

\* Registrations only add to the list Init has copied from, and there is room for so many.
BootTInv ==
    /\ BootInv
    /\ init \in {"idle", "flags", "detect", "verify", "copy", "login", "done", "run"}
    /\ rootAuthority \in {"unset", "set"} /\ rootIdentity \in {"unset", "set"}
    /\ isContainerised \in BOOLEAN /\ verified \in {"none", "ok", "failed"}
    /\ found \in 0..Running
    /\ Len(loginProviders) <= MaxProviders /\ Len(providers) <= Len(loginProviders)
    /\ \A i \in DOMAIN providers : providers[i] = loginProviders[i]
    /\ authorityName \in {"none", "unset", "set", "given"}
    /\ ownerName \in {"none", "unset", "set", "given"} /\ configured \in BOOLEAN

LEMMA BootTInvInit == BootInit \/ BootIdle => BootTInv
<1> SUFFICES ASSUME BootInit \/ BootIdle PROVE BootTInv
  OBVIOUS
<1>1. BootInv
  <2>1. CASE BootInit
    BY <2>1, BootInvInit
  <2>2. CASE BootIdle
    <3>1. init = "idle" /\ logins = <<>> /\ providers = <<>> /\ loginProviders = <<>>
          /\ tokens = [n \in ProviderNames |-> 0] /\ outcomes = <<>> /\ found = Running
          /\ configured = FALSE /\ ownerName = "none" /\ listed = <<>>
      BY <2>2 DEF BootIdle, BootBegins
    <3>2. <<>> \in Lists
      BY BootAssumption DEF Lists, SeqOf
    <3>3. BootTypes
      BY <3>1, <3>2 DEF BootTypes
    <3>4. LastWins /\ FirstWins
      BY <3>1 DEF LastWins, Wins, FirstWins, Successes
    <3>5. QED
      BY <3>1, <3>3, <3>4 DEF BootInv, InitOrder, Named
  <2>3. QED
    BY <2>1, <2>2
<1>2. Running \in 0..Running /\ Len(<<>>) = 0 /\ DOMAIN <<>> = {}
  BY BootAssumption DEF Running
<1>3. /\ init \in {"idle", "flags", "run"}
      /\ rootAuthority = "unset" /\ rootIdentity = "unset"
      /\ isContainerised = FALSE /\ verified = "none" /\ found = Running
      /\ loginProviders = <<>> /\ providers = <<>>
      /\ authorityName = "none" /\ ownerName = "none" /\ configured = FALSE
  BY DEF BootInit, BootIdle, BootBegins
<1>4. /\ Len(loginProviders) <= MaxProviders /\ Len(providers) <= Len(loginProviders)
      /\ \A i \in DOMAIN providers : providers[i] = loginProviders[i]
  BY <1>2, <1>3, BootAssumption
<1>5. QED
  BY <1>1, <1>2, <1>3, <1>4 DEF BootTInv

LEMMA BootStepTypes == BootTInv /\ [BootNext]_bootVars => BootTInv'
<1> SUFFICES ASSUME BootTInv, [BootNext]_bootVars PROVE BootTInv'
  OBVIOUS
<1> USE DEF BootTInv, initVars, loginVars, runVars, namesVars
<1>0. BootInv'
  BY BootStepPreservesInv
<1>1. CASE UNCHANGED bootVars
  BY <1>0, <1>1 DEF bootVars
<1>2. CASE SetFlags
  BY <1>0, <1>2 DEF SetFlags
<1>3. CASE RunEnvironmentChecks
  BY <1>0, <1>3 DEF RunEnvironmentChecks, DetectContainer, VerifyDomain, CgroupLooksLikeContainer
<1>4. CASE CopyProviders
  BY <1>0, <1>4 DEF CopyProviders, BootInv, BootTypes
<1>5. CASE Login
  BY <1>0, <1>5 DEF Login
<1>6. CASE RegisterLoginProvider
  <2>1. PICK n \in ProviderNames : loginProviders' = Append(loginProviders, n)
    BY <1>6 DEF RegisterLoginProvider
  <2>2. loginProviders \in Seq(ProviderNames) /\ providers \in Seq(ProviderNames)
        /\ Len(loginProviders) < MaxProviders /\ providers' = providers
    BY <1>6 DEF RegisterLoginProvider, BootInv, BootTypes
  <2>3. Len(loginProviders') <= MaxProviders /\ Len(providers) <= Len(loginProviders')
        /\ \A i \in DOMAIN providers : loginProviders'[i] = loginProviders[i]
    BY <2>1, <2>2, BootAssumption
  <2>4. QED
    BY <1>0, <1>6, <2>2, <2>3 DEF RegisterLoginProvider
<1>7. CASE Run
  <2>1. outcomes' \in Seq(Outcomes) /\ listed' \in Lists /\ Len(outcomes') <= Len(listed')
    BY <1>0 DEF BootInv, BootTypes
  <2>2. Len(outcomes') \in 0..MaxProviders
    BY <2>1, BootAssumption DEF Lists, SeqOf
  <2>3. found' \in {0, Running, Len(outcomes')}
    BY <1>7 DEF Run
  <2>4. found' \in 0..Running
    BY <2>2, <2>3, BootAssumption DEF Running
  <2>5. QED
    BY <1>0, <1>7, <2>4 DEF Run
<1>8. CASE NewIdentifierServer
  BY <1>0, <1>8 DEF NewIdentifierServer
<1>9. CASE WithAuthority
  BY <1>0, <1>9 DEF WithAuthority
<1>10. QED
  BY <1>1, <1>2, <1>3, <1>4, <1>5, <1>6, <1>7, <1>8, <1>9 DEF BootNext

LEMMA BootsTypes == BootTInv => BootTypeOK
<1> SUFFICES ASSUME BootTInv PROVE BootTypeOK
  OBVIOUS
<1>1. /\ loginProviders \in Seq(ProviderNames) /\ providers \in Seq(ProviderNames)
      /\ logins \in Seq(Outcomes) /\ Len(logins) <= Len(providers)
      /\ tokens \in [ProviderNames -> Nat] /\ outcomes \in Seq(Outcomes)
      /\ listed \in Lists /\ Len(outcomes) <= Len(listed)
      /\ Len(loginProviders) <= MaxProviders /\ Len(providers) <= Len(loginProviders)
      /\ \A i \in DOMAIN providers : providers[i] = loginProviders[i]
  BY DEF BootTInv, BootInv, BootTypes
<1>2. ASSUME NEW l \in Seq(ProviderNames), Len(l) <= MaxProviders
      PROVE  l \in Lists
  <2>1. Len(l) \in 0..MaxProviders /\ l \in [1..Len(l) -> ProviderNames]
    BY <1>2, BootAssumption
  <2>2. QED
    BY <2>1 DEF Lists, SeqOf
<1>3. loginProviders \in Lists /\ providers \in Lists
  <2>1. Len(providers) <= MaxProviders
    BY <1>1, BootAssumption
  <2>2. QED
    BY <1>1, <1>2, <2>1
<1>4. IsPrefix(providers, loginProviders)
  BY <1>1 DEF IsPrefix
<1>5. tokens \in [ProviderNames -> 0..MaxProviders]
  <2>1. ASSUME NEW n \in ProviderNames PROVE tokens[n] \in 0..MaxProviders
    <3>1. tokens[n] = 0 \/ tokens[n] \in DOMAIN logins
      BY DEF BootTInv, BootInv, LastWins, Wins
    <3>2. QED
      BY <1>1, <3>1, BootAssumption
  <2>2. QED
    BY <1>1, <2>1
<1>6. found \in 0..Running
  BY DEF BootTInv
<1>7. QED
  BY <1>1, <1>3, <1>4, <1>5, <1>6 DEF BootTInv, BootTypeOK

-----------------------------------------------------------------------------
(* The types of all three.                                                 *)

TInv == LoaderTInv /\ Relatives /\ TerminalTInv /\ BootTInv

\* The variables of the three programs keep their types, for any scripts, rooms and
\* bounds, whatever the names of frames sort to: no queue of the bridge grows beyond its
\* room, no part of a request arrives that was not written, and Init's copy of the
\* providers is a beginning of the list they register in.
THEOREM TypeCorrect == Spec => []TypeOK
<1>1. Init => TInv
  BY LoaderTInvInit, TerminalTInvInit, BootTInvInit DEF Init, TInv
<1>2. TInv /\ [Next]_<<loaderVars, terminalVars, bootVars>> => TInv'
  <2> SUFFICES ASSUME TInv, [Next]_<<loaderVars, terminalVars, bootVars>> PROVE TInv'
    OBVIOUS
  <2>1. [LoaderNext]_loaderVars /\ [TerminalNext]_terminalVars /\ [BootNext]_bootVars
    BY DEF Next
  <2>2. QED
    BY <2>1, LoaderStepTypes, RelativesStay, TerminalStepTypes, BootStepTypes DEF TInv
<1>3. TInv => TypeOK
  BY LoaderTypes, BootsTypes DEF TInv, TypeOK, TerminalTInv
<1>4. QED
  BY <1>1, <1>2, <1>3, PTL DEF Spec
============================================================================
