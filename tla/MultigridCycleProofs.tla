------------------------ MODULE MultigridCycleProofs ------------------------
(***************************************************************************)
(* What the vectors of a multigrid cycle are whenever they are used, for   *)
(* any processes, levels, vertical interfaces and smoothing steps.         *)
(*                                                                         *)
(* All processes run the same recursion, each at its own pace: each is at  *)
(* some place of one history, the places the foremost one has been at, and *)
(* what it has computed follows from its place (DataInv).  A place tells,  *)
(* too, which message it gives or takes: what is on its way between two    *)
(* processes are the messages of the places that the sender has passed and *)
(* the receiver has not (Carries).                                         *)
(***************************************************************************)
EXTENDS MultigridCycle, WellFoundedInduction, TLAPS

-----------------------------------------------------------------------------
(* Bags of corrections.                                                    *)

\* The bag of the corrections from .. to.
LEMMA OnceBag == ASSUME NEW a, NEW b PROVE Once(a, b) = [e \in a .. b |-> 1]
  BY DEF Once, SetToBag

LEMMA OnceNone == ASSUME NEW n \in Nat PROVE Once(n + 1, n) = EmptyBag
<1>1. n + 1 .. n = {}
  OBVIOUS
<1> QED BY <1>1 DEF Once, EmptyBag

LEMMA OnceMore ==
  ASSUME NEW a \in Nat, NEW n \in Nat, a <= n + 1
  PROVE  /\ Plus(Once(a, n), n + 1) = Once(a, n + 1)
         /\ Once(a, n) (+) SetToBag({n + 1}) = Once(a, n + 1)
<1>1. a .. n + 1 = (a .. n) \cup {n + 1} /\ n + 1 \notin a .. n
  OBVIOUS
<1>2. Once(a, n) (+) SetToBag({n + 1}) = Once(a, n + 1)
  <2> DEFINE S == a .. n
  <2>1. SetToBag(S) (+) SetToBag({n + 1}) = SetToBag(S \cup {n + 1})
    <3>1. n + 1 \notin S
      BY <1>1
    <3> HIDE DEF S
    <3> QED BY <3>1 DEF SetToBag, (+)
  <2> QED BY <2>1, <1>1 DEF Once
<1> QED BY <1>2 DEF Plus

LEMMA OnceAdded ==
  ASSUME NEW a \in Nat, NEW m \in Nat, NEW n, n = m + 1, a <= n
  PROVE  /\ Plus(Once(a, m), n) = Once(a, n)
         /\ Once(a, m) (+) SetToBag({n}) = Once(a, n)
  BY OnceMore

LEMMA OnceTogether ==
  ASSUME NEW k \in Nat, NEW n \in Nat, k <= n
  PROVE  Once(1, k) (+) Once(k + 1, n) = Once(1, n)
  BY DEF Once, SetToBag, (+)

LEMMA OnceAlone ==
  ASSUME NEW a, NEW n
  PROVE  EmptyBag (+) Once(a, n) = Once(a, n)
  BY DEF Once, SetToBag, EmptyBag, (+)

LEMMA OnceSingle == ASSUME NEW n \in Nat PROVE SetToBag({n}) = Once(n, n)
<1>1. n .. n = {n}
  OBVIOUS
<1> QED BY <1>1 DEF Once

-----------------------------------------------------------------------------
(* The recursion without processes.                                        *)

\* What all processes have in common: where they are in the recursion and what they
\* have computed.  The three pc of a restriction are one place here, and so are
\* those between gathering and spreading.
Places == {"presmooth", "coarse", "base", "correction", "postsmooth", "finish", "done"}

Types == {CycleType, V}
Frames == [lev : Levels, calls : Seq(Types)]

Start == [at |-> EntryOf(TopLevel), stack |-> <<Frame(TopLevel, CycleType)>>, nu |-> 0,
          made |-> [l \in Levels |-> 0], reset |-> [l \in Levels |-> 0]]

Top(c) == Head(c.stack).lev
CallsOf(c) == Head(c.stack).calls

OneMore(f, l) == [f EXCEPT ![l] = @ + 1]

Smooths(c) == \/ c.at = "presmooth" /\ c.nu < NumPreSmooth
              \/ c.at = "postsmooth" /\ c.nu < NumPostSmooth
Restricts(c) == c.at = "presmooth" /\ c.nu = NumPreSmooth
Descends(c) == c.at = "coarse" /\ CallsOf(c) # <<>>
Prolongates(c) == c.at = "coarse" /\ CallsOf(c) = <<>>
Returns(c) == \/ c.at = "postsmooth" /\ c.nu = NumPostSmooth
              \/ c.at = "correction"
Computes(c) == Smooths(c) \/ Prolongates(c) \/ c.at = "correction"

NextAt(c) ==
  IF Restricts(c) THEN "coarse"
  ELSE IF Descends(c) THEN EntryOf(Top(c) - 1)
  ELSE IF Prolongates(c) THEN "postsmooth"
  ELSE IF c.at = "base" THEN "correction"
  ELSE IF Returns(c) THEN IF Len(c.stack) = 1 THEN "finish" ELSE "coarse"
  ELSE IF c.at = "finish" THEN "done"
  ELSE c.at

NextStack(c) ==
  IF Descends(c) THEN <<Frame(Top(c) - 1, Head(CallsOf(c))),
                        [lev |-> Top(c), calls |-> Tail(CallsOf(c))]>> \o Tail(c.stack)
  ELSE IF Returns(c) THEN Tail(c.stack)
  ELSE c.stack

NextNu(c) == IF Descends(c) \/ Prolongates(c) THEN 0
             ELSE IF Smooths(c) THEN c.nu + 1 ELSE c.nu

NextMade(c) == IF Computes(c) THEN OneMore(c.made, Top(c)) ELSE c.made

NextReset(c) == IF Restricts(c) THEN [c.reset EXCEPT ![Top(c) - 1] = c.made[Top(c) - 1]]
                ELSE c.reset

Continued(c) == [at |-> NextAt(c), stack |-> NextStack(c), nu |-> NextNu(c),
                 made |-> NextMade(c), reset |-> NextReset(c)]

\* A call that is not the last one, where another call follows.
Repeats(l) == CycleType # V /\ l - 1 # BaseLevel

\* What is true of every place in the recursion.
Nested(s) == \A i \in 1 .. Len(s) : s[i].lev = TopLevel - Len(s) + i
FewCalls(f) == /\ f.lev = BaseLevel => f.calls = <<>>
               /\ ~Repeats(f.lev) => Len(f.calls) <= 1
LastCall(f) == ~Repeats(f.lev) => f.calls = <<>>

Sound(c) ==
  /\ c.at \in Places
  /\ c.stack \in Seq(Frames) /\ Nested(c.stack)
  /\ \A i \in 1 .. Len(c.stack) : FewCalls(c.stack[i])
  /\ \A i \in 2 .. Len(c.stack) : LastCall(c.stack[i])
  /\ c.nu \in Nat
  /\ c.made \in [Levels -> Nat] /\ c.reset \in [Levels -> Nat]
  /\ \A l \in Levels : c.reset[l] <= c.made[l]
  /\ c.reset[TopLevel] = 0
  /\ c.stack = <<>> <=> c.at \in {"finish", "done"}
  /\ c.at \in {"base", "correction"} =>
       Top(c) = BaseLevel /\ c.reset[BaseLevel] = c.made[BaseLevel]
  /\ c.at \in {"presmooth", "coarse", "postsmooth"} => Top(c) > BaseLevel
  /\ c.at = "presmooth" => c.nu <= NumPreSmooth
  /\ c.at = "postsmooth" => c.nu <= NumPostSmooth
  /\ Descends(c) /\ Top(c) - 1 = BaseLevel => c.reset[BaseLevel] = c.made[BaseLevel]

LEMMA CallsAreTyped ==
  ASSUME NEW l \in Levels, NEW type \in Types
  PROVE  Frame(l, type) \in Frames /\ FewCalls(Frame(l, type))
<1>1. type \in {-1} \cup (Nat \ {0}) /\ V = 1 /\ F = -1
  BY CycleAssumption DEF Types, V, F
<1>2. Calls(l, type) \in Seq(Types)
  <2>1. V \in Types
    BY DEF Types
  <2>2. CASE l = BaseLevel \/ l - 1 = BaseLevel
    BY <2>2 DEF Calls
  <2>3. CASE ~(l = BaseLevel \/ l - 1 = BaseLevel) /\ type = F
    BY <2>1, <2>3 DEF Calls
  <2>4. CASE ~(l = BaseLevel \/ l - 1 = BaseLevel) /\ type # F
    <3>1. Calls(l, type) = [i \in 1 .. type |-> type] /\ type \in Nat
      BY <2>4, <1>1 DEF Calls
    <3> QED BY <3>1
  <2> QED BY <2>2, <2>3, <2>4
<1>3. FewCalls(Frame(l, type))
  <2>1. l = BaseLevel => Calls(l, type) = <<>>
    BY DEF Calls
  <2>2. ASSUME ~Repeats(l)
        PROVE  Len(Calls(l, type)) <= 1
    <3>1. CASE l = BaseLevel \/ l - 1 = BaseLevel
      BY <3>1 DEF Calls
    <3>2. CASE ~(l = BaseLevel \/ l - 1 = BaseLevel)
      <4>1. type = 1
        BY <2>2, <3>2, <1>1 DEF Repeats, Types
      <4>2. Calls(l, type) = [i \in 1 .. 1 |-> 1]
        BY <4>1, <3>2, <1>1 DEF Calls
      <4> QED BY <4>2
    <3> QED BY <3>1, <3>2
  <2> QED BY <2>1, <2>2 DEF FewCalls, Frame
<1> QED BY <1>2, <1>3 DEF Frame, Frames

LEMMA LevelsAre ==
  /\ BaseLevel \in Nat /\ TopLevel \in Nat /\ BaseLevel <= TopLevel
  /\ BaseLevel \in Levels /\ TopLevel \in Levels
  /\ \A l \in Levels : l \in Nat /\ BaseLevel <= l /\ l <= TopLevel
  /\ \A l \in Levels : l > BaseLevel => l - 1 \in Levels
  /\ NumPreSmooth \in Nat /\ NumPostSmooth \in Nat
  BY CycleAssumption DEF Levels

LEMMA LevelIs ==
  ASSUME NEW l \in Levels
  PROVE  l \in Nat /\ BaseLevel <= l /\ l <= TopLevel
  BY LevelsAre

LEMMA LevelBelow ==
  ASSUME NEW l \in Levels, l > BaseLevel
  PROVE  /\ l \in Nat /\ l - 1 \in Nat /\ l - 1 \in Levels
         /\ l - 1 # TopLevel /\ l - 1 # l /\ l # BaseLevel
         /\ l - 1 = BaseLevel \/ l - 1 > BaseLevel
<1>1. l \in Nat /\ BaseLevel \in Nat /\ TopLevel \in Nat /\ l <= TopLevel
  BY LevelsAre
<1>2. l - 1 \in Levels
  BY LevelsAre
<1> QED BY <1>1, <1>2

LEMMA StartIsSound == Sound(Start)
<1>1. Frame(TopLevel, CycleType) \in Frames /\ FewCalls(Frame(TopLevel, CycleType))
  BY CallsAreTyped, LevelsAre DEF Types
<1>2. Frame(TopLevel, CycleType).lev = TopLevel
  BY DEF Frame
<1>3. Start.at = EntryOf(TopLevel) /\ Start.nu = 0
      /\ Start.stack = <<Frame(TopLevel, CycleType)>>
      /\ Start.made = [l \in Levels |-> 0] /\ Start.reset = [l \in Levels |-> 0]
  BY DEF Start
<1>4. (Start.at = "base" /\ TopLevel = BaseLevel) \/ (Start.at = "presmooth" /\ TopLevel > BaseLevel)
  BY <1>3, LevelsAre DEF EntryOf
<1>5. Top(Start) = TopLevel
  BY <1>2, <1>3 DEF Top
<1>6. Nested(Start.stack)
  BY <1>2, <1>3, LevelsAre DEF Nested
<1>7. /\ \A i \in 1 .. Len(Start.stack) : FewCalls(Start.stack[i])
      /\ \A i \in 2 .. Len(Start.stack) : LastCall(Start.stack[i])
      /\ Start.stack \in Seq(Frames) /\ Start.stack # <<>>
  BY <1>1, <1>3
<1>8. ~Descends(Start)
  BY <1>4 DEF Descends
<1> QED BY <1>3, <1>4, <1>5, <1>6, <1>7, <1>8, LevelsAre DEF Sound, Places

\* The ways to go on.
Ways(c) ==
  \/ Smooths(c) \/ Restricts(c) \/ Descends(c) \/ Prolongates(c)
  \/ c.at = "base" \/ Returns(c) \/ c.at = "finish" \/ c.at = "done"

LEMMA TopFrame ==
  ASSUME NEW c, Sound(c), c.stack # <<>>
  PROVE  /\ Head(c.stack) = c.stack[1] /\ Len(c.stack) \in Nat /\ Len(c.stack) >= 1
         /\ Top(c) \in Levels /\ Top(c) = TopLevel - Len(c.stack) + 1
         /\ CallsOf(c) \in Seq(Types) /\ c.stack[1] \in Frames
         /\ c.stack[1] = [lev |-> Top(c), calls |-> CallsOf(c)]
<1>1. c.stack \in Seq(Frames) /\ Nested(c.stack)
  BY DEF Sound
<1>2. Head(c.stack) = c.stack[1] /\ Len(c.stack) \in Nat /\ Len(c.stack) >= 1 /\ c.stack[1] \in Frames
  BY <1>1
<1>3. Top(c) = TopLevel - Len(c.stack) + 1
  BY <1>1, <1>2 DEF Nested, Top
<1> QED BY <1>2, <1>3 DEF Frames, Top, CallsOf

LEMMA SomeWay == ASSUME NEW c, Sound(c) PROVE Ways(c)
<1>1. /\ c.at \in Places /\ c.nu \in Nat
      /\ c.at = "presmooth" => c.nu <= NumPreSmooth
      /\ c.at = "postsmooth" => c.nu <= NumPostSmooth
  BY DEF Sound
<1> QED BY <1>1, LevelsAre DEF Ways, Places, Smooths, Restricts, Descends, Prolongates, Returns

LEMMA OneMoreIs ==
  ASSUME NEW f \in [Levels -> Nat], NEW l \in Levels
  PROVE  /\ OneMore(f, l) \in [Levels -> Nat] /\ OneMore(f, l)[l] = f[l] + 1
         /\ \A k \in Levels : k # l => OneMore(f, l)[k] = f[k]
         /\ \A k \in Levels : f[k] <= OneMore(f, l)[k]
  BY DEF OneMore

\* d is in the same calls as c.
SameCalls(c, d) ==
  /\ d.stack = c.stack /\ d.at \in Places /\ d.nu \in Nat
  /\ d.made \in [Levels -> Nat] /\ d.reset \in [Levels -> Nat]
  /\ \A l \in Levels : d.reset[l] <= d.made[l]
  /\ d.reset[TopLevel] = 0
  /\ d.at \in {"finish", "done"} <=> c.at \in {"finish", "done"}
  /\ d.at \in {"base", "correction"} => c.at = "base" /\ d.reset[BaseLevel] = d.made[BaseLevel]
  /\ c.at = "base" => d.at \in {"base", "correction"}
  /\ d.at = "presmooth" => d.nu <= NumPreSmooth
  /\ d.at = "postsmooth" => d.nu <= NumPostSmooth
  /\ d.at = "coarse" =>
       c.stack # <<>> /\ (Top(c) - 1 = BaseLevel => d.reset[BaseLevel] = d.made[BaseLevel])

\* A step that neither calls nor returns.
LEMMA StaysSound ==
  ASSUME NEW c, Sound(c), ~Descends(c), ~Returns(c), NEW d, SameCalls(c, d)
  PROVE  Sound(d)
<1> USE DEF SameCalls
<1>1. Top(d) = Top(c)
  BY DEF Top
<1>2. d.stack = <<>> <=> d.at \in {"finish", "done"}
  BY DEF Sound
<1>3. d.at \in {"base", "correction"} => Top(d) = BaseLevel
  BY <1>1 DEF Sound
<1>4. d.at \in {"presmooth", "coarse", "postsmooth"} => Top(d) > BaseLevel
  <2>1. c.at \in {"presmooth", "coarse", "postsmooth"} => Top(c) > BaseLevel
    BY DEF Sound
  <2>2. c.at \in Places /\ c.at # "correction"
    BY DEF Sound, Returns
  <2> QED BY <2>1, <2>2, <1>1 DEF Places
<1>5. Descends(d) /\ Top(d) - 1 = BaseLevel => d.reset[BaseLevel] = d.made[BaseLevel]
  BY <1>1 DEF Descends
<1>6. /\ d.stack \in Seq(Frames) /\ Nested(d.stack)
      /\ \A i \in 1 .. Len(d.stack) : FewCalls(d.stack[i])
      /\ \A i \in 2 .. Len(d.stack) : LastCall(d.stack[i])
  BY DEF Sound
<1> QED BY <1>2, <1>3, <1>4, <1>5, <1>6 DEF Sound

LEMMA ContinuedHas ==
  ASSUME NEW c
  PROVE  /\ Continued(c).at = NextAt(c) /\ Continued(c).stack = NextStack(c)
         /\ Continued(c).nu = NextNu(c) /\ Continued(c).made = NextMade(c)
         /\ Continued(c).reset = NextReset(c)
  BY DEF Continued

\* The ways exclude each other.
LEMMA OneWay ==
  ASSUME NEW c, Sound(c)
  PROVE  /\ Smooths(c) => ~Restricts(c) /\ ~Descends(c) /\ ~Prolongates(c) /\ ~Returns(c) /\ Computes(c)
         /\ Restricts(c) => ~Descends(c) /\ ~Prolongates(c) /\ ~Returns(c) /\ ~Computes(c) /\ c.at = "presmooth"
         /\ Descends(c) => ~Prolongates(c) /\ ~Returns(c) /\ ~Computes(c) /\ c.at = "coarse"
         /\ Prolongates(c) => ~Returns(c) /\ Computes(c) /\ c.at = "coarse"
         /\ c.at \in {"base", "finish", "done"} =>
              ~Smooths(c) /\ ~Restricts(c) /\ ~Descends(c) /\ ~Prolongates(c) /\ ~Returns(c) /\ ~Computes(c)
         /\ Returns(c) => (Computes(c) <=> c.at = "correction")
  BY LevelsAre DEF Sound, Smooths, Restricts, Descends, Prolongates, Returns, Computes

LEMMA SmoothedIsSound ==
  ASSUME NEW c, Sound(c), Smooths(c)
  PROVE  Sound(Continued(c))
<1> DEFINE d == Continued(c)
<1>1. c.stack # <<>> /\ Top(c) > BaseLevel /\ c.at \in Places /\ c.nu \in Nat
      /\ c.made \in [Levels -> Nat] /\ c.reset \in [Levels -> Nat] /\ c.reset[TopLevel] = 0
      /\ \A l \in Levels : c.reset[l] <= c.made[l]
  BY DEF Sound, Smooths
<1>2. Top(c) \in Levels
  BY <1>1, TopFrame
<1>3. d.at = c.at /\ d.stack = c.stack /\ d.nu = c.nu + 1 /\ d.reset = c.reset
      /\ d.made = OneMore(c.made, Top(c))
  BY ContinuedHas, OneWay DEF NextAt, NextStack, NextNu, NextMade, NextReset, Smooths
<1>3a. ~Descends(c) /\ ~Returns(c)
  BY <1>1, OneWay DEF Smooths
<1> HIDE DEF d
<1>4. d.made \in [Levels -> Nat] /\ \A l \in Levels : d.reset[l] <= d.made[l]
  <2> DEFINE f == c.made
             g == c.reset
  <2>1. f \in [Levels -> Nat] /\ g \in [Levels -> Nat] /\ \A l \in Levels : g[l] <= f[l]
    BY <1>1
  <2>2. d.made = OneMore(f, Top(c)) /\ d.reset = g
    BY <1>3
  <2> HIDE DEF f, g
  <2>3. OneMore(f, Top(c)) \in [Levels -> Nat] /\ \A l \in Levels : f[l] <= OneMore(f, Top(c))[l]
    BY <2>1, <1>2, OneMoreIs
  <2> QED BY <2>1, <2>2, <2>3
<1>5. /\ d.at = "presmooth" => d.nu <= NumPreSmooth
      /\ d.at = "postsmooth" => d.nu <= NumPostSmooth
      /\ d.at \in {"presmooth", "postsmooth"} /\ c.at = d.at
  BY <1>1, <1>3, LevelsAre DEF Smooths
<1>7. SameCalls(c, d)
  BY <1>1, <1>3, <1>4, <1>5 DEF SameCalls
<1>8. Sound(d)
  BY <1>3a, <1>7, StaysSound
<1> QED BY <1>8 DEF d

LEMMA RestrictedIsSound ==
  ASSUME NEW c, Sound(c), Restricts(c)
  PROVE  Sound(Continued(c))
<1> DEFINE d == Continued(c)
<1>1. c.stack # <<>> /\ Top(c) > BaseLevel /\ c.at = "presmooth" /\ c.nu \in Nat
      /\ c.made \in [Levels -> Nat] /\ c.reset \in [Levels -> Nat] /\ c.reset[TopLevel] = 0
      /\ \A l \in Levels : c.reset[l] <= c.made[l]
  BY DEF Sound, Restricts
<1>2. Top(c) \in Levels /\ Top(c) - 1 \in Levels /\ Top(c) - 1 # TopLevel
  <2>1. Top(c) \in Levels
    BY <1>1, TopFrame
  <2> QED BY <2>1, <1>1, LevelBelow
<1>3. d.at = "coarse" /\ d.stack = c.stack /\ d.nu = c.nu /\ d.made = c.made
      /\ d.reset = [c.reset EXCEPT ![Top(c) - 1] = c.made[Top(c) - 1]]
  BY ContinuedHas, OneWay DEF NextAt, NextStack, NextNu, NextMade, NextReset, Smooths, Restricts
<1>3a. ~Descends(c) /\ ~Returns(c)
  BY <1>1, OneWay DEF Smooths
<1> HIDE DEF d
<1>4. d.reset \in [Levels -> Nat] /\ (\A l \in Levels : d.reset[l] <= d.made[l])
      /\ d.reset[TopLevel] = 0 /\ (Top(c) - 1 = BaseLevel => d.reset[BaseLevel] = d.made[BaseLevel])
  <2> DEFINE f == c.made
             g == c.reset
             l == Top(c) - 1
  <2>1. f \in [Levels -> Nat] /\ g \in [Levels -> Nat] /\ (\A k \in Levels : g[k] <= f[k])
        /\ g[TopLevel] = 0
    BY <1>1
  <2>2. d.made = f /\ d.reset = [g EXCEPT ![l] = f[l]]
    BY <1>3
  <2>3. l \in Levels /\ l # TopLevel
    BY <1>2
  <2> HIDE DEF f, g, l
  <2>4. d.reset \in [Levels -> Nat] /\ (\A k \in Levels : d.reset[k] <= d.made[k])
        /\ d.reset[TopLevel] = 0 /\ d.reset[l] = d.made[l]
    BY <2>1, <2>2, <2>3, LevelsAre
  <2> QED BY <2>4 DEF l
<1>5. d.at \in Places
  BY <1>3 DEF Places
<1>7. SameCalls(c, d)
  BY <1>1, <1>3, <1>4, <1>5 DEF SameCalls
<1>8. Sound(d)
  BY <1>3a, <1>7, StaysSound
<1> QED BY <1>8 DEF d

LEMMA ProlongatedIsSound ==
  ASSUME NEW c, Sound(c), Prolongates(c)
  PROVE  Sound(Continued(c))
<1> DEFINE d == Continued(c)
<1>1. c.stack # <<>> /\ Top(c) > BaseLevel /\ c.at = "coarse" /\ c.nu \in Nat
      /\ c.made \in [Levels -> Nat] /\ c.reset \in [Levels -> Nat] /\ c.reset[TopLevel] = 0
      /\ \A l \in Levels : c.reset[l] <= c.made[l]
  BY DEF Sound, Prolongates
<1>2. Top(c) \in Levels
  BY <1>1, TopFrame
<1>3. d.at = "postsmooth" /\ d.stack = c.stack /\ d.nu = 0 /\ d.reset = c.reset
      /\ d.made = OneMore(c.made, Top(c))
  BY <1>1, ContinuedHas, OneWay DEF NextAt, NextStack, NextNu, NextMade, NextReset, Restricts, Descends, Prolongates
<1>3a. ~Descends(c) /\ ~Returns(c)
  BY <1>1, OneWay DEF Smooths
<1> HIDE DEF d
<1>4. d.made \in [Levels -> Nat] /\ \A l \in Levels : d.reset[l] <= d.made[l]
  <2> DEFINE f == c.made
             g == c.reset
  <2>1. f \in [Levels -> Nat] /\ g \in [Levels -> Nat] /\ \A l \in Levels : g[l] <= f[l]
    BY <1>1
  <2>2. d.made = OneMore(f, Top(c)) /\ d.reset = g
    BY <1>3
  <2> HIDE DEF f, g
  <2>3. OneMore(f, Top(c)) \in [Levels -> Nat] /\ \A l \in Levels : f[l] <= OneMore(f, Top(c))[l]
    BY <2>1, <1>2, OneMoreIs
  <2> QED BY <2>1, <2>2, <2>3
<1>5. d.at \in Places /\ 0 <= NumPostSmooth
  BY <1>3, LevelsAre DEF Places
<1>7. SameCalls(c, d)
  BY <1>1, <1>3, <1>4, <1>5 DEF SameCalls
<1>8. Sound(d)
  BY <1>3a, <1>7, StaysSound
<1> QED BY <1>8 DEF d

LEMMA GatheredIsSound ==
  ASSUME NEW c, Sound(c), c.at \in {"base", "finish", "done"}
  PROVE  Sound(Continued(c))
<1> DEFINE d == Continued(c)
<1>1. c.nu \in Nat
      /\ c.made \in [Levels -> Nat] /\ c.reset \in [Levels -> Nat] /\ c.reset[TopLevel] = 0
      /\ (\A l \in Levels : c.reset[l] <= c.made[l])
      /\ (c.at = "base" => c.reset[BaseLevel] = c.made[BaseLevel])
  BY DEF Sound
<1>2. d.at = (IF c.at = "base" THEN "correction" ELSE "done")
      /\ d.stack = c.stack /\ d.nu = c.nu /\ d.reset = c.reset
      /\ d.made = c.made
  BY ContinuedHas, OneWay DEF NextAt, NextStack, NextNu, NextMade, NextReset
<1>3a. ~Descends(c) /\ ~Returns(c)
  BY <1>1, OneWay DEF Smooths
<1> HIDE DEF d
<1>3. d.at \in Places
  BY <1>2 DEF Places
<1>7. SameCalls(c, d)
  BY <1>1, <1>2, <1>3 DEF SameCalls
<1>8. Sound(d)
  BY <1>3a, <1>7, StaysSound
<1> QED BY <1>8 DEF d

\* The stack when lmgc() is called for the next coarser level.
LEMMA CallingIsSound ==
  ASSUME NEW c, Sound(c), Descends(c)
  PROVE  Sound(Continued(c))
<1> DEFINE s == c.stack
           l == Top(c)
           f1 == Frame(l - 1, Head(CallsOf(c)))
           f2 == [lev |-> l, calls |-> Tail(CallsOf(c))]
           d == Continued(c)
<1>1. s # <<>> /\ l > BaseLevel /\ c.at = "coarse" /\ c.nu \in Nat
      /\ c.made \in [Levels -> Nat] /\ c.reset \in [Levels -> Nat] /\ c.reset[TopLevel] = 0
      /\ (\A k \in Levels : c.reset[k] <= c.made[k])
      /\ s \in Seq(Frames) /\ Nested(s)
      /\ (l - 1 = BaseLevel => c.reset[BaseLevel] = c.made[BaseLevel])
  BY DEF Sound, Descends
<1>2. /\ s[1] = [lev |-> l, calls |-> CallsOf(c)] /\ CallsOf(c) \in Seq(Types) /\ CallsOf(c) # <<>>
      /\ l \in Levels /\ Len(s) \in Nat /\ Len(s) >= 1 /\ l = TopLevel - Len(s) + 1
  BY <1>1, TopFrame DEF Descends
<1>3. /\ l \in Nat /\ l - 1 \in Levels /\ l # BaseLevel
      /\ l - 1 = BaseLevel \/ l - 1 > BaseLevel
  <2> HIDE DEF l
  <2> QED BY <1>1, <1>2, LevelBelow
<1>4. Head(CallsOf(c)) \in Types /\ Tail(CallsOf(c)) \in Seq(Types)
      /\ Len(Tail(CallsOf(c))) = Len(CallsOf(c)) - 1 /\ Len(CallsOf(c)) \in Nat
      /\ (Len(Tail(CallsOf(c))) = 0 => Tail(CallsOf(c)) = <<>>)
  <2> DEFINE x == CallsOf(c)
  <2>1. x \in Seq(Types) /\ x # <<>>
    BY <1>2
  <2> HIDE DEF x
  <2>2. Head(x) \in Types /\ Tail(x) \in Seq(Types)
        /\ Len(Tail(x)) = Len(x) - 1 /\ Len(x) \in Nat
    <3> DEFINE T == Types
    <3>1. x \in Seq(T) /\ x # <<>>
      BY <2>1
    <3> HIDE DEF T
    <3>2. Head(x) \in T /\ Tail(x) \in Seq(T) /\ Len(x) \in Nat
      BY <3>1
    <3>3. Len(Tail(x)) = Len(x) - 1
      BY <3>1
    <3> QED BY <3>2, <3>3 DEF T
  <2>3. Len(Tail(x)) = 0 => Tail(x) = <<>>
    <3> DEFINE y == Tail(x)
               T == Types
    <3>1. y \in Seq(T)
      BY <2>2
    <3> HIDE DEF y, T
    <3>2. Len(y) = 0 => y = <<>>
      BY <3>1
    <3> QED BY <3>2 DEF y
  <2> QED BY <2>2, <2>3 DEF x
<1>5. f1 \in Frames /\ FewCalls(f1) /\ f1.lev = l - 1
  <2>1. f1 \in Frames /\ FewCalls(f1)
    BY <1>3, <1>4, CallsAreTyped
  <2> QED BY <2>1 DEF Frame
<1>6. FewCalls(s[1])
  BY <1>2 DEF Sound
<1>7. f2 \in Frames /\ FewCalls(f2) /\ LastCall(f2) /\ f2.lev = l
  <2>1. f2 \in Frames
    BY <1>2, <1>4 DEF Frames
  <2>2. (~Repeats(l) => Len(CallsOf(c)) <= 1) /\ (l = BaseLevel => CallsOf(c) = <<>>)
    BY <1>6, <1>2 DEF FewCalls
  <2>3. ~Repeats(l) => Tail(CallsOf(c)) = <<>>
    BY <2>2, <1>2, <1>4
  <2> QED BY <2>1, <2>2, <2>3, <1>3, <1>4 DEF FewCalls, LastCall
<1>8. d.at = EntryOf(l - 1) /\ d.stack = <<f1, f2>> \o Tail(s) /\ d.nu = 0
      /\ d.made = c.made /\ d.reset = c.reset
  BY ContinuedHas, OneWay DEF NextAt, NextStack, NextNu, NextMade, NextReset
<1> HIDE DEF d, f1, f2
<1>9. /\ d.stack \in Seq(Frames) /\ Len(d.stack) = Len(s) + 1
      /\ d.stack[1] = f1 /\ d.stack[2] = f2
      /\ \A i \in 3 .. Len(s) + 1 : d.stack[i] = s[i - 1]
  BY <1>8, <1>1, <1>2, <1>5, <1>7
<1>10. Top(d) = l - 1 /\ d.stack # <<>>
  BY <1>9, <1>5, <1>2 DEF Top
<1>11. Nested(d.stack)
  <2>1. \A i \in 3 .. Len(s) + 1 : s[i - 1].lev = TopLevel - Len(s) + (i - 1)
    BY <1>1, <1>2 DEF Nested
  <2>2. TopLevel - (Len(s) + 1) + 1 = l - 1 /\ TopLevel - (Len(s) + 1) + 2 = l
    BY <1>2, LevelsAre
  <2>3. ASSUME NEW i \in 1 .. Len(s) + 1
        PROVE  d.stack[i].lev = TopLevel - (Len(s) + 1) + i
    <3> DEFINE k == Len(s)
    <3>1. TopLevel \in Nat /\ k \in Nat /\ i \in 1 .. k + 1
      BY <1>2, LevelsAre
    <3>2. CASE i = 1
      BY <3>2, <2>2, <1>9, <1>5
    <3>3. CASE i = 2
      BY <3>3, <2>2, <1>9, <1>7
    <3>4. CASE i \in 3 .. Len(s) + 1
      <4>1. d.stack[i].lev = TopLevel - Len(s) + (i - 1)
        BY <3>4, <2>1, <1>9
      <4>2. d.stack[i].lev = TopLevel - k + (i - 1)
        BY <4>1
      <4> HIDE DEF k
      <4>3. TopLevel - k + (i - 1) = TopLevel - (k + 1) + i
        BY <3>1
      <4> QED BY <4>2, <4>3 DEF k
    <3>5. i = 1 \/ i = 2 \/ i \in 3 .. k + 1
      <4> HIDE DEF k
      <4> QED BY <3>1
    <3> QED BY <3>5, <3>2, <3>3, <3>4
  <2> QED BY <2>3, <1>9 DEF Nested
<1>12. \A i \in 1 .. Len(d.stack) : FewCalls(d.stack[i])
  <2>1. \A i \in 1 .. Len(s) : FewCalls(s[i])
    BY DEF Sound
  <2>2. \A i \in 3 .. Len(s) + 1 : i - 1 \in 1 .. Len(s)
    BY <1>2
  <2>3. \A i \in 3 .. Len(s) + 1 : FewCalls(d.stack[i])
    BY <2>1, <2>2, <1>9
  <2> QED BY <2>3, <1>9, <1>5, <1>7, <1>2
<1>13. \A i \in 2 .. Len(d.stack) : LastCall(d.stack[i])
  <2>1. \A i \in 2 .. Len(s) : LastCall(s[i])
    BY DEF Sound
  <2>2. \A i \in 3 .. Len(s) + 1 : i - 1 \in 2 .. Len(s)
    BY <1>2
  <2>3. \A i \in 3 .. Len(s) + 1 : LastCall(d.stack[i])
    BY <2>1, <2>2, <1>9
  <2> QED BY <2>3, <1>9, <1>7, <1>2
<1>14. (d.at = "base" /\ l - 1 = BaseLevel) \/ (d.at = "presmooth" /\ l - 1 > BaseLevel)
  BY <1>8, <1>3 DEF EntryOf
<1>15. ~Descends(d)
  BY <1>14 DEF Descends
<1>16. Sound(d)
  BY <1>1, <1>8, <1>9, <1>10, <1>11, <1>12, <1>13, <1>14, <1>15, LevelsAre DEF Sound, Places
<1> QED BY <1>16 DEF d

\* The stack when lmgc() returns.
LEMMA ReturningIsSound ==
  ASSUME NEW c, Sound(c), Returns(c)
  PROVE  Sound(Continued(c))
<1> DEFINE s == c.stack
           d == Continued(c)
<1>1. s # <<>> /\ c.at \in {"postsmooth", "correction"} /\ c.nu \in Nat
      /\ c.made \in [Levels -> Nat] /\ c.reset \in [Levels -> Nat] /\ c.reset[TopLevel] = 0
      /\ (\A k \in Levels : c.reset[k] <= c.made[k])
      /\ s \in Seq(Frames) /\ Nested(s)
      /\ (c.at = "postsmooth" => Top(c) > BaseLevel)
  BY DEF Sound, Returns
<1>2. Top(c) \in Levels /\ Len(s) \in Nat /\ Len(s) >= 1 /\ Top(c) = TopLevel - Len(s) + 1
  BY <1>1, TopFrame
<1>3. d.at = (IF Len(s) = 1 THEN "finish" ELSE "coarse") /\ d.stack = Tail(s) /\ d.nu = c.nu
      /\ d.made = NextMade(c) /\ d.reset = c.reset
  BY <1>1, ContinuedHas, OneWay DEF NextAt, NextStack, NextNu, NextReset, Restricts, Descends, Prolongates, Smooths, Returns
<1>4. d.made \in [Levels -> Nat] /\ \A k \in Levels : d.reset[k] <= d.made[k]
  <2>1. CASE d.made = c.made
    BY <2>1, <1>1, <1>3
  <2>2. CASE d.made = OneMore(c.made, Top(c))
    <3> DEFINE f == c.made
               g == c.reset
    <3>1. f \in [Levels -> Nat] /\ g \in [Levels -> Nat] /\ \A k \in Levels : g[k] <= f[k]
      BY <1>1
    <3>2. d.made = OneMore(f, Top(c)) /\ d.reset = g
      BY <2>2, <1>3
    <3> HIDE DEF f, g, d
    <3>3. OneMore(f, Top(c)) \in [Levels -> Nat] /\ \A k \in Levels : f[k] <= OneMore(f, Top(c))[k]
      BY <3>1, <1>2, OneMoreIs
    <3> QED BY <3>1, <3>2, <3>3
  <2> QED BY <2>1, <2>2, <1>3 DEF NextMade
<1> HIDE DEF d
<1>5. /\ d.stack \in Seq(Frames) /\ Len(d.stack) = Len(s) - 1
      /\ \A i \in 1 .. Len(s) - 1 : d.stack[i] = s[i + 1]
      /\ d.stack = <<>> <=> Len(s) = 1
  <2> HIDE DEF s
  <2>1. Tail(s) \in Seq(Frames) /\ Len(Tail(s)) = Len(s) - 1
        /\ \A i \in 1 .. Len(s) - 1 : Tail(s)[i] = s[i + 1]
    BY <1>1, <1>2
  <2>2. Tail(s) = <<>> <=> Len(Tail(s)) = 0
    BY <2>1
  <2> QED BY <2>1, <2>2, <1>2, <1>3
<1>6. Nested(d.stack)
  <2>1. \A i \in 1 .. Len(s) - 1 : s[i + 1].lev = TopLevel - Len(s) + (i + 1)
    BY <1>1, <1>2 DEF Nested
  <2>2. TopLevel \in Nat
    BY LevelsAre
  <2>3. \A i \in 1 .. Len(s) - 1 : TopLevel - Len(s) + (i + 1) = TopLevel - (Len(s) - 1) + i
    BY <2>2, <1>2
  <2> HIDE DEF s
  <2> QED BY <2>1, <2>3, <1>5 DEF Nested
<1>7. \A i \in 1 .. Len(s) - 1 : LastCall(d.stack[i])
  <2>1. \A i \in 2 .. Len(s) : LastCall(s[i])
    BY DEF Sound
  <2>2. \A i \in 1 .. Len(s) - 1 : i + 1 \in 2 .. Len(s)
    BY <1>2
  <2> QED BY <2>1, <2>2, <1>5
<1>8. \A i \in 1 .. Len(s) - 1 : FewCalls(d.stack[i])
  <2>1. \A i \in 1 .. Len(s) : FewCalls(s[i])
    BY DEF Sound
  <2>2. \A i \in 1 .. Len(s) - 1 : i + 1 \in 1 .. Len(s)
    BY <1>2
  <2> QED BY <2>1, <2>2, <1>5
<1>9. \A i \in 2 .. Len(s) - 1 : i \in 1 .. Len(s) - 1
  BY <1>2
<1>10. d.at = "coarse" => /\ d.stack # <<>>
                          /\ Top(d) = Top(c) + 1 /\ Top(d) > BaseLevel
                          /\ Top(d) - 1 = BaseLevel => CallsOf(d) = <<>>
  <2>1. SUFFICES ASSUME Len(s) # 1
                 PROVE  /\ d.stack # <<>>
                        /\ Top(d) = Top(c) + 1 /\ Top(d) > BaseLevel
                        /\ Top(d) - 1 = BaseLevel => CallsOf(d) = <<>>
    BY <1>3
  <2>2. d.stack # <<>> /\ Head(d.stack) = d.stack[1] /\ 1 \in 1 .. Len(s) - 1
    BY <2>1, <1>5, <1>2
  <2>3. Top(d) = TopLevel - Len(d.stack) + 1
    BY <2>2, <1>5, <1>6 DEF Nested, Top
  <2>4. Top(d) = Top(c) + 1 /\ Top(d) > BaseLevel
    <3> DEFINE l == Top(c)
    <3>1. TopLevel \in Nat /\ BaseLevel \in Nat /\ l \in Nat /\ BaseLevel <= l
      BY <1>2, LevelsAre
    <3> DEFINE k == Len(s)
    <3>2. Top(d) = TopLevel - (k - 1) + 1 /\ l = TopLevel - k + 1 /\ k \in Nat
      BY <2>3, <1>5, <1>2
    <3> HIDE DEF l, k
    <3>3. TopLevel - (k - 1) + 1 = (TopLevel - k + 1) + 1
      BY <3>1, <3>2
    <3>4. l + 1 > BaseLevel
      BY <3>1
    <3>5. Top(d) = l + 1
      BY <3>2, <3>3
    <3> QED BY <3>4, <3>5 DEF l
  <2>5. Top(d) - 1 = BaseLevel => CallsOf(d) = <<>>
    BY <2>2, <1>7 DEF LastCall, Repeats, CallsOf, Top
  <2> QED BY <2>2, <2>4, <2>5
<1>11. Descends(d) /\ Top(d) - 1 = BaseLevel => FALSE
  BY <1>10 DEF Descends
<1>12. d.at = IF Len(s) = 1 THEN "finish" ELSE "coarse"
  BY <1>3
<1>13. Sound(d)
  BY <1>1, <1>2, <1>3, <1>4, <1>5, <1>6, <1>7, <1>8, <1>9, <1>10, <1>11, <1>12 DEF Sound, Places
<1> QED BY <1>13 DEF d

\* Where the recursion goes on from a sound place is a sound place.
LEMMA ContinuedIsSound ==
  ASSUME NEW c, Sound(c)
  PROVE  Sound(Continued(c))
  BY SomeWay, SmoothedIsSound, RestrictedIsSound, ProlongatedIsSound, GatheredIsSound,
     CallingIsSound, ReturningIsSound DEF Ways

-----------------------------------------------------------------------------
(* Messages.                                                               *)

\* Where the defects of revisited levels are those of all that was computed: Return
\* leaves the last correction out on levels without surface dofs, which matters
\* when another call for that level follows.
UpToDate == CycleType = V \/ Observed \/ \A p \in Procs : FullRefLevel[p] <= BaseLevel + 1

\* Every process decides alone whether it gathers: that all with a common v-master
\* decide alike is not checked by the code.
GatherAlike == \A p \in Procs : Gathers(p) <=> Gathers(VMaster[BaseLevel][p])

\* They do if the base solver is to gather whenever it can, or is parallel: only a
\* serial solver that is to gather when it must leaves the choice to the interfaces.
LEMMA WhoGathersAlike ==
  ASSUME GatheredIfAmbiguous \/ ParallelBase
  PROVE  GatherAlike
<1> SUFFICES ASSUME NEW p \in Procs, NEW q, q = VMaster[BaseLevel][p]
             PROVE  Gathers(p) <=> Gathers(q)
  BY DEF GatherAlike
<1>1. q \in Procs /\ VMaster[BaseLevel][q] = q
  BY LevelsAre, CycleAssumption DEF Levels
<1>2. Vertical(p, BaseLevel) <=> Vertical(q, BaseLevel)
  BY <1>1 DEF Vertical, IsSlave, Slaves
<1> QED BY <1>2 DEF Gathers

\* At place c of the recursion q gives p a message ...
Gives(q, p, c) ==
  /\ q # p
  /\ \/ /\ Restricts(c) \/ (c.at = "base" /\ Gathers(q))
        /\ VMaster[Top(c)][q] = p
     \/ /\ Prolongates(c) \/ (c.at = "correction" /\ Gathers(p))
        /\ VMaster[Top(c)][p] = q

\* ... of this kind and with this in it.
KindAt(c) == IF c.at \in {"presmooth", "base"} THEN "defect" ELSE "correction"
BodyAt(c) == IF KindAt(c) = "defect" THEN Once(c.reset[Top(c)] + 1, c.made[Top(c)])
             ELSE IF c.at = "coarse" THEN Once(c.reset[Top(c) - 1] + 1, c.made[Top(c) - 1])
             ELSE SetToBag({c.made[Top(c)] + 1})

Fits(m, c) == /\ m.lev = Top(c) /\ m.kind = KindAt(c)
              /\ UpToDate \/ m.kind = "correction" => m.body = BodyAt(c)

\* ch are the messages q gives p at the places number lo and on, before hi.
Indexed(ch, q, p, hi, lo, H, idx) ==
  /\ idx \in [1 .. Len(ch) -> Nat]
  /\ \A i, j \in 1 .. Len(ch) : i < j => idx[i] < idx[j]
  /\ \A i \in 1 .. Len(ch) :
       lo <= idx[i] /\ idx[i] < hi /\ Gives(q, p, H[idx[i]]) /\ Fits(ch[i], H[idx[i]])
  /\ \A n \in Nat : lo <= n /\ n < hi /\ Gives(q, p, H[n]) => \E i \in 1 .. Len(ch) : idx[i] = n

Carries(ch, q, p, hi, lo, H) ==
  /\ \E S : ch \in Seq(S)
  /\ \E idx : Indexed(ch, q, p, hi, lo, H, idx)
  /\ \A n \in Nat : hi <= n /\ n < lo => ~Gives(q, p, H[n])

LEMMA SeqOfMore ==
  ASSUME NEW S, NEW s \in Seq(S), NEW m
  PROVE  /\ s \in Seq(S \cup {m}) /\ Append(s, m) \in Seq(S \cup {m})
         /\ Len(Append(s, m)) = Len(s) + 1 /\ Len(s) \in Nat
         /\ \A i \in 1 .. Len(s) : Append(s, m)[i] = s[i]
         /\ Append(s, m)[Len(s) + 1] = m
<1> DEFINE U == S \cup {m}
<1>1. s \in Seq(U)
  <2>1. s = [i \in 1 .. Len(s) |-> s[i]] /\ Len(s) \in Nat /\ \A i \in 1 .. Len(s) : s[i] \in U
    OBVIOUS
  <2> HIDE DEF U
  <2>2. [i \in 1 .. Len(s) |-> s[i]] \in Seq(U)
    BY <2>1
  <2> QED BY <2>1, <2>2
<1>2. m \in U
  OBVIOUS
<1> HIDE DEF U
<1>3. Append(s, m) \in Seq(U) /\ Len(Append(s, m)) = Len(s) + 1 /\ Len(s) \in Nat
  BY <1>1, <1>2
<1>4. (\A i \in 1 .. Len(s) : Append(s, m)[i] = s[i]) /\ Append(s, m)[Len(s) + 1] = m
  BY <1>1, <1>2
<1> QED BY <1>1, <1>3, <1>4 DEF U

LEMMA GivesOne ==
  ASSUME NEW ch, NEW q, NEW p, NEW H, NEW hi \in Nat, NEW lo \in Nat,
         Carries(ch, q, p, hi, lo, H), Gives(q, p, H[hi]), NEW m, Fits(m, H[hi])
  PROVE  Carries(Append(ch, m), q, p, hi + 1, lo, H)
<1>1. PICK S : ch \in Seq(S)
  BY DEF Carries
<1>2. PICK idx : Indexed(ch, q, p, hi, lo, H, idx)
  BY DEF Carries
<1>3. lo <= hi
  BY DEF Carries
<1> DEFINE c2 == Append(ch, m)
           n == Len(ch)
           idx2 == [i \in 1 .. n + 1 |-> IF i = n + 1 THEN hi ELSE idx[i]]
<1>4. /\ c2 \in Seq(S \cup {m}) /\ Len(c2) = n + 1 /\ n \in Nat /\ c2[n + 1] = m
      /\ \A i \in 1 .. n : c2[i] = ch[i]
  BY <1>1, SeqOfMore
<1>5. /\ idx \in [1 .. n -> Nat] /\ \A i, j \in 1 .. n : i < j => idx[i] < idx[j]
      /\ \A i \in 1 .. n :
           lo <= idx[i] /\ idx[i] < hi /\ Gives(q, p, H[idx[i]]) /\ Fits(ch[i], H[idx[i]])
      /\ \A k \in Nat : lo <= k /\ k < hi /\ Gives(q, p, H[k]) => \E i \in 1 .. n : idx[i] = k
  BY <1>2 DEF Indexed
<1> HIDE DEF c2, n
<1>6. /\ idx2 \in [1 .. n + 1 -> Nat] /\ idx2[n + 1] = hi
      /\ \A i \in 1 .. n : idx2[i] = idx[i] /\ i # n + 1
  BY <1>4, <1>5
<1>7. \A i \in 1 .. n + 1 : i \in 1 .. n \/ i = n + 1
  BY <1>4
<1> HIDE DEF idx2
<1>8. \A i, j \in 1 .. n + 1 : i < j => idx2[i] < idx2[j]
  <2> SUFFICES ASSUME NEW i \in 1 .. n + 1, NEW j \in 1 .. n + 1, i < j
               PROVE  idx2[i] < idx2[j]
    OBVIOUS
  <2>1. i \in 1 .. n
    BY <1>4
  <2> QED BY <2>1, <1>5, <1>6, <1>7
<1>9. \A i \in 1 .. n + 1 :
        lo <= idx2[i] /\ idx2[i] < hi + 1 /\ Gives(q, p, H[idx2[i]]) /\ Fits(c2[i], H[idx2[i]])
  <2> SUFFICES ASSUME NEW i \in 1 .. n + 1
               PROVE  /\ lo <= idx2[i] /\ idx2[i] < hi + 1
                      /\ Gives(q, p, H[idx2[i]]) /\ Fits(c2[i], H[idx2[i]])
    OBVIOUS
  <2>1. CASE i = n + 1
    BY <2>1, <1>3, <1>4, <1>6
  <2>2. CASE i \in 1 .. n
    <3>1. lo <= idx[i] /\ idx[i] < hi /\ idx[i] \in Nat
          /\ Gives(q, p, H[idx[i]]) /\ Fits(ch[i], H[idx[i]])
      BY <2>2, <1>5
    <3> QED BY <3>1, <2>2, <1>4, <1>6
  <2> QED BY <2>1, <2>2, <1>7
<1>10. ASSUME NEW k \in Nat, lo <= k, k < hi + 1, Gives(q, p, H[k])
       PROVE  \E i \in 1 .. n + 1 : idx2[i] = k
  <2>1. CASE k = hi
    BY <2>1, <1>4, <1>6
  <2>2. CASE k < hi
    <3>1. PICK i \in 1 .. n : idx[i] = k
      BY <2>2, <1>5, <1>10
    <3> QED BY <3>1, <1>4, <1>6
  <2> QED BY <2>1, <2>2, <1>10
<1>11. Indexed(c2, q, p, hi + 1, lo, H, idx2)
  BY <1>4, <1>6, <1>8, <1>9, <1>10 DEF Indexed
<1>12. Carries(c2, q, p, hi + 1, lo, H)
  BY <1>4, <1>11, <1>3 DEF Carries
<1> QED BY <1>12 DEF c2

LEMMA GivesNone ==
  ASSUME NEW ch, NEW q, NEW p, NEW H, NEW hi \in Nat, NEW lo \in Nat,
         Carries(ch, q, p, hi, lo, H), ~Gives(q, p, H[hi])
  PROVE  Carries(ch, q, p, hi + 1, lo, H)
<1>1. PICK idx : Indexed(ch, q, p, hi, lo, H, idx)
  BY DEF Carries
<1>2. Indexed(ch, q, p, hi + 1, lo, H, idx)
  <2>1. \A k \in Nat : k < hi + 1 => k < hi \/ k = hi
    OBVIOUS
  <2>2. \A k \in Nat : k < hi => k < hi + 1
    OBVIOUS
  <2> QED BY <2>1, <2>2, <1>1 DEF Indexed
<1> QED BY <1>2 DEF Carries

LEMMA TakesNone ==
  ASSUME NEW ch, NEW q, NEW p, NEW H, NEW hi \in Nat, NEW lo \in Nat,
         Carries(ch, q, p, hi, lo, H), ~Gives(q, p, H[lo])
  PROVE  Carries(ch, q, p, hi, lo + 1, H)
<1>1. PICK idx : Indexed(ch, q, p, hi, lo, H, idx)
  BY DEF Carries
<1>2. Indexed(ch, q, p, hi, lo + 1, H, idx)
  <2>1. \A k \in Nat : lo + 1 <= k => lo <= k
    OBVIOUS
  <2>2. \A i \in 1 .. Len(ch) : idx[i] \in Nat /\ lo <= idx[i] /\ idx[i] # lo
    BY <1>1 DEF Indexed
  <2>3. \A i \in 1 .. Len(ch) : lo + 1 <= idx[i]
    BY <2>2
  <2> QED BY <2>1, <2>3, <1>1 DEF Indexed
<1>3. \A n \in Nat : hi <= n /\ n < lo + 1 => ~Gives(q, p, H[n])
  <2>1. \A n \in Nat : n < lo + 1 => n < lo \/ n = lo
    OBVIOUS
  <2> QED BY <2>1 DEF Carries
<1> QED BY <1>2, <1>3 DEF Carries

LEMMA TakesOne ==
  ASSUME NEW ch, NEW q, NEW p, NEW H, NEW hi \in Nat, NEW lo \in Nat,
         Carries(ch, q, p, hi, lo, H), Gives(q, p, H[lo]), ch # <<>>
  PROVE  Fits(Head(ch), H[lo]) /\ Carries(Tail(ch), q, p, hi, lo + 1, H)
<1>1. PICK S : ch \in Seq(S)
  BY DEF Carries
<1>2. PICK idx : Indexed(ch, q, p, hi, lo, H, idx)
  BY DEF Carries
<1> DEFINE n == Len(ch)
           c2 == Tail(ch)
           idx2 == [i \in 1 .. n - 1 |-> idx[i + 1]]
<1>3. n \in Nat /\ n >= 1 /\ c2 \in Seq(S) /\ Len(c2) = n - 1 /\ Head(ch) = ch[1]
      /\ \A i \in 1 .. n - 1 : c2[i] = ch[i + 1]
  BY <1>1
<1>4. /\ idx \in [1 .. n -> Nat] /\ \A i, j \in 1 .. n : i < j => idx[i] < idx[j]
      /\ \A i \in 1 .. n :
           lo <= idx[i] /\ idx[i] < hi /\ Gives(q, p, H[idx[i]]) /\ Fits(ch[i], H[idx[i]])
      /\ \A k \in Nat : lo <= k /\ k < hi /\ Gives(q, p, H[k]) => \E i \in 1 .. n : idx[i] = k
  BY <1>2 DEF Indexed
<1> HIDE DEF n, c2
<1>5. 1 \in 1 .. n /\ (\A i \in 1 .. n : i = 1 \/ (1 < i /\ i - 1 \in 1 .. n - 1))
      /\ \A i \in 1 .. n - 1 : i + 1 \in 1 .. n /\ 1 < i + 1
  BY <1>3
<1>6. idx[1] = lo /\ lo < hi
  <2>1. idx[1] \in Nat /\ lo <= idx[1] /\ idx[1] < hi
    BY <1>4, <1>5
  <2>2. lo < hi
    BY <2>1
  <2>3. PICK i \in 1 .. n : idx[i] = lo
    BY <2>2, <1>4
  <2>4. i # 1 => idx[1] < idx[i]
    BY <1>4, <1>5
  <2> QED BY <2>1, <2>2, <2>3, <2>4
<1>7. Fits(Head(ch), H[lo])
  BY <1>3, <1>4, <1>5, <1>6
<1>8. idx2 \in [1 .. n - 1 -> Nat] /\ \A i \in 1 .. n - 1 : idx2[i] = idx[i + 1]
  BY <1>4, <1>5
<1> HIDE DEF idx2
<1>9. \A i, j \in 1 .. n - 1 : i < j => idx2[i] < idx2[j]
  <2>1. \A i, j \in 1 .. n - 1 : i < j => i + 1 < j + 1
    OBVIOUS
  <2> QED BY <2>1, <1>4, <1>5, <1>8
<1>10. ASSUME NEW i \in 1 .. n - 1
       PROVE  /\ lo + 1 <= idx2[i] /\ idx2[i] < hi
              /\ Gives(q, p, H[idx2[i]]) /\ Fits(c2[i], H[idx2[i]])
  <2>1. i + 1 \in 1 .. n /\ idx2[i] = idx[i + 1] /\ c2[i] = ch[i + 1]
    BY <1>3, <1>5, <1>8
  <2>2. idx[1] < idx[i + 1] /\ idx[i + 1] \in Nat
    BY <2>1, <1>4, <1>5
  <2>3. lo + 1 <= idx[i + 1]
    BY <2>2, <1>6
  <2> QED BY <2>1, <2>3, <1>4
<1>11. ASSUME NEW k \in Nat, lo + 1 <= k, k < hi, Gives(q, p, H[k])
       PROVE  \E i \in 1 .. n - 1 : idx2[i] = k
  <2>1. PICK i \in 1 .. n : idx[i] = k
    BY <1>11, <1>4
  <2>2. i # 1
    BY <2>1, <1>11, <1>6
  <2>3. i - 1 \in 1 .. n - 1 /\ (i - 1) + 1 = i
    BY <2>2, <1>5
  <2> QED BY <2>1, <2>3, <1>8
<1>12. Indexed(c2, q, p, hi, lo + 1, H, idx2)
  BY <1>3, <1>8, <1>9, <1>10, <1>11 DEF Indexed
<1>13. \A k \in Nat : ~(hi <= k /\ k < lo + 1)
  BY <1>6
<1>14. Carries(c2, q, p, hi, lo + 1, H)
  BY <1>3, <1>12, <1>13 DEF Carries
<1> QED BY <1>7, <1>14 DEF c2

\* What is on its way between all processes, lo and hi being how far they are.
AllCarry(ch, hi, lo, H) ==
  /\ ch = [q \in Procs |-> [p \in Procs |-> ch[q][p]]]
  /\ hi \in [Procs -> Nat] /\ lo \in [Procs -> Nat]
  /\ \A q, p \in Procs : Carries(ch[q][p], q, p, hi[q], lo[p], H)

\* p gives m, or takes, what it has to at its place c.
Given(ch, p, c, m, ch2) ==
  /\ (\E r \in Procs : Gives(p, r, c)) => Fits(m, c)
  /\ ch2 = [ch EXCEPT ![p] = [r \in Procs |-> IF Gives(p, r, c) THEN Append(@[r], m) ELSE @[r]]]
Taken(ch, p, c, ch2) ==
  /\ \A q \in Procs : Gives(q, p, c) => ch[q][p] # <<>>
  /\ ch2 = [q \in Procs |-> [ch[q] EXCEPT ![p] = IF Gives(q, p, c) THEN Tail(@) ELSE @]]

\* p gives what it has to give at its place,
LEMMA AllGive ==
  ASSUME NEW ch, NEW hi, NEW lo, NEW H, AllCarry(ch, hi, lo, H), NEW p \in Procs,
         NEW hi2, hi2 = [hi EXCEPT ![p] = @ + 1],
         NEW m, NEW ch2, Given(ch, p, H[hi[p]], m, ch2)
  PROVE  AllCarry(ch2, hi2, lo, H)
<1>1. hi \in [Procs -> Nat] /\ lo \in [Procs -> Nat]
      /\ ch = [q \in Procs |-> [r \in Procs |-> ch[q][r]]]
      /\ \A q, r \in Procs : Carries(ch[q][r], q, r, hi[q], lo[r], H)
  BY DEF AllCarry
<1>2. hi2 \in [Procs -> Nat] /\ hi2[p] = hi[p] + 1 /\ \A q \in Procs : q # p => hi2[q] = hi[q]
  BY <1>1
<1>3. /\ ch2 = [q \in Procs |-> [r \in Procs |-> ch2[q][r]]]
      /\ \A q, r \in Procs : q # p => ch2[q][r] = ch[q][r]
      /\ \A r \in Procs : ch2[p][r] = IF Gives(p, r, H[hi[p]]) THEN Append(ch[p][r], m)
                                      ELSE ch[p][r]
  BY <1>1 DEF Given
<1>4. ASSUME NEW q \in Procs, NEW r \in Procs
      PROVE  Carries(ch2[q][r], q, r, hi2[q], lo[r], H)
  <2>1. CASE q # p
    BY <2>1, <1>1, <1>2, <1>3
  <2>2. CASE q = p
    <3>1. Carries(ch[p][r], p, r, hi[p], lo[r], H) /\ hi[p] \in Nat /\ lo[r] \in Nat
      BY <1>1
    <3>2. CASE Gives(p, r, H[hi[p]])
      <4>1. Fits(m, H[hi[p]])
        BY <3>2 DEF Given
      <4> QED BY <4>1, <3>1, <3>2, <2>2, <1>2, <1>3, GivesOne
    <3>3. CASE ~Gives(p, r, H[hi[p]])
      BY <3>1, <3>3, <2>2, <1>2, <1>3, GivesNone
    <3> QED BY <3>2, <3>3
  <2> QED BY <2>1, <2>2
<1> QED BY <1>1, <1>2, <1>3, <1>4 DEF AllCarry

\* ... nothing,
LEMMA NoneGive ==
  ASSUME NEW ch, NEW hi, NEW lo, NEW H, AllCarry(ch, hi, lo, H), NEW p \in Procs,
         \A r \in Procs : ~Gives(p, r, H[hi[p]]),
         NEW hi2, hi2 = [hi EXCEPT ![p] = @ + 1]
  PROVE  AllCarry(ch, hi2, lo, H)
<1>1. hi \in [Procs -> Nat] /\ lo \in [Procs -> Nat]
      /\ ch = [q \in Procs |-> [r \in Procs |-> ch[q][r]]]
      /\ \A q, r \in Procs : Carries(ch[q][r], q, r, hi[q], lo[r], H)
  BY DEF AllCarry
<1>2. hi2 \in [Procs -> Nat] /\ hi2[p] = hi[p] + 1 /\ \A q \in Procs : q # p => hi2[q] = hi[q]
  BY <1>1
<1>3. ASSUME NEW q \in Procs, NEW r \in Procs
      PROVE  Carries(ch[q][r], q, r, hi2[q], lo[r], H)
  <2>1. Carries(ch[q][r], q, r, hi[q], lo[r], H) /\ hi[q] \in Nat /\ lo[r] \in Nat
    BY <1>1
  <2> QED BY <2>1, <1>2, GivesNone
<1> QED BY <1>1, <1>2, <1>3 DEF AllCarry

\* takes what it is given there,
LEMMA AllTake ==
  ASSUME NEW ch, NEW hi, NEW lo, NEW H, AllCarry(ch, hi, lo, H), NEW p \in Procs,
         NEW lo2, lo2 = [lo EXCEPT ![p] = @ + 1],
         NEW ch2, Taken(ch, p, H[lo[p]], ch2)
  PROVE  AllCarry(ch2, hi, lo2, H)
<1>1. hi \in [Procs -> Nat] /\ lo \in [Procs -> Nat]
      /\ ch = [q \in Procs |-> [r \in Procs |-> ch[q][r]]]
      /\ \A q, r \in Procs : Carries(ch[q][r], q, r, hi[q], lo[r], H)
  BY DEF AllCarry
<1>2. lo2 \in [Procs -> Nat] /\ lo2[p] = lo[p] + 1 /\ \A q \in Procs : q # p => lo2[q] = lo[q]
  BY <1>1
<1>3. /\ ch2 = [q \in Procs |-> [r \in Procs |-> ch2[q][r]]]
      /\ \A q, r \in Procs : r # p => ch2[q][r] = ch[q][r]
      /\ \A q \in Procs : ch2[q][p] = IF Gives(q, p, H[lo[p]]) THEN Tail(ch[q][p]) ELSE ch[q][p]
  BY <1>1 DEF Taken
<1>4. ASSUME NEW q \in Procs, NEW r \in Procs
      PROVE  Carries(ch2[q][r], q, r, hi[q], lo2[r], H)
  <2>1. CASE r # p
    BY <2>1, <1>1, <1>2, <1>3
  <2>2. CASE r = p
    <3>1. Carries(ch[q][p], q, p, hi[q], lo[p], H) /\ hi[q] \in Nat /\ lo[p] \in Nat
      BY <1>1
    <3>2. CASE Gives(q, p, H[lo[p]])
      BY <3>1, <3>2, <2>2, <1>2, <1>3, TakesOne DEF Taken
    <3>3. CASE ~Gives(q, p, H[lo[p]])
      BY <3>1, <3>3, <2>2, <1>2, <1>3, TakesNone
    <3> QED BY <3>2, <3>3
  <2> QED BY <2>1, <2>2
<1> QED BY <1>1, <1>2, <1>3, <1>4 DEF AllCarry

\* or nothing.
LEMMA NoneTake ==
  ASSUME NEW ch, NEW hi, NEW lo, NEW H, AllCarry(ch, hi, lo, H), NEW p \in Procs,
         \A q \in Procs : ~Gives(q, p, H[lo[p]]),
         NEW lo2, lo2 = [lo EXCEPT ![p] = @ + 1]
  PROVE  AllCarry(ch, hi, lo2, H)
<1>1. hi \in [Procs -> Nat] /\ lo \in [Procs -> Nat]
      /\ ch = [q \in Procs |-> [r \in Procs |-> ch[q][r]]]
      /\ \A q, r \in Procs : Carries(ch[q][r], q, r, hi[q], lo[r], H)
  BY DEF AllCarry
<1>2. lo2 \in [Procs -> Nat] /\ lo2[p] = lo[p] + 1 /\ \A q \in Procs : q # p => lo2[q] = lo[q]
  BY <1>1
<1>3. ASSUME NEW q \in Procs, NEW r \in Procs
      PROVE  Carries(ch[q][r], q, r, hi[q], lo2[r], H)
  <2>1. Carries(ch[q][r], q, r, hi[q], lo[r], H) /\ hi[q] \in Nat /\ lo[r] \in Nat
    BY <1>1
  <2> QED BY <2>1, <1>2, TakesNone
<1> QED BY <1>1, <1>2, <1>3 DEF AllCarry

-----------------------------------------------------------------------------
(* The state of a process at a place.                                      *)

\* How far it is with a restriction.
HasSent(p) == pc[p] \in {"reset", "wait", "restrict"}
HasReset(p) == pc[p] = "restrict" \/ (pc[p] = "wait" /\ Overlap)
HasWaited(p) == pc[p] = "restrict" \/ (pc[p] = "reset" /\ ~Overlap)

PlaceOf(p) == IF HasSent(p) THEN "presmooth" ELSE IF pc[p] = "solve" THEN "correction" ELSE pc[p]

At(p, c) ==
  /\ stack[p] = c.stack /\ nu[p] = c.nu /\ made[p] = c.made
  /\ reset[p] = IF HasReset(p) THEN NextReset(c) ELSE c.reset
  /\ PlaceOf(p) = c.at
  /\ HasSent(p) => Restricts(c)

IsField(v) == v = [p \in Procs |-> v[p]]
IsVector(v) == v = [p \in Procs |-> [l \in Levels |-> v[p][l]]]

Shapes ==
  /\ IsField(pc) /\ IsField(stack) /\ IsField(nu)
  /\ made \in [Procs -> [Levels -> Nat]] /\ reset \in [Procs -> [Levels -> Nat]]
  /\ st \in [Procs -> [Levels -> Nat]]
  /\ IsVector(sc) /\ IsVector(covered) /\ IsVector(surface) /\ IsVector(t) /\ IsVector(pC)

-----------------------------------------------------------------------------
(* What a process has computed.                                            *)

SinceReset(p, l) == Once(reset[p][l] + 1, made[p][l])
ButLast(p, l) == Once(reset[p][l] + 1, made[p][l] - 1)

\* The last correction is computed but not yet added up, or not yet subtracted.
ToBeAdded(p, l) == /\ pc[p] \in {"presmooth", "reset", "wait"} /\ ~HasReset(p)
                   /\ l = Lev(p) /\ nu[p] = NumPreSmooth /\ NumPreSmooth > 0
ToBeSubtracted(p, l) == pc[p] = "postsmooth" /\ l = Lev(p)

CorrectionInv(p) ==
  \A l \in Levels :
    /\ sc[p][l] = IF ToBeAdded(p, l) THEN ButLast(p, l) ELSE SinceReset(p, l)
    /\ ToBeAdded(p, l) \/ ToBeSubtracted(p, l) =>
         st[p][l] = made[p][l] /\ reset[p][l] < made[p][l]

\* The levels whose defect will be read before it is restricted to again.
IsRead(p, l) == /\ pc[p] \notin {"finish", "done"}
                /\ \/ l >= Lev(p)
                   \/ pc[p] = "coarse" /\ l = Lev(p) - 1 /\ Head(stack[p]).calls # <<>>

DefectInv(p) ==
  \A l \in Levels :
    /\ UpToDate /\ IsRead(p, l) =>
         covered[p][l] = IF ToBeSubtracted(p, l) THEN ButLast(p, l) ELSE SinceReset(p, l)
    /\ l >= FullRefLevel[p] =>
         surface[p][l] = Once(1, IF ToBeSubtracted(p, l) THEN made[p][l] - 1 ELSE made[p][l])

Whole(p, l) == {[proc |-> q, minus |-> covered[p][l]] :
                  q \in IF IsSlave(p, l) THEN {} ELSE Group(p, l)}

GatherInv(p) ==
  /\ UpToDate /\ HasSent(p) =>
       t[p][Lev(p)] = IF HasWaited(p) THEN Whole(p, Lev(p))
                      ELSE IF IsSlave(p, Lev(p)) THEN {} ELSE {Part(p, Lev(p))}
  /\ UpToDate /\ pc[p] = "solve" => t[p][BaseLevel] = Whole(p, BaseLevel)
  /\ pc[p] = "solve" => Gathers(p) /\ ~IsSlave(p, BaseLevel)
  /\ pc[p] = "correction" => Gathers(p) /\ IsSlave(p, BaseLevel)

\* Level l is left behind: the next coarser correction is not yet prolongated to l + 1.
Pending(p, l) == /\ pc[p] \notin {"finish", "done"}
                 /\ l >= Lev(p) \/ (pc[p] = "coarse" /\ l = Lev(p) - 1)

SurfaceInv(p) ==
  \A l \in Levels :
    pC[p][l] = IF l < FullRefLevel[p] \/ (l = TopLevel /\ pc[p] # "done") THEN EmptyBag
               ELSE Once(1, IF Pending(p, l) THEN reset[p][l] ELSE made[p][l])

DataInv(p) == CorrectionInv(p) /\ DefectInv(p) /\ GatherInv(p) /\ SurfaceInv(p)

\* All that is known of a process at place c.
Known(p, c) == Shapes /\ Sound(c) /\ At(p, c) /\ DataInv(p)

LEMMA Here ==
  ASSUME NEW p \in Procs, NEW c, Known(p, c)
  PROVE  /\ made[p] \in [Levels -> Nat] /\ reset[p] \in [Levels -> Nat]
         /\ \A l \in Levels : reset[p][l] <= made[p][l]
         /\ Lev(p) = Top(c) /\ Head(stack[p]).calls = CallsOf(c)
         /\ pc[p] \notin {"finish", "done"} => /\ Top(c) \in Levels /\ Top(c) \in Nat
                                              /\ stack[p] # <<>>
         /\ pc[p] \in {"reset", "wait", "restrict", "presmooth", "coarse", "postsmooth"} =>
              Top(c) > BaseLevel /\ Top(c) - 1 \in Levels
         /\ pc[p] \in {"base", "solve", "correction"} =>
              Top(c) = BaseLevel /\ reset[p][BaseLevel] = made[p][BaseLevel]
         /\ nu[p] \in Nat /\ FullRefLevel[p] \in Levels
<1>1. /\ stack[p] = c.stack /\ nu[p] = c.nu /\ made[p] = c.made
      /\ reset[p] = IF HasReset(p) THEN NextReset(c) ELSE c.reset
      /\ PlaceOf(p) = c.at /\ (HasSent(p) => Restricts(c))
  BY DEF Known, At
<1>2. /\ c.made \in [Levels -> Nat] /\ c.reset \in [Levels -> Nat]
      /\ \A l \in Levels : c.reset[l] <= c.made[l]
  BY DEF Known, Sound
<1>3. Lev(p) = Top(c) /\ Head(stack[p]).calls = CallsOf(c)
  BY <1>1 DEF Lev, Top, CallsOf
<1>4. pc[p] \notin {"finish", "done"} => c.at \notin {"finish", "done"}
  BY <1>1 DEF PlaceOf
<1>5. pc[p] \notin {"finish", "done"} => /\ Top(c) \in Levels /\ Top(c) \in Nat
                                         /\ stack[p] # <<>>
  <2>1. pc[p] \notin {"finish", "done"} => c.stack # <<>>
    BY <1>4 DEF Known, Sound
  <2> QED BY <2>1, <1>1, TopFrame, LevelIs DEF Known
<1>6. pc[p] \in {"reset", "wait", "restrict", "presmooth", "coarse", "postsmooth"} =>
        Top(c) > BaseLevel /\ Top(c) - 1 \in Levels
  <2>1. pc[p] \in {"reset", "wait", "restrict", "presmooth", "coarse", "postsmooth"} =>
          c.at \in {"presmooth", "coarse", "postsmooth"}
    BY <1>1 DEF PlaceOf, HasSent
  <2>2. c.at \in {"presmooth", "coarse", "postsmooth"} => Top(c) > BaseLevel
    BY DEF Known, Sound
  <2> QED BY <2>1, <2>2, <1>5, LevelBelow
<1>7. made[p] \in [Levels -> Nat] /\ reset[p] \in [Levels -> Nat]
      /\ \A l \in Levels : reset[p][l] <= made[p][l]
  <2>1. CASE ~HasReset(p)
    BY <2>1, <1>1, <1>2
  <2>2. CASE HasReset(p)
    <3>1. Restricts(c) /\ Top(c) - 1 \in Levels
      BY <2>2, <1>1, <1>6 DEF HasReset, HasSent
    <3>2. reset[p] = [c.reset EXCEPT ![Top(c) - 1] = c.made[Top(c) - 1]]
      BY <2>2, <3>1, <1>1 DEF NextReset
    <3> DEFINE f == c.made
               g == c.reset
               h == reset[p]
               l == Top(c) - 1
    <3>3. f \in [Levels -> Nat] /\ g \in [Levels -> Nat] /\ h = [g EXCEPT ![l] = f[l]]
          /\ l \in Levels /\ \A k \in Levels : g[k] <= f[k]
      BY <1>2, <3>1, <3>2
    <3> HIDE DEF f, g, h, l
    <3>4. h \in [Levels -> Nat] /\ \A k \in Levels : h[k] <= f[k]
      BY <3>3, LevelsAre
    <3> QED BY <3>3, <3>4, <1>1 DEF f, h
  <2> QED BY <2>1, <2>2
<1>8. pc[p] \in {"base", "solve", "correction"} =>
         Top(c) = BaseLevel /\ reset[p][BaseLevel] = made[p][BaseLevel]
  <2>1. pc[p] \in {"base", "solve", "correction"} => c.at \in {"base", "correction"} /\ ~HasReset(p)
    BY <1>1 DEF PlaceOf, HasSent, HasReset
  <2> QED BY <2>1, <1>1 DEF Known, Sound
<1>9. nu[p] \in Nat /\ FullRefLevel[p] \in Levels
  BY <1>1, CycleAssumption DEF Known, Sound
<1> QED BY <1>3, <1>5, <1>6, <1>7, <1>8, <1>9

-----------------------------------------------------------------------------
(* Steps of a process.                                                     *)

\* Another process is where it was.
Untouched(q) ==
  /\ pc'[q] = pc[q] /\ stack'[q] = stack[q] /\ nu'[q] = nu[q]
  /\ made'[q] = made[q] /\ reset'[q] = reset[q] /\ st'[q] = st[q]
  /\ sc'[q] = sc[q] /\ covered'[q] = covered[q] /\ surface'[q] = surface[q]
  /\ t'[q] = t[q] /\ pC'[q] = pC[q]

LEMMA UntouchedStays ==
  ASSUME NEW q \in Procs, Untouched(q)
  PROVE  /\ DataInv(q) => DataInv(q)'
         /\ \A c : At(q, c) => At(q, c)'
         /\ HasSent(q)' = HasSent(q) /\ HasWaited(q)' = HasWaited(q)
<1> USE DEF Untouched
<1>1. /\ HasSent(q)' = HasSent(q) /\ HasWaited(q)' = HasWaited(q) /\ HasReset(q)' = HasReset(q)
      /\ PlaceOf(q)' = PlaceOf(q) /\ Lev(q)' = Lev(q)
  BY DEF HasSent, HasWaited, HasReset, PlaceOf, Lev
<1>2. \A c : At(q, c) => At(q, c)'
  BY <1>1 DEF At
<1>3. \A l \in Levels :
        /\ SinceReset(q, l)' = SinceReset(q, l) /\ ButLast(q, l)' = ButLast(q, l)
        /\ ToBeAdded(q, l)' = ToBeAdded(q, l) /\ ToBeSubtracted(q, l)' = ToBeSubtracted(q, l)
        /\ IsRead(q, l)' = IsRead(q, l) /\ Pending(q, l)' = Pending(q, l)
        /\ Whole(q, l)' = Whole(q, l) /\ Part(q, l)' = Part(q, l)
  BY <1>1 DEF SinceReset, ButLast, ToBeAdded, ToBeSubtracted, IsRead, Pending, Whole, Part
<1>4. CorrectionInv(q) => CorrectionInv(q)'
  BY <1>3 DEF CorrectionInv
<1>5. DefectInv(q) => DefectInv(q)'
  BY <1>3 DEF DefectInv
<1>6. GatherInv(q) => GatherInv(q)'
  BY <1>1, <1>3 DEF GatherInv, Whole, Part
<1>7. SurfaceInv(q) => SurfaceInv(q)'
  BY <1>3 DEF SurfaceInv
<1> QED BY <1>1, <1>2, <1>4, <1>5, <1>6, <1>7 DEF DataInv

\* What a step of p comes to when it takes p from place c to place d.
Moved(p, d) == /\ Shapes' /\ At(p, d)' /\ DataInv(p)'
               /\ \A q \in Procs : q # p => Untouched(q)

LEMMA ComputeIs ==
  ASSUME NEW p \in Procs, NEW l \in Levels, Shapes, Compute(p, l)
  PROVE  /\ made' \in [Procs -> [Levels -> Nat]] /\ st' \in [Procs -> [Levels -> Nat]]
         /\ made'[p] = OneMore(made[p], l) /\ st'[p][l] = made[p][l] + 1
         /\ made'[p][l] = made[p][l] + 1
         /\ \A k \in Levels : k # l => made'[p][k] = made[p][k] /\ st'[p][k] = st[p][k]
         /\ \A q \in Procs : q # p => made'[q] = made[q] /\ st'[q] = st[q]
<1>1. made \in [Procs -> [Levels -> Nat]] /\ st \in [Procs -> [Levels -> Nat]]
  BY DEF Shapes
<1>2. made' = [made EXCEPT ![p][l] = @ + 1] /\ st' = [st EXCEPT ![p][l] = made[p][l] + 1]
  BY DEF Compute
<1>3. made[p][l] + 1 \in Nat
  BY <1>1
<1> QED BY <1>1, <1>2, <1>3 DEF OneMore

\* An entry of p is changed, on a level or as a whole.
Changed(v, w, p, l, x) ==
  /\ IsVector(w) /\ w[p][l] = x
  /\ \A k \in Levels : k # l => w[p][k] = v[p][k]
  /\ \A q \in Procs : q # p => w[q] = v[q]
ChangedTo(v, w, p, x) == IsField(w) /\ w[p] = x /\ \A q \in Procs : q # p => w[q] = v[q]

LEMMA VectorChanges ==
  ASSUME NEW v, IsVector(v), NEW p \in Procs, NEW l \in Levels, NEW x
  PROVE  Changed(v, [v EXCEPT ![p][l] = x], p, l, x)
<1> DEFINE w == [v EXCEPT ![p][l] = x]
<1>1. v = [q \in Procs |-> [k \in Levels |-> v[q][k]]]
  BY DEF IsVector
<1>2. w[p][l] = x /\ (\A k \in Levels : k # l => w[p][k] = v[p][k])
      /\ \A q \in Procs : q # p => w[q] = v[q]
  BY <1>1
<1>3. w = [q \in Procs |-> [k \in Levels |-> w[q][k]]]
  BY <1>1
<1> HIDE DEF w
<1> QED BY <1>2, <1>3 DEF w, Changed, IsVector

LEMMA FieldChanges ==
  ASSUME NEW v, IsField(v), NEW p \in Procs, NEW x
  PROVE  ChangedTo(v, [v EXCEPT ![p] = x], p, x)
  BY DEF IsField, ChangedTo

LEMMA PreSmoothMoves ==
  ASSUME NEW p \in Procs, NEW c, Known(p, c), PreSmooth(p)
  PROVE  Smooths(c) /\ Moved(p, Continued(c))
<1>0. PICK d, l, m, r, n : /\ d = Continued(c) /\ l = Lev(p) /\ n = made[p][l] + 1
                           /\ m = made[p][l] /\ r = reset[p][l]
  OBVIOUS
<1>1. /\ pc[p] = "presmooth" /\ nu[p] < NumPreSmooth
      /\ Compute(p, l)
      /\ covered' = [covered EXCEPT ![p][l] = Plus(@, n)]
      /\ surface' = [surface EXCEPT ![p][l] = Plus(@, n)]
      /\ sc' = [sc EXCEPT ![p][l] = IF nu[p] < NumPreSmooth - 1 THEN Plus(@, n) ELSE @]
      /\ nu' = [nu EXCEPT ![p] = @ + 1]
      /\ UNCHANGED <<pc, stack, reset, t, channel, pC, solves>>
  BY <1>0 DEF PreSmooth
<1>2. /\ made[p] \in [Levels -> Nat] /\ reset[p] \in [Levels -> Nat]
      /\ \A k \in Levels : reset[p][k] <= made[p][k]
      /\ l = Top(c) /\ l \in Levels /\ l \in Nat /\ l > BaseLevel
      /\ nu[p] \in Nat /\ NumPreSmooth \in Nat
  BY <1>0, <1>1, Here, LevelsAre
<1>2a. m \in Nat /\ r \in Nat /\ r <= m /\ n = m + 1 /\ n \in Nat /\ r < n /\ n - 1 = m
  <2>1. m \in Nat /\ r \in Nat /\ r <= m /\ n = m + 1
    BY <1>0, <1>2
  <2> QED BY <2>1
<1>3. Shapes /\ At(p, c) /\ DataInv(p)
  BY DEF Known
<1>4. c.at = "presmooth" /\ Smooths(c) /\ c.nu = nu[p] /\ c.stack = stack[p]
      /\ c.made = made[p] /\ c.reset = reset[p]
  BY <1>1, <1>3 DEF At, PlaceOf, HasSent, HasReset, Smooths
<1>5. d.at = "presmooth" /\ d.stack = stack[p] /\ d.nu = nu[p] + 1
      /\ d.made = OneMore(made[p], l) /\ d.reset = reset[p]
  BY <1>0, <1>2, <1>4, ContinuedHas, OneWay DEF NextAt, NextStack, NextNu, NextMade, NextReset, Smooths, Known
<1>6. /\ made' \in [Procs -> [Levels -> Nat]] /\ st' \in [Procs -> [Levels -> Nat]]
      /\ made'[p] = OneMore(made[p], l) /\ st'[p][l] = n /\ made'[p][l] = n
      /\ \A k \in Levels : k # l => made'[p][k] = made[p][k] /\ st'[p][k] = st[p][k]
      /\ \A q \in Procs : q # p => made'[q] = made[q] /\ st'[q] = st[q]
  BY <1>0, <1>1, <1>2, <1>3, ComputeIs
<1>7. Changed(covered, covered', p, l, Plus(covered[p][l], n))
  BY <1>1, <1>2, <1>3, VectorChanges DEF Shapes
<1>8. Changed(surface, surface', p, l, Plus(surface[p][l], n))
  BY <1>1, <1>2, <1>3, VectorChanges DEF Shapes
<1>9. Changed(sc, sc', p, l, IF nu[p] < NumPreSmooth - 1 THEN Plus(sc[p][l], n) ELSE sc[p][l])
  BY <1>1, <1>2, <1>3, VectorChanges DEF Shapes
<1>10. ChangedTo(nu, nu', p, nu[p] + 1)
  BY <1>1, <1>3, FieldChanges DEF Shapes
<1>11. Shapes' /\ \A q \in Procs : q # p => Untouched(q)
  BY <1>1, <1>3, <1>6, <1>7, <1>8, <1>9, <1>10 DEF Shapes, Untouched, Changed, ChangedTo
<1>12. At(p, d)'
  BY <1>1, <1>5, <1>6, <1>10 DEF At, PlaceOf, HasSent, HasReset, ChangedTo
<1>13. Lev(p)' = l /\ pc'[p] = "presmooth"
  BY <1>0, <1>1 DEF Lev
<1>14. ASSUME NEW k \in Levels
       PROVE  /\ ToBeAdded(p, k)' <=> k = l /\ nu[p] + 1 = NumPreSmooth
              /\ ~ToBeAdded(p, k) /\ ~ToBeSubtracted(p, k) /\ ~ToBeSubtracted(p, k)'
              /\ k # l => SinceReset(p, k)' = SinceReset(p, k)
              /\ SinceReset(p, l)' = Plus(SinceReset(p, l), n)
              /\ ButLast(p, l)' = SinceReset(p, l)
              /\ Plus(Once(1, made[p][l]), n) = Once(1, n)
  <2>1. /\ ToBeAdded(p, k)' <=> k = l /\ nu[p] + 1 = NumPreSmooth
        /\ ~ToBeAdded(p, k) /\ ~ToBeSubtracted(p, k) /\ ~ToBeSubtracted(p, k)'
    BY <1>0, <1>1, <1>2, <1>10, <1>13 DEF ToBeAdded, ToBeSubtracted, HasReset, ChangedTo
  <2>2. k # l => SinceReset(p, k)' = SinceReset(p, k)
    BY <1>1, <1>6 DEF SinceReset
  <2>3. SinceReset(p, l)' = Plus(SinceReset(p, l), n) /\ ButLast(p, l)' = SinceReset(p, l)
        /\ Plus(Once(1, made[p][l]), n) = Once(1, n)
    <3>1. /\ SinceReset(p, l) = Once(r + 1, m) /\ SinceReset(p, l)' = Once(r + 1, n)
          /\ ButLast(p, l)' = Once(r + 1, m)
      BY <1>0, <1>1, <1>2a, <1>6 DEF SinceReset, ButLast
    <3>2. Plus(Once(r + 1, m), n) = Once(r + 1, n) /\ Plus(Once(1, m), n) = Once(1, n)
      <4>1. r + 1 \in Nat /\ r + 1 <= n /\ 1 \in Nat /\ 1 <= n
        BY <1>2a
      <4> QED BY <4>1, <1>2a, OnceAdded
    <3> QED BY <3>1, <3>2, <1>0
  <2> QED BY <2>1, <2>2, <2>3
<1>15. CorrectionInv(p)'
  <2> SUFFICES ASSUME NEW k \in Levels
               PROVE  /\ sc'[p][k] = IF ToBeAdded(p, k)' THEN ButLast(p, k)' ELSE SinceReset(p, k)'
                      /\ ToBeAdded(p, k)' \/ ToBeSubtracted(p, k)' =>
                           st'[p][k] = made'[p][k] /\ reset'[p][k] < made'[p][k]
    BY DEF CorrectionInv
  <2>1. sc[p][k] = SinceReset(p, k)
    BY <1>3, <1>14 DEF DataInv, CorrectionInv
  <2>2. CASE k # l
    BY <2>2, <2>1, <1>9, <1>14 DEF Changed
  <2>3. CASE k = l
    <3>1. sc'[p][l] = IF nu[p] < NumPreSmooth - 1 THEN SinceReset(p, l)' ELSE SinceReset(p, l)
      BY <2>1, <2>3, <1>9, <1>14 DEF Changed
    <3>2. st'[p][l] = made'[p][l] /\ reset'[p][l] < made'[p][l]
      BY <1>0, <1>1, <1>2a, <1>6
    <3>3. nu[p] < NumPreSmooth - 1 <=> ~(nu[p] + 1 = NumPreSmooth)
      BY <1>1, <1>2
    <3> QED BY <3>1, <3>2, <3>3, <2>3, <1>14
  <2> QED BY <2>2, <2>3
<1>16. DefectInv(p)'
  <2> SUFFICES ASSUME NEW k \in Levels
               PROVE  /\ UpToDate /\ IsRead(p, k)' => covered'[p][k] = SinceReset(p, k)'
                      /\ k >= FullRefLevel[p] => surface'[p][k] = Once(1, made'[p][k])
    BY <1>1, <1>14 DEF DefectInv
  <2>1. /\ UpToDate /\ IsRead(p, k) => covered[p][k] = SinceReset(p, k)
        /\ k >= FullRefLevel[p] => surface[p][k] = Once(1, made[p][k])
    BY <1>3, <1>14 DEF DataInv, DefectInv
  <2>2. IsRead(p, k)' = IsRead(p, k)
    BY <1>0, <1>1, <1>13 DEF IsRead
  <2> QED BY <2>1, <2>2, <1>6, <1>7, <1>8, <1>14 DEF Changed
<1>17. GatherInv(p)'
  BY <1>1 DEF GatherInv, HasSent
<1>18. SurfaceInv(p)'
  <2>1. \A k \in Levels : Pending(p, k)' = Pending(p, k) /\ (~Pending(p, k) => k # l)
    BY <1>0, <1>1, <1>2, <1>13 DEF Pending
  <2> QED BY <2>1, <1>1, <1>3, <1>6 DEF DataInv, SurfaceInv
<1>19. Moved(p, d)
  BY <1>11, <1>12, <1>15, <1>16, <1>17, <1>18 DEF Moved, DataInv
<1> QED BY <1>0, <1>4, <1>19

LEMMA HandOverIs ==
  ASSUME NEW p \in Procs, NEW l \in Levels, Shapes, HandOver(p, l)
  PROVE  Changed(t, t', p, l, IF IsSlave(p, l) THEN {} ELSE {Part(p, l)})
  BY VectorChanges DEF HandOver, Shapes

LEMMA StartRestrictionMoves ==
  ASSUME NEW p \in Procs, NEW c, Known(p, c), StartRestriction(p)
  PROVE  Restricts(c) /\ Moved(p, c) /\ ~HasSent(p) /\ HasSent(p)' /\ ~HasWaited(p)'
<1>0. PICK l : l = Lev(p)
  OBVIOUS
<1>1. /\ pc[p] = "presmooth" /\ nu[p] = NumPreSmooth
      /\ HandOver(p, l)
      /\ pc' = [pc EXCEPT ![p] = IF Overlap THEN "reset" ELSE "wait"]
      /\ UNCHANGED <<stack, nu, made, reset, st, sc, covered, surface, pC, solves>>
  BY <1>0 DEF StartRestriction, Goto
<1>2. l = Top(c) /\ l \in Levels
  BY <1>0, <1>1, Here
<1>3. Shapes /\ At(p, c) /\ DataInv(p)
  BY DEF Known
<1>4. Restricts(c)
  BY <1>1, <1>3 DEF At, PlaceOf, HasSent, Restricts
<1>5. ChangedTo(pc, pc', p, IF Overlap THEN "reset" ELSE "wait")
  BY <1>1, <1>3, FieldChanges DEF Shapes
<1>6. Changed(t, t', p, l, IF IsSlave(p, l) THEN {} ELSE {Part(p, l)})
  BY <1>1, <1>2, <1>3, HandOverIs
<1>7. Shapes' /\ \A q \in Procs : q # p => Untouched(q)
  BY <1>1, <1>3, <1>5, <1>6 DEF Shapes, Untouched, Changed, ChangedTo
<1>8. /\ pc'[p] = IF Overlap THEN "reset" ELSE "wait"
      /\ Lev(p)' = l /\ HasSent(p)' /\ ~HasReset(p)' /\ ~HasWaited(p)' /\ ~HasReset(p) /\ ~HasSent(p)
  BY <1>0, <1>1, <1>5 DEF ChangedTo, HasSent, HasReset, HasWaited, Lev
<1>9. At(p, c)'
  BY <1>1, <1>3, <1>4, <1>8 DEF At, PlaceOf, HasSent
<1>10. ASSUME NEW k \in Levels
       PROVE  /\ ToBeAdded(p, k)' = ToBeAdded(p, k) /\ ~ToBeSubtracted(p, k) /\ ~ToBeSubtracted(p, k)'
              /\ SinceReset(p, k)' = SinceReset(p, k) /\ ButLast(p, k)' = ButLast(p, k)
              /\ IsRead(p, k)' = IsRead(p, k) /\ Pending(p, k)' = Pending(p, k)
  BY <1>0, <1>1, <1>8 DEF ToBeAdded, ToBeSubtracted, SinceReset, ButLast, IsRead, Pending
<1>11. CorrectionInv(p)' /\ DefectInv(p)'
  BY <1>1, <1>3, <1>10 DEF DataInv, CorrectionInv, DefectInv
<1>12. SurfaceInv(p)'
  BY <1>1, <1>3, <1>8, <1>10 DEF DataInv, SurfaceInv
<1>13. Part(p, l)' = Part(p, l)
  BY <1>1 DEF Part
<1>14. GatherInv(p)'
  BY <1>6, <1>8, <1>13 DEF GatherInv, Changed
<1> QED BY <1>4, <1>7, <1>8, <1>9, <1>11, <1>12, <1>14 DEF Moved, DataInv

LEMMA ResetCoarseMoves ==
  ASSUME NEW p \in Procs, NEW c, Known(p, c), ResetCoarse(p)
  PROVE  Moved(p, c) /\ HasSent(p) /\ HasSent(p)' /\ HasWaited(p)' = HasWaited(p)
<1>0. PICK l, m, r : l = Lev(p) /\ m = made[p][l] /\ r = reset[p][l]
  OBVIOUS
<1>1. /\ pc[p] = "reset"
      /\ sc' = [sc EXCEPT ![p][l - 1] = EmptyBag,
                           ![p][l]     = IF NumPreSmooth > 0 THEN Plus(@, st[p][l]) ELSE @]
      /\ reset' = [reset EXCEPT ![p][l - 1] = made[p][l - 1]]
      /\ pc' = [pc EXCEPT ![p] = IF Overlap THEN "wait" ELSE "restrict"]
      /\ UNCHANGED <<stack, nu, made, st, covered, surface, t, channel, pC, solves>>
  BY <1>0 DEF ResetCoarse, Goto
<1>2. /\ made[p] \in [Levels -> Nat] /\ reset[p] \in [Levels -> Nat]
      /\ (\A k \in Levels : reset[p][k] <= made[p][k])
      /\ l = Top(c) /\ l \in Levels /\ l \in Nat /\ l > BaseLevel /\ l - 1 \in Levels /\ l - 1 # l
      /\ NumPreSmooth \in Nat
  <2>1. /\ made[p] \in [Levels -> Nat] /\ reset[p] \in [Levels -> Nat]
        /\ (\A k \in Levels : reset[p][k] <= made[p][k])
        /\ l = Top(c) /\ l \in Levels /\ l > BaseLevel
    BY <1>0, <1>1, Here
  <2> QED BY <2>1, LevelBelow, LevelsAre
<1>2a. m \in Nat /\ r \in Nat /\ r <= m
  BY <1>0, <1>2
<1>3. Shapes /\ At(p, c) /\ DataInv(p)
  BY DEF Known
<1>4. Restricts(c) /\ reset[p] = c.reset /\ made[p] = c.made /\ nu[p] = NumPreSmooth
  BY <1>1, <1>3 DEF At, PlaceOf, HasSent, HasReset, Restricts
<1>5. ChangedTo(pc, pc', p, IF Overlap THEN "wait" ELSE "restrict")
  BY <1>1, <1>3, FieldChanges DEF Shapes
<1>6. /\ reset' \in [Procs -> [Levels -> Nat]]
      /\ reset'[p] = [reset[p] EXCEPT ![l - 1] = made[p][l - 1]]
      /\ reset'[p][l - 1] = made[p][l - 1]
      /\ \A k \in Levels : k # l - 1 => reset'[p][k] = reset[p][k]
      /\ \A q \in Procs : q # p => reset'[q] = reset[q]
  <2> DEFINE j == l - 1
             x == made[p][j]
  <2>1. j \in Levels /\ x \in Nat /\ reset' = [reset EXCEPT ![p][j] = x]
        /\ reset \in [Procs -> [Levels -> Nat]]
    BY <1>1, <1>2, <1>3 DEF Shapes
  <2> HIDE DEF j, x
  <2>2. /\ reset' \in [Procs -> [Levels -> Nat]]
        /\ reset'[p] = [reset[p] EXCEPT ![j] = x] /\ reset'[p][j] = x
        /\ \A k \in Levels : k # j => reset'[p][k] = reset[p][k]
        /\ \A q \in Procs : q # p => reset'[q] = reset[q]
    BY <2>1
  <2> QED BY <2>2 DEF j, x
<1>7. /\ IsVector(sc')
      /\ sc'[p][l - 1] = EmptyBag
      /\ sc'[p][l] = IF NumPreSmooth > 0 THEN Plus(sc[p][l], st[p][l]) ELSE sc[p][l]
      /\ \A k \in Levels : k # l - 1 /\ k # l => sc'[p][k] = sc[p][k]
      /\ \A q \in Procs : q # p => sc'[q] = sc[q]
  <2> DEFINE j == l - 1
             y == IF NumPreSmooth > 0 THEN Plus(sc[p][l], st[p][l]) ELSE sc[p][l]
             v == [sc EXCEPT ![p][j] = EmptyBag]
  <2>1. j \in Levels /\ j # l
    BY <1>2
  <2>2. Changed(sc, v, p, j, EmptyBag)
    <3> HIDE DEF j
    <3> QED BY <2>1, <1>3, VectorChanges DEF Shapes
  <2>3. v[p][l] = sc[p][l]
    <3> HIDE DEF v, j
    <3> QED BY <2>1, <2>2, <1>2 DEF Changed
  <2>4. sc' = [v EXCEPT ![p][l] = y]
    BY <1>1, <2>3
  <2>5. Changed(v, sc', p, l, y)
    <3> HIDE DEF v, y
    <3>1. IsVector(v)
      BY <2>2 DEF Changed
    <3> QED BY <3>1, <2>4, <1>2, VectorChanges
  <2> HIDE DEF j, y, v
  <2>6. /\ IsVector(sc') /\ sc'[p][j] = EmptyBag /\ sc'[p][l] = y
        /\ \A k \in Levels : k # j /\ k # l => sc'[p][k] = sc[p][k]
        /\ \A q \in Procs : q # p => sc'[q] = sc[q]
    BY <2>1, <2>2, <2>5 DEF Changed
  <2> QED BY <2>6 DEF j, y
<1>8. Shapes' /\ \A q \in Procs : q # p => Untouched(q)
  BY <1>1, <1>3, <1>5, <1>6, <1>7 DEF Shapes, Untouched, ChangedTo
<1>9. /\ pc'[p] = IF Overlap THEN "wait" ELSE "restrict"
      /\ Lev(p)' = l /\ HasSent(p) /\ HasSent(p)' /\ HasReset(p)' /\ ~HasReset(p)
      /\ HasWaited(p)' = HasWaited(p)
  BY <1>0, <1>1, <1>5 DEF ChangedTo, HasSent, HasReset, HasWaited, Lev
<1>10. At(p, c)'
  <2>1. reset'[p] = NextReset(c)
    BY <1>2, <1>4, <1>6 DEF NextReset
  <2> QED BY <2>1, <1>1, <1>3, <1>4, <1>9 DEF At, PlaceOf, HasSent
<1>11. ASSUME NEW k \in Levels
       PROVE  /\ ~ToBeAdded(p, k)' /\ ~ToBeSubtracted(p, k) /\ ~ToBeSubtracted(p, k)'
              /\ k # l - 1 => SinceReset(p, k)' = SinceReset(p, k)
              /\ IsRead(p, k)' = IsRead(p, k) /\ (IsRead(p, k) => k # l - 1)
              /\ Pending(p, k)' = Pending(p, k) /\ (Pending(p, k) => k # l - 1)
              /\ ToBeAdded(p, k) <=> k = l /\ NumPreSmooth > 0
  <2>1. k \in Nat
    BY LevelsAre
  <2> QED BY <2>1, <1>0, <1>1, <1>2, <1>4, <1>6, <1>9 DEF ToBeAdded, ToBeSubtracted, SinceReset, IsRead, Pending
<1>12. CorrectionInv(p)'
  <2> SUFFICES ASSUME NEW k \in Levels
               PROVE  sc'[p][k] = SinceReset(p, k)'
    BY <1>11 DEF CorrectionInv
  <2>1. /\ sc[p][k] = IF ToBeAdded(p, k) THEN ButLast(p, k) ELSE SinceReset(p, k)
        /\ ToBeAdded(p, k) => st[p][k] = made[p][k] /\ reset[p][k] < made[p][k]
    BY <1>3 DEF DataInv, CorrectionInv
  <2>2. CASE k # l /\ k # l - 1
    BY <2>1, <2>2, <1>7, <1>11
  <2>3. CASE k = l - 1
    <3>1. SinceReset(p, k)' = Once(made[p][k] + 1, made[p][k]) /\ made[p][k] \in Nat
      BY <2>3, <1>1, <1>2, <1>6 DEF SinceReset
    <3> QED BY <3>1, <2>3, <1>7, OnceNone
  <2>4. CASE k = l /\ NumPreSmooth > 0
    <3>1. ToBeAdded(p, k)
      BY <2>4, <1>11
    <3>2. sc'[p][k] = Plus(Once(r + 1, m - 1), m) /\ r < m
      BY <3>1, <2>1, <2>4, <1>0, <1>7 DEF ButLast
    <3>3. SinceReset(p, k)' = Once(r + 1, m)
      BY <2>4, <1>0, <1>1, <1>2, <1>11 DEF SinceReset
    <3>4. r + 1 \in Nat /\ m - 1 \in Nat /\ m = (m - 1) + 1 /\ r + 1 <= m
      BY <3>2, <1>2a
    <3>5. Plus(Once(r + 1, m - 1), m) = Once(r + 1, m)
      BY <3>4, OnceAdded
    <3> QED BY <3>2, <3>3, <3>5
  <2>5. CASE k = l /\ ~(NumPreSmooth > 0)
    BY <2>1, <2>5, <1>2, <1>7, <1>11
  <2> QED BY <2>2, <2>3, <2>4, <2>5
<1>13. DefectInv(p)'
  BY <1>1, <1>3, <1>11 DEF DataInv, DefectInv
<1>14. SurfaceInv(p)'
  BY <1>1, <1>3, <1>6, <1>9, <1>11 DEF DataInv, SurfaceInv
<1>15. Part(p, l)' = Part(p, l) /\ Whole(p, l)' = Whole(p, l)
  BY <1>1 DEF Part, Whole
<1>16. GatherInv(p)'
  BY <1>0, <1>1, <1>3, <1>9, <1>15 DEF DataInv, GatherInv
<1> QED BY <1>8, <1>9, <1>10, <1>12, <1>13, <1>14, <1>16 DEF Moved, DataInv

LEMMA SlavesHaveNone ==
  ASSUME NEW p \in Procs, NEW l \in Levels, IsSlave(p, l)
  PROVE  Slaves(p, l) = {} /\ VMaster[l][p] \in Procs /\ ~IsSlave(VMaster[l][p], l)
  BY CycleAssumption DEF IsSlave, Slaves

LEMMA ReceivedIs ==
  ASSUME NEW p \in Procs, NEW l \in Levels,
         \A q \in Slaves(p, l) : Head(channel[q][p]).body = covered[p][l]
  PROVE  /\ ~IsSlave(p, l) => {Part(p, l)} \cup Received(p, l, Slaves(p, l)) = Whole(p, l)
         /\ IsSlave(p, l) => {} \cup Received(p, l, Slaves(p, l)) = Whole(p, l)
<1>1. Received(p, l, Slaves(p, l)) = {[proc |-> q, minus |-> covered[p][l]] : q \in Slaves(p, l)}
  BY DEF Received
<1>2. ~IsSlave(p, l) => {Part(p, l)} \cup Received(p, l, Slaves(p, l)) = Whole(p, l)
  BY <1>1 DEF Part, Whole, Group
<1>3. IsSlave(p, l) => {} \cup Received(p, l, Slaves(p, l)) = Whole(p, l)
  BY <1>1, SlavesHaveNone DEF Whole
<1> QED BY <1>2, <1>3

LEMMA WaitMoves ==
  ASSUME NEW p \in Procs, NEW c, Known(p, c), Wait(p),
         UpToDate => \A q \in Slaves(p, Top(c)) : Head(channel[q][p]).body = SinceReset(p, Top(c))
  PROVE  Moved(p, c) /\ HasSent(p) /\ HasSent(p)' /\ ~HasWaited(p) /\ HasWaited(p)'
<1>0. PICK l : l = Lev(p)
  OBVIOUS
<1>1. /\ pc[p] = "wait"
      /\ t' = [t EXCEPT ![p][l] = @ \cup Received(p, l, Slaves(p, l))]
      /\ pc' = [pc EXCEPT ![p] = IF Overlap THEN "restrict" ELSE "reset"]
      /\ UNCHANGED <<stack, nu, made, reset, st, sc, covered, surface, pC, solves>>
  BY <1>0 DEF Wait, Goto
<1>2. l = Top(c) /\ l \in Levels /\ l \in Nat
  BY <1>0, <1>1, Here
<1>3. Shapes /\ At(p, c) /\ DataInv(p)
  BY DEF Known
<1>4. ChangedTo(pc, pc', p, IF Overlap THEN "restrict" ELSE "reset")
  BY <1>1, <1>3, FieldChanges DEF Shapes
<1>5. Changed(t, t', p, l, t[p][l] \cup Received(p, l, Slaves(p, l)))
  BY <1>1, <1>2, <1>3, VectorChanges DEF Shapes
<1>6. Shapes' /\ \A q \in Procs : q # p => Untouched(q)
  BY <1>1, <1>3, <1>4, <1>5 DEF Shapes, Untouched, Changed, ChangedTo
<1>7. /\ pc'[p] = IF Overlap THEN "restrict" ELSE "reset"
      /\ Lev(p)' = l /\ HasSent(p) /\ HasSent(p)' /\ HasReset(p)' = HasReset(p)
      /\ HasWaited(p)' /\ ~HasWaited(p)
  BY <1>0, <1>1, <1>4, CycleAssumption DEF ChangedTo, HasSent, HasReset, HasWaited, Lev
<1>8. At(p, c)'
  BY <1>1, <1>3, <1>7 DEF At, PlaceOf
<1>9. ASSUME NEW k \in Levels
      PROVE  /\ ToBeAdded(p, k)' = ToBeAdded(p, k) /\ ~ToBeSubtracted(p, k) /\ ~ToBeSubtracted(p, k)'
             /\ SinceReset(p, k)' = SinceReset(p, k) /\ ButLast(p, k)' = ButLast(p, k)
             /\ IsRead(p, k)' = IsRead(p, k) /\ Pending(p, k)' = Pending(p, k)
  BY <1>0, <1>1, <1>7 DEF ToBeAdded, ToBeSubtracted, SinceReset, ButLast, IsRead, Pending, HasReset
<1>10. CorrectionInv(p)' /\ DefectInv(p)'
  BY <1>1, <1>3, <1>9 DEF DataInv, CorrectionInv, DefectInv
<1>11. SurfaceInv(p)'
  BY <1>1, <1>3, <1>7, <1>9 DEF DataInv, SurfaceInv
<1>12. Whole(p, l)' = Whole(p, l)
  BY <1>1 DEF Whole
<1>13. ASSUME UpToDate
       PROVE  t'[p][l] = Whole(p, l)
  <2>1. covered[p][l] = SinceReset(p, l)
    <3>1. IsRead(p, l)
      BY <1>0, <1>1, <1>2 DEF IsRead
    <3> QED BY <3>1, <1>2, <1>3, <1>9, <1>13 DEF DataInv, DefectInv
  <2>2. \A q \in Slaves(p, l) : Head(channel[q][p]).body = covered[p][l]
    BY <2>1, <1>2, <1>13
  <2>3. t[p][l] = IF IsSlave(p, l) THEN {} ELSE {Part(p, l)}
    BY <1>0, <1>3, <1>7, <1>13 DEF DataInv, GatherInv
  <2>4. t'[p][l] = t[p][l] \cup Received(p, l, Slaves(p, l))
    BY <1>5 DEF Changed
  <2>5. CASE IsSlave(p, l)
    BY <2>2, <2>3, <2>4, <2>5, <1>2, ReceivedIs
  <2>6. CASE ~IsSlave(p, l)
    BY <2>2, <2>3, <2>4, <2>6, <1>2, ReceivedIs
  <2> QED BY <2>5, <2>6
<1>14. GatherInv(p)'
  BY <1>7, <1>12, <1>13 DEF GatherInv
<1> QED BY <1>6, <1>7, <1>8, <1>10, <1>11, <1>14 DEF Moved, DataInv

LEMMA RestrictMoves ==
  ASSUME NEW p \in Procs, NEW c, Known(p, c), Restrict(p)
  PROVE  Moved(p, Continued(c)) /\ HasSent(p) /\ HasWaited(p) /\ ~HasSent(p)' /\ ~HasWaited(p)'
<1>0. PICK d, l : d = Continued(c) /\ l = Lev(p)
  OBVIOUS
<1>1. /\ pc[p] = "restrict"
      /\ covered' = [covered EXCEPT ![p][l - 1] = EmptyBag]
      /\ pc' = [pc EXCEPT ![p] = "coarse"]
      /\ UNCHANGED <<stack, nu, made, reset, st, sc, surface, t, channel, pC, solves>>
  BY <1>0 DEF Restrict, Goto
<1>2. /\ made[p] \in [Levels -> Nat] /\ reset[p] \in [Levels -> Nat]
      /\ l = Top(c) /\ l \in Levels /\ l \in Nat /\ l > BaseLevel /\ l - 1 \in Levels /\ l - 1 # l
      /\ l - 1 # TopLevel
  <2>1. /\ made[p] \in [Levels -> Nat] /\ reset[p] \in [Levels -> Nat]
        /\ l = Top(c) /\ l \in Levels /\ l > BaseLevel
    BY <1>0, <1>1, Here
  <2> QED BY <2>1, LevelBelow
<1>3. Shapes /\ At(p, c) /\ DataInv(p) /\ Sound(c)
  BY DEF Known
<1>4. /\ Restricts(c) /\ reset[p] = NextReset(c) /\ made[p] = c.made /\ nu[p] = c.nu
      /\ stack[p] = c.stack
  BY <1>1, <1>3 DEF At, HasSent, HasReset
<1>5. /\ d.at = "coarse" /\ d.stack = c.stack /\ d.nu = c.nu /\ d.made = c.made
      /\ d.reset = NextReset(c)
  BY <1>0, <1>3, <1>4, ContinuedHas, OneWay DEF NextAt, NextStack, NextNu, NextMade, Smooths, Restricts
<1>6. reset[p][l - 1] = made[p][l - 1]
  <2>1. c.reset \in [Levels -> Nat]
    BY <1>3 DEF Sound
  <2> QED BY <2>1, <1>2, <1>4 DEF NextReset
<1>7. ChangedTo(pc, pc', p, "coarse")
  BY <1>1, <1>3, FieldChanges DEF Shapes
<1>8. Changed(covered, covered', p, l - 1, EmptyBag)
  BY <1>1, <1>2, <1>3, VectorChanges DEF Shapes
<1>9. Shapes' /\ \A q \in Procs : q # p => Untouched(q)
  BY <1>1, <1>3, <1>7, <1>8 DEF Shapes, Untouched, Changed, ChangedTo
<1>10. /\ pc'[p] = "coarse" /\ Lev(p)' = l /\ HasSent(p) /\ HasWaited(p)
       /\ ~HasSent(p)' /\ ~HasReset(p)' /\ ~HasWaited(p)'
  BY <1>0, <1>1, <1>7 DEF ChangedTo, HasSent, HasReset, HasWaited, Lev
<1>11. At(p, d)'
  BY <1>1, <1>4, <1>5, <1>10 DEF At, PlaceOf
<1>12. ASSUME NEW k \in Levels
       PROVE  /\ ~ToBeAdded(p, k)' /\ ~ToBeAdded(p, k) /\ ~ToBeSubtracted(p, k) /\ ~ToBeSubtracted(p, k)'
              /\ SinceReset(p, k)' = SinceReset(p, k)
              /\ IsRead(p, k)' => IsRead(p, k) \/ k = l - 1
              /\ Pending(p, k)' <=> Pending(p, k) \/ k = l - 1
  <2>1. k \in Nat
    BY LevelsAre
  <2> QED BY <2>1, <1>0, <1>1, <1>2, <1>10 DEF ToBeAdded, ToBeSubtracted, SinceReset, IsRead, Pending
<1>13. CorrectionInv(p)'
  BY <1>1, <1>3, <1>12 DEF DataInv, CorrectionInv
<1>14. SinceReset(p, l - 1) = EmptyBag
  <2>1. made[p][l - 1] \in Nat
    BY <1>2
  <2> QED BY <2>1, <1>6, OnceNone DEF SinceReset
<1>15. DefectInv(p)'
  <2> SUFFICES ASSUME NEW k \in Levels
               PROVE  /\ UpToDate /\ IsRead(p, k)' => covered'[p][k] = SinceReset(p, k)'
                      /\ k >= FullRefLevel[p] => surface'[p][k] = Once(1, made'[p][k])
    BY <1>12 DEF DefectInv
  <2>1. /\ UpToDate /\ IsRead(p, k) => covered[p][k] = SinceReset(p, k)
        /\ k >= FullRefLevel[p] => surface[p][k] = Once(1, made[p][k])
    BY <1>3, <1>12 DEF DataInv, DefectInv
  <2>2. CASE k = l - 1
    BY <2>1, <2>2, <1>1, <1>8, <1>12, <1>14 DEF Changed
  <2>3. CASE k # l - 1
    BY <2>1, <2>3, <1>1, <1>8, <1>12 DEF Changed
  <2> QED BY <2>2, <2>3
<1>16. SurfaceInv(p)'
  BY <1>1, <1>2, <1>3, <1>6, <1>10, <1>12 DEF DataInv, SurfaceInv
<1>17. GatherInv(p)'
  BY <1>10 DEF GatherInv
<1> QED BY <1>0, <1>9, <1>10, <1>11, <1>13, <1>15, <1>16, <1>17 DEF Moved, DataInv

LEMMA DescendMoves ==
  ASSUME NEW p \in Procs, NEW c, Known(p, c), Descend(p)
  PROVE  Descends(c) /\ Moved(p, Continued(c)) /\ ~HasSent(p) /\ ~HasWaited(p) /\ ~HasSent(p)' /\ ~HasWaited(p)'
<1>0. PICK d, l : d = Continued(c) /\ l = Lev(p)
  OBVIOUS
<1>1. /\ pc[p] = "coarse" /\ Head(stack[p]).calls # <<>>
      /\ stack' = [stack EXCEPT ![p] =
               <<Frame(l - 1, Head(Head(stack[p]).calls)),
                 [lev |-> l, calls |-> Tail(Head(stack[p]).calls)]>> \o Tail(@)]
      /\ nu' = [nu EXCEPT ![p] = 0]
      /\ pc' = [pc EXCEPT ![p] = EntryOf(l - 1)]
      /\ UNCHANGED <<made, reset, st, sc, covered, surface, t, channel, pC, solves>>
  BY <1>0 DEF Descend, Goto
<1>2. /\ l = Top(c) /\ l \in Levels /\ l \in Nat /\ l > BaseLevel /\ l - 1 \in Levels
      /\ Head(stack[p]).calls = CallsOf(c) /\ NumPreSmooth \in Nat
  <2>1. l = Top(c) /\ l \in Levels /\ l > BaseLevel /\ Head(stack[p]).calls = CallsOf(c)
    BY <1>0, <1>1, Here
  <2> QED BY <2>1, LevelBelow, LevelsAre
<1>3. Shapes /\ At(p, c) /\ DataInv(p) /\ Sound(c) /\ Sound(d)
  BY <1>0, ContinuedIsSound DEF Known
<1>4. /\ Descends(c) /\ reset[p] = c.reset /\ made[p] = c.made /\ nu[p] = c.nu
      /\ stack[p] = c.stack
  BY <1>1, <1>2, <1>3 DEF At, PlaceOf, HasSent, HasReset, Descends
<1>5. /\ d.at = EntryOf(l - 1) /\ d.nu = 0 /\ d.made = c.made /\ d.reset = c.reset
      /\ d.stack = <<Frame(l - 1, Head(CallsOf(c))),
                     [lev |-> l, calls |-> Tail(CallsOf(c))]>> \o Tail(c.stack)
  BY <1>0, <1>2, <1>3, <1>4, ContinuedHas, OneWay DEF NextAt, NextStack, NextNu, NextMade, NextReset
<1>6. ChangedTo(pc, pc', p, EntryOf(l - 1)) /\ ChangedTo(nu, nu', p, 0)
  BY <1>1, <1>3, FieldChanges DEF Shapes
<1>7. ChangedTo(stack, stack', p, d.stack)
  BY <1>1, <1>2, <1>3, <1>4, <1>5, FieldChanges DEF Shapes
<1>8. Shapes' /\ \A q \in Procs : q # p => Untouched(q)
  BY <1>1, <1>3, <1>6, <1>7 DEF Shapes, Untouched, ChangedTo
<1>9. /\ pc'[p] = EntryOf(l - 1) /\ EntryOf(l - 1) \in {"base", "presmooth"}
      /\ nu'[p] = 0 /\ ~HasSent(p) /\ ~HasWaited(p)
      /\ ~HasSent(p)' /\ ~HasReset(p)' /\ ~HasReset(p) /\ ~HasWaited(p)'
  <2>1. pc'[p] = EntryOf(l - 1) /\ EntryOf(l - 1) \in {"base", "presmooth"} /\ nu'[p] = 0
    BY <1>6 DEF ChangedTo, EntryOf
  <2> QED BY <2>1, <1>1 DEF HasSent, HasReset, HasWaited
<1>10. At(p, d)'
  BY <1>1, <1>4, <1>5, <1>7, <1>9 DEF At, PlaceOf, ChangedTo
<1>11. Lev(p)' = l - 1
  <2>1. stack'[p] = d.stack
    BY <1>7 DEF ChangedTo
  <2>2. Head(d.stack) = Frame(l - 1, Head(CallsOf(c)))
    <3> DEFINE f1 == Frame(l - 1, Head(CallsOf(c)))
               f2 == [lev |-> l, calls |-> Tail(CallsOf(c))]
               s == Tail(c.stack)
    <3>1. s \in Seq(Frames)
      BY <1>1, <1>3, <1>4, TopFrame DEF Sound, Descends
    <3>2. d.stack \in Seq(Frames) /\ d.stack = <<f1, f2>> \o s
      BY <1>3, <1>5 DEF Sound
    <3> HIDE DEF f1, f2, s
    <3>3. d.stack[1] = f1 /\ Len(d.stack) >= 2
      BY <3>1, <3>2
    <3>4. Head(d.stack) = f1
      BY <3>2, <3>3
    <3> QED BY <3>4 DEF f1
  <2> QED BY <2>1, <2>2 DEF Lev, Frame
<1>12. ASSUME NEW k \in Levels
       PROVE  /\ ~ToBeAdded(p, k)' /\ ~ToBeAdded(p, k) /\ ~ToBeSubtracted(p, k) /\ ~ToBeSubtracted(p, k)'
              /\ SinceReset(p, k)' = SinceReset(p, k)
              /\ IsRead(p, k)' => IsRead(p, k)
              /\ Pending(p, k)' <=> Pending(p, k)
  <2>1. k \in Nat
    BY LevelsAre
  <2>2. /\ ~ToBeAdded(p, k)' /\ ~ToBeAdded(p, k) /\ ~ToBeSubtracted(p, k) /\ ~ToBeSubtracted(p, k)'
        /\ SinceReset(p, k)' = SinceReset(p, k)
    BY <1>1, <1>2, <1>9 DEF ToBeAdded, ToBeSubtracted, SinceReset
  <2>3. k >= l - 1 <=> k >= l \/ k = l - 1
    BY <2>1, <1>2
  <2> QED BY <2>2, <2>3, <1>0, <1>1, <1>9, <1>11 DEF IsRead, Pending
<1>13. CorrectionInv(p)' /\ DefectInv(p)'
  BY <1>1, <1>3, <1>12 DEF DataInv, CorrectionInv, DefectInv
<1>14. SurfaceInv(p)'
  BY <1>1, <1>3, <1>9, <1>12 DEF DataInv, SurfaceInv
<1>15. GatherInv(p)'
  BY <1>9 DEF GatherInv
<1> QED BY <1>0, <1>4, <1>8, <1>9, <1>10, <1>13, <1>14, <1>15 DEF Moved, DataInv

\* GatherBase() once t and pc are what they are going to be.
LEMMA GatherBaseMoves ==
  ASSUME NEW p \in Procs, NEW c, Known(p, c), pc[p] = "base", NEW x, NEW y,
         x \in {"correction", "solve"}, ChangedTo(pc, pc', p, x),
         Changed(t, t', p, BaseLevel, y),
         x = "solve" => /\ Gathers(p) /\ ~IsSlave(p, BaseLevel)
                        /\ UpToDate => y = Whole(p, BaseLevel),
         x = "correction" => Gathers(p) /\ IsSlave(p, BaseLevel),
         UNCHANGED <<stack, nu, made, reset, st, sc, covered, surface, pC, solves>>
  PROVE  c.at = "base" /\ Moved(p, Continued(c))
         /\ ~HasSent(p) /\ ~HasWaited(p) /\ ~HasSent(p)' /\ ~HasWaited(p)'
<1>0. PICK d : d = Continued(c)
  OBVIOUS
<1>1. Shapes /\ At(p, c) /\ DataInv(p) /\ Sound(c)
  BY DEF Known
<1>2. c.at = "base" /\ reset[p] = c.reset /\ made[p] = c.made /\ nu[p] = c.nu /\ stack[p] = c.stack
  BY <1>1 DEF At, PlaceOf, HasSent, HasReset
<1>3. /\ d.at = "correction" /\ d.nu = c.nu /\ d.made = c.made /\ d.reset = c.reset
      /\ d.stack = c.stack
  BY <1>0, <1>1, <1>2, ContinuedHas, OneWay DEF NextAt, NextStack, NextNu, NextMade, NextReset
<1>4. Shapes' /\ \A q \in Procs : q # p => Untouched(q)
  BY <1>1 DEF Shapes, Untouched, Changed, ChangedTo
<1>5. /\ pc'[p] = x /\ ~HasSent(p) /\ ~HasWaited(p) /\ Lev(p)' = Lev(p)
      /\ ~HasSent(p)' /\ ~HasReset(p)' /\ ~HasReset(p) /\ ~HasWaited(p)'
  BY DEF HasSent, HasReset, HasWaited, ChangedTo, Lev
<1>6. At(p, d)'
  BY <1>2, <1>3, <1>5 DEF At, PlaceOf
<1>7. ASSUME NEW k \in Levels
      PROVE  /\ ~ToBeAdded(p, k)' /\ ~ToBeAdded(p, k) /\ ~ToBeSubtracted(p, k) /\ ~ToBeSubtracted(p, k)'
             /\ SinceReset(p, k)' = SinceReset(p, k)
             /\ IsRead(p, k)' = IsRead(p, k)
             /\ Pending(p, k)' = Pending(p, k)
  BY <1>5 DEF ToBeAdded, ToBeSubtracted, SinceReset, IsRead, Pending
<1>8. CorrectionInv(p)' /\ DefectInv(p)'
  BY <1>1, <1>7 DEF DataInv, CorrectionInv, DefectInv
<1>9. SurfaceInv(p)'
  BY <1>1, <1>5, <1>7 DEF DataInv, SurfaceInv
<1>10. GatherInv(p)'
  <2>1. Whole(p, BaseLevel)' = Whole(p, BaseLevel) /\ t'[p][BaseLevel] = y
    BY DEF Whole, Changed
  <2> QED BY <2>1, <1>5 DEF GatherInv, Gathers
<1> QED BY <1>0, <1>2, <1>4, <1>5, <1>6, <1>8, <1>9, <1>10 DEF Moved, DataInv

\* Where a return leads to.
LEMMA ReturnsTo ==
  ASSUME NEW c, Sound(c), Returns(c), NEW d, d = Continued(c)
  PROVE  /\ d.at \in {"finish", "coarse"} /\ d.stack = Tail(c.stack)
         /\ d.at = "coarse" => /\ Top(d) = Top(c) + 1
                               /\ ~Repeats(Top(c) + 1) => CallsOf(d) = <<>>
         /\ d.at = "finish" => Top(c) = TopLevel
<1> DEFINE s == c.stack
<1>1. s # <<>> /\ c.at \in {"postsmooth", "correction"}
  BY DEF Sound, Returns
<1>2. Top(c) \in Levels /\ Len(s) \in Nat /\ Len(s) >= 1 /\ Top(c) = TopLevel - Len(s) + 1
      /\ s \in Seq(Frames)
  BY <1>1, TopFrame DEF Sound
<1>3. d.at = (IF Len(s) = 1 THEN "finish" ELSE "coarse") /\ d.stack = Tail(s)
  BY <1>1, ContinuedHas, OneWay DEF NextAt, NextStack, Restricts, Descends, Prolongates, Smooths, Returns
<1>4. Sound(d)
  BY ContinuedIsSound
<1>5. ASSUME d.at = "coarse"
      PROVE  Top(d) = Top(c) + 1 /\ (~Repeats(Top(c) + 1) => CallsOf(d) = <<>>)
  <2>1. d.stack # <<>> /\ Len(s) # 1
    BY <1>3, <1>4, <1>5 DEF Sound
  <2>2. Top(d) = TopLevel - Len(d.stack) + 1 /\ d.stack[1] = [lev |-> Top(d), calls |-> CallsOf(d)]
    BY <2>1, <1>4, TopFrame
  <2> DEFINE k == Len(s)
  <2>3. k \in Nat /\ k >= 2 /\ Len(d.stack) = k - 1 /\ d.stack[1] = s[2] /\ 2 \in 2 .. k
    <3>1. k \in Nat /\ k >= 1 /\ k # 1
      BY <1>2, <2>1
    <3> HIDE DEF k
    <3>2. k \in Nat /\ k >= 2
      BY <3>1
    <3> QED BY <3>2, <1>2, <1>3 DEF k
  <2>4. Top(d) = Top(c) + 1
    <3>1. Top(d) = TopLevel - (k - 1) + 1 /\ Top(c) = TopLevel - k + 1 /\ TopLevel \in Nat
      BY <2>2, <2>3, <1>2, LevelsAre
    <3> HIDE DEF k
    <3> QED BY <3>1, <2>3
  <2>5. LastCall(s[2])
    BY <2>3 DEF Sound
  <2> QED BY <2>2, <2>3, <2>4, <2>5 DEF LastCall
<1>6. ASSUME d.at = "finish"
      PROVE  Top(c) = TopLevel
  <2>1. Len(s) = 1 /\ TopLevel \in Nat
    BY <1>3, <1>6, LevelsAre
  <2> QED BY <2>1, <1>2
<1> QED BY <1>3, <1>5, <1>6


\* The base problem is solved, with or without gathering.
LEMMA SolvedMoves ==
  ASSUME NEW p \in Procs, NEW c, Known(p, c), pc[p] \in {"base", "solve", "correction"},
         Solved(p, SetToBag({made[p][BaseLevel] + 1})), UNCHANGED <<nu, reset, st, t, pC>>,
         NEW e, e = IF c.at = "base" THEN Continued(c) ELSE c
  PROVE  e.at = "correction" /\ Moved(p, Continued(e))
         /\ ~HasSent(p) /\ ~HasWaited(p) /\ ~HasSent(p)' /\ ~HasWaited(p)'
<1>0. PICK d, l, m, n, x : /\ d = Continued(e) /\ l = BaseLevel /\ m = made[p][BaseLevel]
                           /\ n = made[p][BaseLevel] + 1 /\ x = SetToBag({n})
  OBVIOUS
<1>1. /\ sc' = [sc EXCEPT ![p][l] = x]
      /\ covered' = IF l >= FullRefLevel[p] THEN [covered EXCEPT ![p][l] = @ (+) x] ELSE covered
      /\ surface' = IF l >= FullRefLevel[p] THEN [surface EXCEPT ![p][l] = @ (+) x] ELSE surface
      /\ made' = [made EXCEPT ![p][l] = @ + 1]
      /\ stack' = [stack EXCEPT ![p] = Tail(@)]
      /\ pc' = [pc EXCEPT ![p] = IF Len(stack[p]) = 1 THEN "finish" ELSE "coarse"]
      /\ UNCHANGED <<nu, reset, st, t, pC>>
  BY <1>0 DEF Solved, Leave, Goto
<1>2. /\ made[p] \in [Levels -> Nat] /\ reset[p] \in [Levels -> Nat]
      /\ Lev(p) = l /\ Top(c) = l /\ l \in Levels /\ l \in Nat /\ reset[p][l] = m
      /\ \A k \in Levels : k \in Nat /\ l <= k /\ k <= TopLevel
  BY <1>0, Here, LevelsAre
<1>3. Shapes /\ At(p, c) /\ DataInv(p) /\ Sound(c)
  BY DEF Known
<1>4. m \in Nat /\ n = m + 1 /\ n \in Nat /\ m < n
  <2>1. m \in Nat /\ n = m + 1
    BY <1>0, <1>2
  <2> QED BY <2>1
<1>5. /\ c.at \in {"base", "correction"} /\ reset[p] = c.reset /\ made[p] = c.made
      /\ nu[p] = c.nu /\ stack[p] = c.stack
  BY <1>3 DEF At, PlaceOf, HasSent, HasReset
<1>6. /\ e.at = "correction" /\ Sound(e) /\ e.nu = c.nu /\ e.made = c.made /\ e.reset = c.reset
      /\ e.stack = c.stack /\ Returns(e) /\ Top(e) = l
  <2>1. CASE c.at = "base"
    <3>1. Sound(e)
      BY <2>1, <1>3, ContinuedIsSound
    <3>2. /\ e.at = "correction" /\ e.nu = c.nu /\ e.made = c.made /\ e.reset = c.reset
          /\ e.stack = c.stack
      BY <2>1, <1>3, ContinuedHas, OneWay DEF NextAt, NextStack, NextNu, NextMade, NextReset
    <3> QED BY <3>1, <3>2, <1>2 DEF Returns, Top
  <2>2. CASE c.at = "correction"
    BY <2>2, <1>2, <1>3 DEF Returns
  <2> QED BY <2>1, <2>2, <1>5
<1>7. /\ d.at = (IF Len(c.stack) = 1 THEN "finish" ELSE "coarse") /\ d.stack = Tail(c.stack)
      /\ d.nu = c.nu /\ d.made = OneMore(c.made, l) /\ d.reset = c.reset
  BY <1>0, <1>6, ContinuedHas, OneWay DEF NextAt, NextStack, NextNu, NextMade, NextReset, Restricts, Descends, Prolongates, Smooths, Computes
<1>8. /\ d.at \in {"finish", "coarse"}
      /\ d.at = "coarse" => Top(d) = l + 1 /\ CallsOf(d) = <<>>
      /\ d.at = "finish" => l = TopLevel
  <2>1. ~Repeats(l + 1)
    BY <1>0, <1>2 DEF Repeats
  <2> QED BY <2>1, <1>0, <1>6, ReturnsTo
<1>9. ChangedTo(pc, pc', p, d.at) /\ ChangedTo(stack, stack', p, d.stack)
  BY <1>1, <1>3, <1>5, <1>7, FieldChanges DEF Shapes
<1>10. /\ made' \in [Procs -> [Levels -> Nat]] /\ made'[p] = OneMore(made[p], l) /\ made'[p][l] = n
       /\ \A k \in Levels : k # l => made'[p][k] = made[p][k]
       /\ \A q \in Procs : q # p => made'[q] = made[q]
  <2>1. made \in [Procs -> [Levels -> Nat]]
    BY <1>3 DEF Shapes
  <2> QED BY <2>1, <1>0, <1>1, <1>2 DEF OneMore
<1>11. Changed(sc, sc', p, l, x)
  BY <1>1, <1>2, <1>3, VectorChanges DEF Shapes
<1>12. /\ Changed(covered, covered', p, l, IF l >= FullRefLevel[p] THEN covered[p][l] (+) x ELSE covered[p][l])
       /\ Changed(surface, surface', p, l, IF l >= FullRefLevel[p] THEN surface[p][l] (+) x ELSE surface[p][l])
  <2>1. CASE l >= FullRefLevel[p]
    BY <2>1, <1>1, <1>2, <1>3, VectorChanges DEF Shapes
  <2>2. CASE ~(l >= FullRefLevel[p])
    BY <2>2, <1>1, <1>3 DEF Shapes, Changed
  <2> QED BY <2>1, <2>2
<1>13. Shapes' /\ \A q \in Procs : q # p => Untouched(q)
  BY <1>1, <1>3, <1>9, <1>10, <1>11, <1>12 DEF Shapes, Untouched, Changed, ChangedTo
<1>14. /\ pc'[p] = d.at /\ stack'[p] = d.stack
       /\ ~HasSent(p) /\ ~HasWaited(p) /\ ~HasReset(p)
       /\ ~HasSent(p)' /\ ~HasWaited(p)' /\ ~HasReset(p)'
  BY <1>8, <1>9 DEF HasSent, HasReset, HasWaited, ChangedTo
<1>15. At(p, d)'
  BY <1>1, <1>5, <1>7, <1>8, <1>10, <1>14 DEF At, PlaceOf
<1>16. d.at = "coarse" => Lev(p)' = l + 1 /\ Head(stack'[p]).calls = <<>>
  BY <1>8, <1>14 DEF Lev, Top, CallsOf
<1>17. ASSUME NEW k \in Levels
       PROVE  /\ ~ToBeAdded(p, k)' /\ ~ToBeAdded(p, k) /\ ~ToBeSubtracted(p, k) /\ ~ToBeSubtracted(p, k)'
              /\ k # l => SinceReset(p, k)' = SinceReset(p, k)
              /\ IsRead(p, k)' => k # l
              /\ IsRead(p, k) /\ Pending(p, k)
              /\ ~Pending(p, k)' => k = TopLevel /\ pc'[p] # "done"
  <2>1. /\ ~ToBeAdded(p, k)' /\ ~ToBeAdded(p, k) /\ ~ToBeSubtracted(p, k) /\ ~ToBeSubtracted(p, k)'
        /\ k # l => SinceReset(p, k)' = SinceReset(p, k)
    BY <1>1, <1>8, <1>10, <1>14 DEF ToBeAdded, ToBeSubtracted, SinceReset
  <2>2. k \in Nat /\ k >= l /\ k <= TopLevel /\ TopLevel \in Nat
    BY <1>2, LevelsAre
  <2>3. IsRead(p, k) /\ Pending(p, k)
    BY <2>2, <1>2 DEF IsRead, Pending
  <2>4. IsRead(p, k)' => k # l
    BY <1>2, <1>8, <1>14, <1>16 DEF IsRead
  <2>5. ~Pending(p, k)' => k = TopLevel /\ pc'[p] # "done"
    <3>1. CASE d.at = "coarse"
      <4>1. k >= l + 1 \/ k = (l + 1) - 1
        BY <2>2, <1>2
      <4> QED BY <4>1, <3>1, <1>14, <1>16 DEF Pending
    <3>2. CASE d.at = "finish"
      <4>1. k = TopLevel
        BY <3>2, <2>2, <1>2, <1>8
      <4> QED BY <4>1, <3>2, <1>14
    <3> QED BY <3>1, <3>2, <1>8
  <2> QED BY <2>1, <2>3, <2>4, <2>5
<1>18. x = Once(m + 1, n) /\ Once(1, m) (+) x = Once(1, n)
  <2>1. x = Once(n, n)
    BY <1>0, <1>4, OnceSingle
  <2>2. 1 \in Nat /\ 1 <= n
    BY <1>4
  <2> QED BY <2>1, <2>2, <1>0, <1>4, OnceAdded
<1>19. CorrectionInv(p)'
  <2> SUFFICES ASSUME NEW k \in Levels
               PROVE  sc'[p][k] = SinceReset(p, k)'
    BY <1>17 DEF CorrectionInv
  <2>1. sc[p][k] = SinceReset(p, k)
    BY <1>3, <1>17 DEF DataInv, CorrectionInv
  <2>2. CASE k = l
    BY <2>2, <1>1, <1>2, <1>10, <1>11, <1>18 DEF SinceReset, Changed
  <2> QED BY <2>1, <2>2, <1>11, <1>17 DEF Changed
<1>20. DefectInv(p)'
  <2> SUFFICES ASSUME NEW k \in Levels
               PROVE  /\ UpToDate /\ IsRead(p, k)' => covered'[p][k] = SinceReset(p, k)'
                      /\ k >= FullRefLevel[p] => surface'[p][k] = Once(1, made'[p][k])
    BY <1>17 DEF DefectInv
  <2>1. /\ UpToDate => covered[p][k] = SinceReset(p, k)
        /\ k >= FullRefLevel[p] => surface[p][k] = Once(1, made[p][k])
    BY <1>3, <1>17 DEF DataInv, DefectInv
  <2>2. UpToDate /\ IsRead(p, k)' => covered'[p][k] = SinceReset(p, k)'
    BY <2>1, <1>12, <1>17 DEF Changed
  <2>3. k >= FullRefLevel[p] => surface'[p][k] = Once(1, made'[p][k])
    BY <2>1, <1>0, <1>10, <1>12, <1>18 DEF Changed
  <2> QED BY <2>2, <2>3
<1>21. GatherInv(p)'
  BY <1>8, <1>14 DEF GatherInv
<1>22. SurfaceInv(p)'
  <2> SUFFICES ASSUME NEW k \in Levels
               PROVE  pC[p][k] = IF k < FullRefLevel[p] \/ (k = TopLevel /\ pc'[p] # "done") THEN EmptyBag
                                 ELSE Once(1, IF Pending(p, k)' THEN reset[p][k] ELSE made'[p][k])
    BY <1>1 DEF SurfaceInv
  <2>1. pC[p][k] = IF k < FullRefLevel[p] \/ k = TopLevel THEN EmptyBag ELSE Once(1, reset[p][k])
    BY <1>3, <1>17 DEF DataInv, SurfaceInv
  <2>2. pc'[p] # "done"
    BY <1>8, <1>14
  <2> QED BY <2>1, <2>2, <1>17
<1> QED BY <1>0, <1>6, <1>13, <1>14, <1>15, <1>19, <1>20, <1>21, <1>22 DEF Moved, DataInv

LEMMA ProlongateMoves ==
  ASSUME NEW p \in Procs, NEW c, Known(p, c), Prolongate(p)
  PROVE  Prolongates(c) /\ Moved(p, Continued(c)) /\ ~HasSent(p) /\ ~HasWaited(p) /\ ~HasSent(p)' /\ ~HasWaited(p)'
<1>0. PICK d, l, m, r, n, g, h : /\ d = Continued(c) /\ l = Lev(p) /\ n = made[p][l] + 1
                                 /\ m = made[p][l] /\ r = reset[p][l]
                                 /\ g = reset[p][l - 1] /\ h = made[p][l - 1]
  OBVIOUS
<1>1. /\ pc[p] = "coarse" /\ Head(stack[p]).calls = <<>>
      /\ pC' = [pC EXCEPT ![p][l - 1] = IF CoarserHasSurface(p, l) THEN @ (+) sc[p][l - 1] ELSE @]
      /\ Compute(p, l)
      /\ sc' = [sc EXCEPT ![p][l] = Plus(@, n)]
      /\ nu' = [nu EXCEPT ![p] = 0]
      /\ pc' = [pc EXCEPT ![p] = "postsmooth"]
      /\ UNCHANGED <<stack, reset, covered, surface, t, solves>>
  BY <1>0 DEF Prolongate, Goto
<1>2. /\ made[p] \in [Levels -> Nat] /\ reset[p] \in [Levels -> Nat]
      /\ \A k \in Levels : reset[p][k] <= made[p][k]
      /\ l = Top(c) /\ l \in Levels /\ l > BaseLevel /\ Head(stack[p]).calls = CallsOf(c)
      /\ FullRefLevel[p] \in Levels
  BY <1>0, <1>1, Here
<1>2a. /\ l \in Nat /\ l - 1 \in Nat /\ l - 1 \in Levels /\ l - 1 # TopLevel /\ l - 1 # l
       /\ \A k \in Levels : k \in Nat
  BY <1>2, LevelBelow, LevelsAre
<1>2b. m \in Nat /\ r \in Nat /\ r <= m /\ n = m + 1 /\ n \in Nat /\ r < n /\ n - 1 = m
       /\ g \in Nat /\ h \in Nat /\ g <= h
  <2>1. m \in Nat /\ r \in Nat /\ r <= m /\ n = m + 1 /\ g \in Nat /\ h \in Nat /\ g <= h
    BY <1>0, <1>2, <1>2a
  <2> QED BY <2>1
<1>3. Shapes /\ At(p, c) /\ DataInv(p) /\ Sound(c)
  BY DEF Known
<1>4. Prolongates(c) /\ c.stack = stack[p] /\ c.made = made[p] /\ c.reset = reset[p]
  BY <1>1, <1>2, <1>3 DEF At, PlaceOf, HasSent, HasReset, Prolongates
<1>5. d.at = "postsmooth" /\ d.stack = stack[p] /\ d.nu = 0
      /\ d.made = OneMore(made[p], l) /\ d.reset = reset[p]
  BY <1>0, <1>2, <1>3, <1>4, ContinuedHas, OneWay DEF NextAt, NextStack, NextNu, NextMade, NextReset
<1>6. /\ made' \in [Procs -> [Levels -> Nat]] /\ st' \in [Procs -> [Levels -> Nat]]
      /\ made'[p] = OneMore(made[p], l) /\ st'[p][l] = n /\ made'[p][l] = n
      /\ \A k \in Levels : k # l => made'[p][k] = made[p][k] /\ st'[p][k] = st[p][k]
      /\ \A q \in Procs : q # p => made'[q] = made[q] /\ st'[q] = st[q]
  BY <1>0, <1>1, <1>2, <1>3, ComputeIs
<1>7. Changed(sc, sc', p, l, Plus(sc[p][l], n))
  BY <1>1, <1>2, <1>3, VectorChanges DEF Shapes
<1>8. Changed(pC, pC', p, l - 1, IF CoarserHasSurface(p, l) THEN pC[p][l - 1] (+) sc[p][l - 1] ELSE pC[p][l - 1])
  BY <1>1, <1>2a, <1>3, VectorChanges DEF Shapes
<1>9. ChangedTo(nu, nu', p, 0) /\ ChangedTo(pc, pc', p, "postsmooth")
  BY <1>1, <1>3, FieldChanges DEF Shapes
<1>10. Shapes' /\ \A q \in Procs : q # p => Untouched(q)
  BY <1>1, <1>3, <1>6, <1>7, <1>8, <1>9 DEF Shapes, Untouched, Changed, ChangedTo
<1>11. /\ pc'[p] = "postsmooth" /\ nu'[p] = 0 /\ Lev(p)' = l
       /\ ~HasSent(p) /\ ~HasWaited(p) /\ ~HasReset(p)
       /\ ~HasSent(p)' /\ ~HasWaited(p)' /\ ~HasReset(p)'
  BY <1>0, <1>1, <1>9 DEF HasSent, HasReset, HasWaited, ChangedTo, Lev
<1>12. At(p, d)'
  BY <1>1, <1>5, <1>6, <1>11 DEF At, PlaceOf
<1>13. ASSUME NEW k \in Levels
       PROVE  /\ ~ToBeAdded(p, k)' /\ ~ToBeAdded(p, k) /\ ~ToBeSubtracted(p, k)
              /\ ToBeSubtracted(p, k)' <=> k = l
              /\ k # l => SinceReset(p, k)' = SinceReset(p, k)
              /\ SinceReset(p, l)' = Plus(SinceReset(p, l), n)
              /\ ButLast(p, l)' = SinceReset(p, l)
              /\ IsRead(p, k)' => IsRead(p, k)
              /\ Pending(p, k) <=> Pending(p, k)' \/ k = l - 1
              /\ Pending(p, k)' => k # l - 1
              /\ Pending(p, l)'
  <2>1. /\ ~ToBeAdded(p, k)' /\ ~ToBeAdded(p, k) /\ ~ToBeSubtracted(p, k)
        /\ ToBeSubtracted(p, k)' <=> k = l
    BY <1>1, <1>11 DEF ToBeAdded, ToBeSubtracted
  <2>2. k # l => SinceReset(p, k)' = SinceReset(p, k)
    BY <1>1, <1>6 DEF SinceReset
  <2>3. SinceReset(p, l)' = Plus(SinceReset(p, l), n) /\ ButLast(p, l)' = SinceReset(p, l)
    <3>1. /\ SinceReset(p, l) = Once(r + 1, m) /\ SinceReset(p, l)' = Once(r + 1, n)
          /\ ButLast(p, l)' = Once(r + 1, m)
      BY <1>0, <1>1, <1>2b, <1>6 DEF SinceReset, ButLast
    <3>2. r + 1 \in Nat /\ r + 1 <= n
      BY <1>2b
    <3>3. Plus(Once(r + 1, m), n) = Once(r + 1, n)
      BY <3>2, <1>2b, OnceAdded
    <3> QED BY <3>1, <3>3
  <2>4. k \in Nat /\ ~(l - 1 >= l) /\ l >= l
    BY <1>2a
  <2>5. IsRead(p, k)' => IsRead(p, k)
    BY <1>0, <1>1, <1>11 DEF IsRead
  <2>6. /\ Pending(p, k) <=> Pending(p, k)' \/ k = l - 1
        /\ Pending(p, k)' => k # l - 1
        /\ Pending(p, l)'
    BY <2>4, <1>0, <1>1, <1>11 DEF Pending
  <2> QED BY <2>1, <2>2, <2>3, <2>5, <2>6
<1>14. CorrectionInv(p)'
  <2> SUFFICES ASSUME NEW k \in Levels
               PROVE  /\ sc'[p][k] = SinceReset(p, k)'
                      /\ k = l => st'[p][k] = made'[p][k] /\ reset'[p][k] < made'[p][k]
    BY <1>13 DEF CorrectionInv
  <2>1. sc[p][k] = SinceReset(p, k)
    BY <1>3, <1>13 DEF DataInv, CorrectionInv
  <2>2. k = l => st'[p][k] = made'[p][k] /\ reset'[p][k] < made'[p][k]
    BY <1>0, <1>1, <1>2b, <1>6
  <2> QED BY <2>1, <2>2, <1>7, <1>13 DEF Changed
<1>15. DefectInv(p)'
  <2> SUFFICES ASSUME NEW k \in Levels
               PROVE  /\ UpToDate /\ IsRead(p, k)' =>
                           covered[p][k] = IF k = l THEN ButLast(p, k)' ELSE SinceReset(p, k)'
                      /\ k >= FullRefLevel[p] =>
                           surface[p][k] = Once(1, IF k = l THEN made'[p][k] - 1 ELSE made'[p][k])
    BY <1>1, <1>13 DEF DefectInv
  <2>1. /\ UpToDate /\ IsRead(p, k) => covered[p][k] = SinceReset(p, k)
        /\ k >= FullRefLevel[p] => surface[p][k] = Once(1, made[p][k])
    BY <1>3, <1>13 DEF DataInv, DefectInv
  <2>2. (IF k = l THEN made'[p][k] - 1 ELSE made'[p][k]) = made[p][k]
    BY <1>0, <1>2b, <1>6
  <2> QED BY <2>1, <2>2, <1>13
<1>16. GatherInv(p)'
  BY <1>11 DEF GatherInv
<1>17. SurfaceInv(p)'
  <2> SUFFICES ASSUME NEW k \in Levels
               PROVE  pC'[p][k] = IF k < FullRefLevel[p] \/ k = TopLevel THEN EmptyBag
                                  ELSE Once(1, IF Pending(p, k)' THEN reset[p][k] ELSE made'[p][k])
    BY <1>1, <1>11 DEF SurfaceInv
  <2>1. pC[p][k] = IF k < FullRefLevel[p] \/ k = TopLevel THEN EmptyBag
                   ELSE Once(1, IF Pending(p, k) THEN reset[p][k] ELSE made[p][k])
    BY <1>1, <1>3 DEF DataInv, SurfaceInv
  <2>2. CASE k # l - 1
    BY <2>1, <2>2, <1>6, <1>8, <1>13 DEF Changed
  <2>3. CASE k = l - 1
    <3>1. CoarserHasSurface(p, l) <=> ~(k < FullRefLevel[p])
      <4>1. FullRefLevel[p] \in Nat
        BY <1>2, LevelsAre
      <4> QED BY <4>1, <2>3, <1>2a DEF CoarserHasSurface
    <3>2. sc[p][k] = Once(g + 1, h)
      BY <2>3, <1>0, <1>2a, <1>3, <1>13 DEF DataInv, CorrectionInv, SinceReset
    <3>3. Once(1, g) (+) Once(g + 1, h) = Once(1, h)
      BY <1>2b, OnceTogether
    <3>4. made'[p][k] = h /\ reset[p][k] = g /\ Pending(p, k) /\ ~Pending(p, k)'
      BY <2>3, <1>0, <1>2a, <1>6, <1>13
    <3>5. pC'[p][k] = IF CoarserHasSurface(p, l) THEN pC[p][k] (+) sc[p][k] ELSE pC[p][k]
      BY <2>3, <1>8 DEF Changed
    <3> QED BY <2>1, <2>3, <3>1, <3>2, <3>3, <3>4, <3>5, <1>2a
  <2> QED BY <2>2, <2>3
<1> QED BY <1>0, <1>4, <1>10, <1>11, <1>12, <1>14, <1>15, <1>16, <1>17 DEF Moved, DataInv

\* Before the last correction is subtracted: what it is, and what comes of it.
LEMMA LastOne ==
  ASSUME NEW p \in Procs, NEW c, Known(p, c), pc[p] = "postsmooth"
  PROVE  /\ st[p][Lev(p)] = made[p][Lev(p)] /\ reset[p][Lev(p)] < made[p][Lev(p)]
         /\ made[p][Lev(p)] \in Nat /\ reset[p][Lev(p)] \in Nat /\ made[p][Lev(p)] - 1 \in Nat
         /\ Plus(ButLast(p, Lev(p)), made[p][Lev(p)]) = SinceReset(p, Lev(p))
         /\ Plus(Once(1, made[p][Lev(p)] - 1), made[p][Lev(p)]) = Once(1, made[p][Lev(p)])
<1>0. PICK l, m, r : l = Lev(p) /\ m = made[p][l] /\ r = reset[p][l]
  OBVIOUS
<1>1. l \in Levels /\ m \in Nat /\ r \in Nat
  <2>1. made[p] \in [Levels -> Nat] /\ reset[p] \in [Levels -> Nat] /\ l \in Levels
    BY <1>0, Here
  <2> QED BY <2>1, <1>0
<1>2. st[p][l] = m /\ r < m
  <2>1. ToBeSubtracted(p, l)
    BY <1>0 DEF ToBeSubtracted
  <2> QED BY <2>1, <1>0, <1>1 DEF Known, DataInv, CorrectionInv
<1> DEFINE k == m - 1
           a == r + 1
<1>3. k \in Nat /\ a \in Nat /\ a <= m /\ m = k + 1 /\ 1 \in Nat /\ 1 <= m
  BY <1>1, <1>2
<1>4. SinceReset(p, l) = Once(a, m) /\ ButLast(p, l) = Once(a, k)
  BY <1>0 DEF SinceReset, ButLast
<1>5. Plus(Once(a, k), m) = Once(a, m) /\ Plus(Once(1, k), m) = Once(1, m)
  <2> HIDE DEF a, k
  <2>1. Plus(Once(a, k), m) = Once(a, m)
    BY <1>1, <1>3, OnceAdded
  <2>2. Plus(Once(1, k), m) = Once(1, m)
    BY <1>1, <1>3, OnceAdded
  <2> QED BY <2>1, <2>2
<1> QED BY <1>0, <1>1, <1>2, <1>3, <1>4, <1>5

LEMMA PostSmoothMoves ==
  ASSUME NEW p \in Procs, NEW c, Known(p, c), PostSmooth(p)
  PROVE  Smooths(c) /\ c.at = "postsmooth" /\ Moved(p, Continued(c))
         /\ ~HasSent(p) /\ ~HasWaited(p) /\ ~HasSent(p)' /\ ~HasWaited(p)'
<1>0. PICK d, l, m, r, n : /\ d = Continued(c) /\ l = Lev(p) /\ n = made[p][l] + 1
                           /\ m = made[p][l] /\ r = reset[p][l]
  OBVIOUS
<1>1. /\ pc[p] = "postsmooth" /\ nu[p] < NumPostSmooth
      /\ covered' = [covered EXCEPT ![p][l] = Plus(@, st[p][l])]
      /\ surface' = [surface EXCEPT ![p][l] = Plus(@, st[p][l])]
      /\ Compute(p, l)
      /\ sc' = [sc EXCEPT ![p][l] = Plus(@, n)]
      /\ nu' = [nu EXCEPT ![p] = @ + 1]
      /\ UNCHANGED <<pc, stack, reset, t, channel, pC, solves>>
  BY <1>0 DEF PostSmooth, Subtract
<1>2. l = Top(c) /\ l \in Levels /\ l \in Nat /\ l > BaseLevel /\ l >= l
      /\ \A k \in Levels : k \in Nat
  <2>1. l = Top(c) /\ l \in Levels /\ l \in Nat /\ l > BaseLevel
    BY <1>0, <1>1, Here
  <2> QED BY <2>1, LevelsAre
<1>3. Shapes /\ At(p, c) /\ DataInv(p) /\ Sound(c)
  BY DEF Known
<1>2a. /\ st[p][l] = m /\ r < m /\ m \in Nat /\ r \in Nat /\ m - 1 \in Nat
       /\ Plus(ButLast(p, l), m) = SinceReset(p, l)
       /\ Plus(Once(1, m - 1), m) = Once(1, m)
  BY <1>0, <1>1, LastOne
<1>2b. n = m + 1 /\ n \in Nat /\ r < n /\ n - 1 = m /\ r + 1 \in Nat /\ r + 1 <= n
  <2>1. n = m + 1
    BY <1>0
  <2> QED BY <2>1, <1>2a
<1>4. c.at = "postsmooth" /\ Smooths(c) /\ c.nu = nu[p] /\ c.stack = stack[p]
      /\ c.made = made[p] /\ c.reset = reset[p]
  BY <1>1, <1>3 DEF At, PlaceOf, HasSent, HasReset, Smooths
<1>5. d.at = "postsmooth" /\ d.stack = stack[p] /\ d.nu = nu[p] + 1
      /\ d.made = OneMore(made[p], l) /\ d.reset = reset[p]
  BY <1>0, <1>2, <1>3, <1>4, ContinuedHas, OneWay DEF NextAt, NextStack, NextNu, NextMade, NextReset, Smooths
<1>6. /\ made' \in [Procs -> [Levels -> Nat]] /\ st' \in [Procs -> [Levels -> Nat]]
      /\ made'[p] = OneMore(made[p], l) /\ st'[p][l] = n /\ made'[p][l] = n
      /\ \A k \in Levels : k # l => made'[p][k] = made[p][k] /\ st'[p][k] = st[p][k]
      /\ \A q \in Procs : q # p => made'[q] = made[q] /\ st'[q] = st[q]
  BY <1>0, <1>1, <1>2, <1>3, ComputeIs
<1>7. /\ Changed(covered, covered', p, l, Plus(covered[p][l], m))
      /\ Changed(surface, surface', p, l, Plus(surface[p][l], m))
  BY <1>1, <1>2, <1>2a, <1>3, VectorChanges DEF Shapes
<1>8. Changed(sc, sc', p, l, Plus(sc[p][l], n))
  BY <1>1, <1>2, <1>3, VectorChanges DEF Shapes
<1>9. ChangedTo(nu, nu', p, nu[p] + 1)
  BY <1>1, <1>3, FieldChanges DEF Shapes
<1>10. Shapes' /\ \A q \in Procs : q # p => Untouched(q)
  BY <1>1, <1>3, <1>6, <1>7, <1>8, <1>9 DEF Shapes, Untouched, Changed, ChangedTo
<1>11. /\ pc'[p] = "postsmooth" /\ nu'[p] = nu[p] + 1 /\ Lev(p)' = l
       /\ ~HasSent(p) /\ ~HasWaited(p) /\ ~HasReset(p)
       /\ ~HasSent(p)' /\ ~HasWaited(p)' /\ ~HasReset(p)'
  BY <1>0, <1>1, <1>9 DEF HasSent, HasReset, HasWaited, ChangedTo, Lev
<1>12. At(p, d)'
  BY <1>1, <1>5, <1>6, <1>11 DEF At, PlaceOf
<1>13. ASSUME NEW k \in Levels
       PROVE  /\ ~ToBeAdded(p, k)' /\ ~ToBeAdded(p, k)
              /\ ToBeSubtracted(p, k)' <=> k = l
              /\ ToBeSubtracted(p, k) <=> k = l
              /\ k # l => SinceReset(p, k)' = SinceReset(p, k)
              /\ SinceReset(p, l)' = Plus(SinceReset(p, l), n)
              /\ ButLast(p, l)' = SinceReset(p, l)
              /\ IsRead(p, k)' <=> IsRead(p, k)
              /\ Pending(p, k)' <=> Pending(p, k)
              /\ Pending(p, l)
  <2>1. /\ ~ToBeAdded(p, k)' /\ ~ToBeAdded(p, k)
        /\ ToBeSubtracted(p, k)' <=> k = l
        /\ ToBeSubtracted(p, k) <=> k = l
    BY <1>0, <1>1, <1>11 DEF ToBeAdded, ToBeSubtracted
  <2>2. k # l => SinceReset(p, k)' = SinceReset(p, k)
    BY <1>1, <1>6 DEF SinceReset
  <2>3. SinceReset(p, l)' = Plus(SinceReset(p, l), n) /\ ButLast(p, l)' = SinceReset(p, l)
    <3>1. /\ SinceReset(p, l) = Once(r + 1, m) /\ SinceReset(p, l)' = Once(r + 1, n)
          /\ ButLast(p, l)' = Once(r + 1, m)
      BY <1>0, <1>1, <1>2b, <1>6 DEF SinceReset, ButLast
    <3>2. Plus(Once(r + 1, m), n) = Once(r + 1, n)
      <4>1. m \in Nat
        BY <1>2a
      <4> QED BY <4>1, <1>2b, OnceAdded
    <3> QED BY <3>1, <3>2
  <2>4. /\ IsRead(p, k)' <=> IsRead(p, k)
        /\ Pending(p, k)' <=> Pending(p, k)
        /\ Pending(p, l)
    BY <1>0, <1>1, <1>2, <1>11 DEF IsRead, Pending
  <2> QED BY <2>1, <2>2, <2>3, <2>4
<1>14. CorrectionInv(p)'
  <2> SUFFICES ASSUME NEW k \in Levels
               PROVE  /\ sc'[p][k] = SinceReset(p, k)'
                      /\ k = l => st'[p][k] = made'[p][k] /\ reset'[p][k] < made'[p][k]
    BY <1>13 DEF CorrectionInv
  <2>1. sc[p][k] = SinceReset(p, k)
    BY <1>3, <1>13 DEF DataInv, CorrectionInv
  <2>2. k = l => st'[p][k] = made'[p][k] /\ reset'[p][k] < made'[p][k]
    BY <1>0, <1>1, <1>2b, <1>6
  <2> QED BY <2>1, <2>2, <1>8, <1>13 DEF Changed
<1>15. DefectInv(p)'
  <2> SUFFICES ASSUME NEW k \in Levels
               PROVE  /\ UpToDate /\ IsRead(p, k)' =>
                           covered'[p][k] = IF k = l THEN ButLast(p, k)' ELSE SinceReset(p, k)'
                      /\ k >= FullRefLevel[p] =>
                           surface'[p][k] = Once(1, IF k = l THEN made'[p][k] - 1 ELSE made'[p][k])
    BY <1>1, <1>13 DEF DefectInv
  <2>1. /\ UpToDate /\ IsRead(p, k) =>
             covered[p][k] = IF k = l THEN ButLast(p, k) ELSE SinceReset(p, k)
        /\ k >= FullRefLevel[p] =>
             surface[p][k] = Once(1, IF k = l THEN made[p][k] - 1 ELSE made[p][k])
    BY <1>3, <1>13 DEF DataInv, DefectInv
  <2>2. CASE k = l
    <3>1. made'[p][k] - 1 = m /\ made[p][k] - 1 = m - 1
      BY <2>2, <1>0, <1>2b, <1>6
    <3> QED BY <2>1, <2>2, <3>1, <1>2a, <1>7, <1>13 DEF Changed
  <2>3. CASE k # l
    BY <2>1, <2>3, <1>6, <1>7, <1>13 DEF Changed
  <2> QED BY <2>2, <2>3
<1>16. GatherInv(p)'
  BY <1>11 DEF GatherInv
<1>17. SurfaceInv(p)'
  <2> SUFFICES ASSUME NEW k \in Levels
               PROVE  pC[p][k] = IF k < FullRefLevel[p] \/ k = TopLevel THEN EmptyBag
                                 ELSE Once(1, IF Pending(p, k) THEN reset[p][k] ELSE made'[p][k])
    BY <1>1, <1>11, <1>13 DEF SurfaceInv
  <2>1. pC[p][k] = IF k < FullRefLevel[p] \/ k = TopLevel THEN EmptyBag
                   ELSE Once(1, IF Pending(p, k) THEN reset[p][k] ELSE made[p][k])
    BY <1>1, <1>3 DEF DataInv, SurfaceInv
  <2> QED BY <2>1, <1>6, <1>13
<1> QED BY <1>0, <1>4, <1>10, <1>11, <1>12, <1>14, <1>15, <1>16, <1>17 DEF Moved, DataInv

LEMMA ReturnMoves ==
  ASSUME NEW p \in Procs, NEW c, Known(p, c), Return(p)
  PROVE  Returns(c) /\ c.at = "postsmooth" /\ Moved(p, Continued(c))
         /\ ~HasSent(p) /\ ~HasWaited(p) /\ ~HasSent(p)' /\ ~HasWaited(p)'
<1>0. PICK d, l, m : d = Continued(c) /\ l = Lev(p) /\ m = made[p][l]
  OBVIOUS
<1>1. /\ pc[p] = "postsmooth" /\ nu[p] = NumPostSmooth
      /\ IF l >= FullRefLevel[p] \/ Observed
         THEN /\ covered' = [covered EXCEPT ![p][l] = Plus(@, st[p][l])]
              /\ surface' = [surface EXCEPT ![p][l] = Plus(@, st[p][l])]
         ELSE UNCHANGED <<covered, surface>>
      /\ stack' = [stack EXCEPT ![p] = Tail(@)]
      /\ pc' = [pc EXCEPT ![p] = IF Len(stack[p]) = 1 THEN "finish" ELSE "coarse"]
      /\ UNCHANGED <<nu, made, reset, st, sc, t, channel, pC, solves>>
  BY <1>0 DEF Return, Subtract, Leave, Goto
<1>2. /\ l = Top(c) /\ l \in Levels /\ l \in Nat /\ l > BaseLevel
      /\ BaseLevel \in Nat /\ TopLevel \in Nat /\ l <= TopLevel
      /\ FullRefLevel[p] \in Nat
      /\ \A k \in Levels : k \in Nat /\ k <= TopLevel
  <2>1. l = Top(c) /\ l \in Levels /\ l \in Nat /\ l > BaseLevel /\ FullRefLevel[p] \in Levels
    BY <1>0, <1>1, Here
  <2> QED BY <2>1, LevelsAre
<1>2a. /\ st[p][l] = m
       /\ Plus(ButLast(p, l), m) = SinceReset(p, l)
       /\ Plus(Once(1, m - 1), m) = Once(1, m)
  BY <1>0, <1>1, LastOne
<1>3. Shapes /\ At(p, c) /\ DataInv(p) /\ Sound(c)
  BY DEF Known
<1>4. c.at = "postsmooth" /\ Returns(c) /\ c.nu = nu[p] /\ c.stack = stack[p]
      /\ c.made = made[p] /\ c.reset = reset[p]
  BY <1>1, <1>3 DEF At, PlaceOf, HasSent, HasReset, Returns
<1>5. /\ d.at = (IF Len(c.stack) = 1 THEN "finish" ELSE "coarse") /\ d.stack = Tail(c.stack)
      /\ d.nu = c.nu /\ d.made = c.made /\ d.reset = c.reset
  BY <1>0, <1>1, <1>3, <1>4, ContinuedHas, OneWay DEF NextAt, NextStack, NextNu, NextMade, NextReset, Restricts, Descends, Prolongates
<1>6. /\ d.at \in {"finish", "coarse"}
      /\ d.at = "coarse" => Top(d) = l + 1 /\ (~Repeats(l + 1) => CallsOf(d) = <<>>)
      /\ d.at = "finish" => l = TopLevel
  BY <1>0, <1>2, <1>3, <1>4, ReturnsTo
<1>7. ChangedTo(pc, pc', p, d.at) /\ ChangedTo(stack, stack', p, d.stack)
  BY <1>1, <1>3, <1>4, <1>5, FieldChanges DEF Shapes
<1>8. /\ Changed(covered, covered', p, l, IF l >= FullRefLevel[p] \/ Observed THEN Plus(covered[p][l], m) ELSE covered[p][l])
      /\ Changed(surface, surface', p, l, IF l >= FullRefLevel[p] \/ Observed THEN Plus(surface[p][l], m) ELSE surface[p][l])
  <2>1. CASE l >= FullRefLevel[p] \/ Observed
    BY <2>1, <1>1, <1>2, <1>2a, <1>3, VectorChanges DEF Shapes
  <2>2. CASE ~(l >= FullRefLevel[p] \/ Observed)
    BY <2>2, <1>1, <1>3 DEF Shapes, Changed
  <2> QED BY <2>1, <2>2
<1>9. Shapes' /\ \A q \in Procs : q # p => Untouched(q)
  BY <1>1, <1>3, <1>7, <1>8 DEF Shapes, Untouched, Changed, ChangedTo
<1>10. /\ pc'[p] = d.at /\ stack'[p] = d.stack
       /\ ~HasSent(p) /\ ~HasWaited(p) /\ ~HasReset(p)
       /\ ~HasSent(p)' /\ ~HasWaited(p)' /\ ~HasReset(p)'
  BY <1>1, <1>6, <1>7 DEF HasSent, HasReset, HasWaited, ChangedTo
<1>11. At(p, d)'
  BY <1>1, <1>4, <1>5, <1>6, <1>10 DEF At, PlaceOf
<1>12. d.at = "coarse" => Lev(p)' = l + 1 /\ Head(stack'[p]).calls = CallsOf(d)
  BY <1>6, <1>10 DEF Lev, Top, CallsOf
<1>13. ASSUME NEW k \in Levels
       PROVE  /\ ~ToBeAdded(p, k)' /\ ~ToBeAdded(p, k) /\ ~ToBeSubtracted(p, k)'
              /\ ToBeSubtracted(p, k) <=> k = l
              /\ SinceReset(p, k)' = SinceReset(p, k)
              /\ IsRead(p, k)' => IsRead(p, k)
              /\ IsRead(p, k)' /\ k = l => Repeats(l + 1)
              /\ Pending(p, k)' => Pending(p, k)
              /\ Pending(p, k) => Pending(p, k)' \/ k = TopLevel
  <2>1. /\ ~ToBeAdded(p, k)' /\ ~ToBeAdded(p, k) /\ ~ToBeSubtracted(p, k)'
        /\ ToBeSubtracted(p, k) <=> k = l
        /\ SinceReset(p, k)' = SinceReset(p, k)
    BY <1>0, <1>1, <1>6, <1>10 DEF ToBeAdded, ToBeSubtracted, SinceReset
  <2>2. /\ k >= l + 1 => k >= l
        /\ k = (l + 1) - 1 <=> k = l
        /\ k >= l => k >= l + 1 \/ k = l
        /\ ~(l >= l + 1)
        /\ l >= l
        /\ l = TopLevel /\ k >= l => k = TopLevel
    BY <1>2
  <2>3. CASE d.at = "coarse"
    BY <2>1, <2>2, <2>3, <1>0, <1>1, <1>6, <1>10, <1>12 DEF IsRead, Pending
  <2>4. CASE d.at = "finish"
    BY <2>1, <2>2, <2>4, <1>0, <1>1, <1>6, <1>10 DEF IsRead, Pending
  <2> QED BY <2>3, <2>4, <1>6
<1>14. CorrectionInv(p)'
  BY <1>1, <1>3, <1>13 DEF DataInv, CorrectionInv
<1>15. DefectInv(p)'
  <2> SUFFICES ASSUME NEW k \in Levels
               PROVE  /\ UpToDate /\ IsRead(p, k)' => covered'[p][k] = SinceReset(p, k)
                      /\ k >= FullRefLevel[p] => surface'[p][k] = Once(1, made[p][k])
    BY <1>1, <1>13 DEF DefectInv
  <2>1. /\ UpToDate /\ IsRead(p, k) =>
             covered[p][k] = IF k = l THEN ButLast(p, k) ELSE SinceReset(p, k)
        /\ k >= FullRefLevel[p] =>
             surface[p][k] = Once(1, IF k = l THEN made[p][k] - 1 ELSE made[p][k])
    BY <1>3, <1>13 DEF DataInv, DefectInv
  <2>2. CASE k = l
    <3>1. UpToDate /\ IsRead(p, k)' => l >= FullRefLevel[p] \/ Observed
      <4>1. UpToDate /\ Repeats(l + 1) => FullRefLevel[p] <= BaseLevel + 1 \/ Observed
        BY DEF UpToDate, Repeats
      <4>2. FullRefLevel[p] <= BaseLevel + 1 => l >= FullRefLevel[p]
        BY <1>2
      <4> QED BY <4>1, <4>2, <2>2, <1>13
    <3>2. made[p][k] - 1 = m - 1 /\ made[p][k] = m
      BY <2>2, <1>0
    <3> QED BY <2>1, <2>2, <3>1, <3>2, <1>2a, <1>8, <1>13 DEF Changed
  <2>3. CASE k # l
    BY <2>1, <2>3, <1>8, <1>13 DEF Changed
  <2> QED BY <2>2, <2>3
<1>16. GatherInv(p)'
  BY <1>6, <1>10 DEF GatherInv
<1>17. SurfaceInv(p)'
  <2>1. pc[p] # "done" /\ pc'[p] # "done"
    BY <1>1, <1>6, <1>10
  <2> QED BY <2>1, <1>1, <1>3, <1>13 DEF DataInv, SurfaceInv
<1> QED BY <1>0, <1>4, <1>9, <1>10, <1>11, <1>14, <1>15, <1>16, <1>17 DEF Moved, DataInv

LEMMA FinishMoves ==
  ASSUME NEW p \in Procs, NEW c, Known(p, c), Finish(p)
  PROVE  c.at = "finish" /\ Moved(p, Continued(c))
         /\ ~HasSent(p) /\ ~HasWaited(p) /\ ~HasSent(p)' /\ ~HasWaited(p)'
<1>0. PICK d, l : d = Continued(c) /\ l = TopLevel
  OBVIOUS
<1>1. /\ pc[p] = "finish"
      /\ pC' = [pC EXCEPT ![p][l] = @ (+) sc[p][l]]
      /\ pc' = [pc EXCEPT ![p] = "done"]
      /\ UNCHANGED <<stack, nu, made, reset, st, sc, covered, surface, t, channel, solves>>
  BY <1>0 DEF Finish, Goto
<1>2. /\ l \in Levels /\ FullRefLevel[p] \in Levels /\ l >= FullRefLevel[p]
      /\ ~(l < FullRefLevel[p])
  <2>1. FullRefLevel[p] \in Levels
    BY Here
  <2>2. FullRefLevel[p] \in Nat /\ FullRefLevel[p] <= TopLevel /\ TopLevel \in Nat /\ l \in Levels
    BY <2>1, <1>0, LevelIs, LevelsAre
  <2> QED BY <2>1, <2>2, <1>0
<1>3. Shapes /\ At(p, c) /\ DataInv(p) /\ Sound(c)
  BY DEF Known
<1>4. c.at = "finish" /\ c.nu = nu[p] /\ c.stack = stack[p] /\ c.made = made[p] /\ c.reset = reset[p]
  BY <1>1, <1>3 DEF At, PlaceOf, HasSent, HasReset
<1>5. /\ d.at = "done" /\ d.stack = c.stack /\ d.nu = c.nu /\ d.made = c.made /\ d.reset = c.reset
  BY <1>0, <1>3, <1>4, ContinuedHas, OneWay DEF NextAt, NextStack, NextNu, NextMade, NextReset
<1>6. ChangedTo(pc, pc', p, "done")
  BY <1>1, <1>3, FieldChanges DEF Shapes
<1>7. Changed(pC, pC', p, l, pC[p][l] (+) sc[p][l])
  BY <1>1, <1>2, <1>3, VectorChanges DEF Shapes
<1>8. Shapes' /\ \A q \in Procs : q # p => Untouched(q)
  BY <1>1, <1>3, <1>6, <1>7 DEF Shapes, Untouched, Changed, ChangedTo
<1>9. /\ pc'[p] = "done"
      /\ ~HasSent(p) /\ ~HasWaited(p) /\ ~HasReset(p)
      /\ ~HasSent(p)' /\ ~HasWaited(p)' /\ ~HasReset(p)'
  BY <1>1, <1>6 DEF HasSent, HasReset, HasWaited, ChangedTo
<1>10. At(p, d)'
  BY <1>1, <1>4, <1>5, <1>9 DEF At, PlaceOf
<1>11. ASSUME NEW k \in Levels
       PROVE  /\ ~ToBeAdded(p, k)' /\ ~ToBeAdded(p, k) /\ ~ToBeSubtracted(p, k)' /\ ~ToBeSubtracted(p, k)
              /\ SinceReset(p, k)' = SinceReset(p, k)
              /\ ~IsRead(p, k)' /\ ~Pending(p, k)' /\ ~Pending(p, k)
  BY <1>1, <1>9 DEF ToBeAdded, ToBeSubtracted, SinceReset, IsRead, Pending
<1>12. CorrectionInv(p)' /\ DefectInv(p)' /\ GatherInv(p)'
  BY <1>1, <1>3, <1>9, <1>11 DEF DataInv, CorrectionInv, DefectInv, GatherInv
<1>13. SurfaceInv(p)'
  <2> SUFFICES ASSUME NEW k \in Levels
               PROVE  pC'[p][k] = IF k < FullRefLevel[p] THEN EmptyBag ELSE Once(1, made[p][k])
    BY <1>1, <1>9, <1>11 DEF SurfaceInv
  <2>1. pC[p][k] = IF k < FullRefLevel[p] \/ k = l THEN EmptyBag ELSE Once(1, made[p][k])
    BY <1>0, <1>1, <1>3, <1>11 DEF DataInv, SurfaceInv
  <2>2. CASE k = l
    <3>1. sc[p][l] = Once(1, made[p][l])
      <4>1. sc[p][l] = Once(reset[p][l] + 1, made[p][l])
        BY <1>2, <1>3, <1>11 DEF DataInv, CorrectionInv, SinceReset
      <4>2. reset[p][l] = 0
        BY <1>0, <1>3, <1>4 DEF Sound
      <4> QED BY <4>1, <4>2
    <3>2. EmptyBag (+) sc[p][l] = sc[p][l]
      BY <3>1, OnceAlone
    <3> QED BY <2>1, <2>2, <3>1, <3>2, <1>2, <1>7 DEF Changed
  <2> QED BY <2>1, <2>2, <1>7 DEF Changed
<1> QED BY <1>0, <1>4, <1>8, <1>9, <1>10, <1>12, <1>13 DEF Moved, DataInv

-----------------------------------------------------------------------------
(* The history all processes have in common.                               *)

\* H are the places 0 .. N of the recursion.
History(H, N) ==
  /\ GatherAlike
  /\ N \in Nat /\ H[0] = Start
  /\ \A n \in Nat : n < N => H[n + 1] = Continued(H[n])
  /\ \A n \in Nat : n <= N => Sound(H[n])

\* Before which place p has still to give, and to take, when it is at place number k[p].
SentTo(k) == [p \in Procs |-> IF HasSent(p) THEN k[p] + 1 ELSE k[p]]
GotTo(k) == [p \in Procs |-> IF HasWaited(p) THEN k[p] + 1 ELSE k[p]]

Tracked(H, N, k) ==
  /\ History(H, N)
  /\ k \in [Procs -> Nat]
  /\ \A p \in Procs : k[p] <= N /\ At(p, H[k[p]])
  /\ AllCarry(channel, SentTo(k), GotTo(k), H)

Inv == /\ Shapes
       /\ \A p \in Procs : DataInv(p)
       /\ \E H, N, k : Tracked(H, N, k)

\* What is on its way does not depend on what is to come.
LEMMA CarriesOver ==
  ASSUME NEW ch, NEW q, NEW p, NEW H, NEW N \in Nat, NEW hi \in Nat, NEW lo \in Nat,
         Carries(ch, q, p, hi, lo, H), hi <= N + 1, lo <= N + 1,
         NEW G, \A n \in Nat : n <= N => G[n] = H[n]
  PROVE  Carries(ch, q, p, hi, lo, G)
<1>1. PICK idx : Indexed(ch, q, p, hi, lo, H, idx)
  BY DEF Carries
<1>2. \A n \in Nat : n < hi \/ n < lo => G[n] = H[n]
  <2>1. \A n \in Nat : n < hi \/ n < lo => n <= N
    OBVIOUS
  <2> QED BY <2>1
<1>3. \A i \in 1 .. Len(ch) : idx[i] \in Nat /\ idx[i] < hi
  BY <1>1 DEF Indexed
<1>4. Indexed(ch, q, p, hi, lo, G, idx)
  BY <1>1, <1>2, <1>3 DEF Indexed
<1>5. \A n \in Nat : hi <= n /\ n < lo => ~Gives(q, p, G[n])
  BY <1>2 DEF Carries
<1> QED BY <1>4, <1>5 DEF Carries

LEMMA HowFar ==
  ASSUME NEW k \in [Procs -> Nat]
  PROVE  /\ SentTo(k) \in [Procs -> Nat] /\ GotTo(k) \in [Procs -> Nat]
         /\ \A p \in Procs : /\ SentTo(k)[p] = IF HasSent(p) THEN k[p] + 1 ELSE k[p]
                             /\ GotTo(k)[p] = IF HasWaited(p) THEN k[p] + 1 ELSE k[p]
<1>1. \A p \in Procs : k[p] \in Nat /\ k[p] + 1 \in Nat
  OBVIOUS
<1> QED BY <1>1 DEF SentTo, GotTo

\* There is always a next place, ...
LEMMA GoesOn ==
  ASSUME NEW H, NEW N, NEW k, Tracked(H, N, k)
  PROVE  N + 1 \in Nat /\ \E G : Tracked(G, N + 1, k)
<1>1. /\ N \in Nat /\ N + 1 \in Nat /\ H[0] = Start /\ GatherAlike
      /\ \A n \in Nat : n < N => H[n + 1] = Continued(H[n])
      /\ \A n \in Nat : n <= N => Sound(H[n])
      /\ k \in [Procs -> Nat]
      /\ \A p \in Procs : k[p] <= N /\ At(p, H[k[p]])
  BY DEF Tracked, History
<1> DEFINE G == [n \in Nat |-> IF n <= N THEN H[n] ELSE Continued(H[N])]
<1>2. (\A n \in Nat : n <= N => G[n] = H[n]) /\ G[N + 1] = Continued(H[N])
  <2>1. ~(N + 1 <= N)
    BY <1>1
  <2> QED BY <2>1, <1>1
<1> HIDE DEF G
<1>3. History(G, N + 1)
  <2>1. G[0] = Start
    BY <1>1, <1>2
  <2>2. ASSUME NEW n \in Nat, n < N + 1
        PROVE  G[n + 1] = Continued(G[n])
    <3>1. CASE n = N
      BY <3>1, <1>1, <1>2
    <3>2. CASE n < N
      <4>1. n + 1 \in Nat /\ n + 1 <= N /\ n <= N
        BY <3>2, <1>1
      <4> QED BY <4>1, <3>2, <1>1, <1>2
    <3> QED BY <3>1, <3>2, <2>2, <1>1
  <2>3. ASSUME NEW n \in Nat, n <= N + 1
        PROVE  Sound(G[n])
    <3>1. CASE n <= N
      BY <3>1, <1>1, <1>2
    <3>2. CASE n = N + 1
      <4>1. Sound(H[N])
        BY <1>1
      <4> QED BY <4>1, <3>2, <1>2, ContinuedIsSound
    <3> QED BY <3>1, <3>2, <2>3, <1>1
  <2> QED BY <2>1, <2>2, <2>3, <1>1 DEF History
<1>4. \A p \in Procs : k[p] <= N + 1 /\ At(p, G[k[p]])
  <2>1. \A p \in Procs : k[p] \in Nat /\ k[p] <= N
    BY <1>1
  <2>2. \A p \in Procs : k[p] <= N + 1
    BY <2>1, <1>1
  <2> QED BY <2>1, <2>2, <1>1, <1>2
<1>5. AllCarry(channel, SentTo(k), GotTo(k), G)
  <2>1. PICK hi, lo : hi = SentTo(k) /\ lo = GotTo(k)
    OBVIOUS
  <2>2. AllCarry(channel, hi, lo, H)
    BY <2>1 DEF Tracked
  <2>3. ASSUME NEW p \in Procs
        PROVE  hi[p] \in Nat /\ lo[p] \in Nat /\ hi[p] <= N + 1 /\ lo[p] <= N + 1
    <3>1. k[p] \in Nat /\ k[p] <= N
      BY <1>1
    <3>2. hi[p] \in {k[p], k[p] + 1} /\ lo[p] \in {k[p], k[p] + 1}
      BY <2>1, <1>1, HowFar
    <3> QED BY <3>1, <3>2, <1>1
  <2>4. \A q, p \in Procs : Carries(channel[q][p], q, p, hi[q], lo[p], G)
    BY <2>2, <2>3, <1>1, <1>2, CarriesOver DEF AllCarry
  <2>5. AllCarry(channel, hi, lo, G)
    BY <2>2, <2>4 DEF AllCarry
  <2> QED BY <2>1, <2>5
<1> QED BY <1>1, <1>3, <1>4, <1>5 DEF Tracked

\* ... and a step takes a process to a place of the same history.
Reaches(H, N, k, p, j, hi, lo) ==
  /\ j \in Nat /\ j <= N /\ Moved(p, H[j])
  /\ hi \in [Procs -> Nat] /\ hi[p] = IF HasSent(p)' THEN j + 1 ELSE j
  /\ lo \in [Procs -> Nat] /\ lo[p] = IF HasWaited(p)' THEN j + 1 ELSE j
  /\ \A q \in Procs : q # p => hi[q] = SentTo(k)[q] /\ lo[q] = GotTo(k)[q]
  /\ AllCarry(channel', hi, lo, H)

LEMMA StaysTracked ==
  ASSUME NEW H, NEW N, NEW k, Tracked(H, N, k), \A q \in Procs : DataInv(q),
         NEW p \in Procs, NEW j, NEW hi, NEW lo, Reaches(H, N, k, p, j, hi, lo)
  PROVE  Inv'
<1> DEFINE k2 == [k EXCEPT ![p] = j]
<1>1. k \in [Procs -> Nat] /\ \A q \in Procs : k[q] <= N /\ At(q, H[k[q]])
  BY DEF Tracked
<1>2. k2 \in [Procs -> Nat] /\ k2[p] = j /\ \A q \in Procs : q # p => k2[q] = k[q]
  BY <1>1 DEF Reaches
<1> HIDE DEF k2
<1>3. \A q \in Procs : q # p =>
        DataInv(q)' /\ At(q, H[k[q]])' /\ HasSent(q)' = HasSent(q) /\ HasWaited(q)' = HasWaited(q)
  BY <1>1, UntouchedStays DEF Moved, Reaches
<1>4. \A q \in Procs : DataInv(q)'
  BY <1>3 DEF Moved, Reaches
<1>5. \A q \in Procs : k2[q] <= N /\ At(q, H[k2[q]])'
  BY <1>1, <1>2, <1>3 DEF Moved, Reaches
<1>6. ASSUME NEW q \in Procs
      PROVE  /\ hi[q] = IF HasSent(q)' THEN k2[q] + 1 ELSE k2[q]
             /\ lo[q] = IF HasWaited(q)' THEN k2[q] + 1 ELSE k2[q]
  BY <1>1, <1>2, <1>3, HowFar DEF Reaches
<1>7. SentTo(k2)' = hi /\ GotTo(k2)' = lo
  BY <1>6 DEF SentTo, GotTo, Reaches
<1>8. Tracked(H, N, k2)'
  BY <1>2, <1>5, <1>7 DEF Tracked, Reaches
<1> QED BY <1>4, <1>8 DEF Inv, Moved, Reaches

-----------------------------------------------------------------------------
(* What is given and taken on the way from a place to the next.            *)

\* Who gives p a message at a place, and to whom p gives one.
LEMMA WhoGives ==
  ASSUME NEW p \in Procs, NEW c, Sound(c), GatherAlike, NEW l, l = Top(c), NEW r \in Procs
  PROVE  /\ Restricts(c) => /\ Gives(p, r, c) <=> r \in {VMaster[l][p]} \ {p}
                            /\ Gives(r, p, c) <=> r \in Slaves(p, l)
         /\ c.at = "base" =>
              /\ Gives(p, r, c) <=> Gathers(p) /\ r \in {VMaster[l][p]} \ {p}
              /\ Gives(r, p, c) <=> Gathers(p) /\ r \in Slaves(p, l)
         /\ Prolongates(c) => /\ Gives(p, r, c) <=> r \in Slaves(p, l)
                              /\ Gives(r, p, c) <=> r \in {VMaster[l][p]} \ {p}
         /\ c.at = "correction" =>
              /\ Gives(p, r, c) <=> Gathers(p) /\ r \in Slaves(p, l)
              /\ Gives(r, p, c) <=> Gathers(p) /\ r \in {VMaster[l][p]} \ {p}
         /\ Smooths(c) \/ Descends(c) \/ c.at \in {"finish", "done"}
              \/ (Returns(c) /\ c.at = "postsmooth") => ~Gives(p, r, c) /\ ~Gives(r, p, c)
<1>1. /\ Restricts(c) => ~Prolongates(c) /\ c.at = "presmooth"
      /\ Prolongates(c) => ~Restricts(c) /\ c.at = "coarse"
      /\ c.at \in {"base", "correction"} => ~Restricts(c) /\ ~Prolongates(c)
      /\ Smooths(c) \/ Descends(c) \/ c.at \in {"finish", "done"}
           \/ (Returns(c) /\ c.at = "postsmooth") =>
             ~Restricts(c) /\ ~Prolongates(c) /\ c.at \notin {"base", "correction"}
  BY OneWay DEF Restricts, Prolongates, Smooths, Descends, Returns
<1>2. c.at \in {"base", "correction"} => l = BaseLevel
  BY DEF Sound
<1>3. /\ r = VMaster[BaseLevel][p] => (Gathers(r) <=> Gathers(p))
      /\ p = VMaster[BaseLevel][r] => (Gathers(r) <=> Gathers(p))
  BY DEF GatherAlike
<1> QED BY <1>1, <1>2, <1>3 DEF Gives, Slaves

\* The messages p gives and takes between a place and the next.
Nothing(p, c) == /\ channel' = channel
                 /\ \A r \in Procs : ~Gives(p, r, c) /\ ~Gives(r, p, c)
Giving(p, c, m) == Given(channel, p, c, m, channel')
Taking(p, c) == Taken(channel, p, c, channel')
GivesNothing(p, c) == \A r \in Procs : ~Gives(p, r, c)
TakesNothing(p, c) == \A r \in Procs : ~Gives(r, p, c)

LEMMA SendIs ==
  ASSUME NEW p \in Procs, NEW c, NEW l, NEW kind, NEW body, NEW R,
         \A r \in Procs : r \in R <=> Gives(p, r, c),
         Send(p, l, kind, body, R),
         (\E r \in Procs : Gives(p, r, c)) => Fits([lev |-> l, kind |-> kind, body |-> body], c)
  PROVE  Giving(p, c, [lev |-> l, kind |-> kind, body |-> body])
<1> DEFINE m == [lev |-> l, kind |-> kind, body |-> body]
<1>1. channel' = [channel EXCEPT ![p] = [r \in Procs |->
                   IF r \in R THEN Append(channel[p][r], m) ELSE channel[p][r]]]
  BY DEF Send
<1>2. [r \in Procs |-> IF r \in R THEN Append(channel[p][r], m) ELSE channel[p][r]]
      = [r \in Procs |-> IF Gives(p, r, c) THEN Append(channel[p][r], m) ELSE channel[p][r]]
  OBVIOUS
<1> QED BY <1>1, <1>2 DEF Giving, Given

LEMMA TakenIs ==
  ASSUME NEW p \in Procs, NEW c, NEW S,
         \A r \in Procs : r \in S <=> Gives(r, p, c),
         \A r \in Procs : r \in S => channel[r][p] # <<>>,
         channel' = TakenFrom(p, S)
  PROVE  Taking(p, c)
  BY DEF Taking, Taken, TakenFrom

\* All that is known when p is about to take a step from place number j, c; two
\* places, number i and n, are to come.
Underway(H, N, k, p, j, i, n, c) ==
  /\ GatherAlike /\ Known(p, c) /\ Sound(c) /\ At(p, c) /\ Tracked(H, N, k)
  /\ \A q \in Procs : DataInv(q)
  /\ j \in Nat /\ i \in Nat /\ n \in Nat /\ j <= N /\ i <= N /\ n <= N
  /\ i = j + 1 /\ n = i + 1
  /\ H[j] = c /\ H[i] = Continued(c) /\ H[n] = Continued(Continued(c))
  /\ SentTo(k) \in [Procs -> Nat] /\ SentTo(k)[p] = IF HasSent(p) THEN i ELSE j
  /\ GotTo(k) \in [Procs -> Nat] /\ GotTo(k)[p] = IF HasWaited(p) THEN i ELSE j
  /\ AllCarry(channel, SentTo(k), GotTo(k), H)

LEMMA GetsUnderway ==
  ASSUME NEW H, NEW N, NEW k, NEW p \in Procs, NEW j, NEW i, NEW n, NEW c,
         Shapes, \A q \in Procs : DataInv(q), Tracked(H, N, k),
         j = k[p], c = H[j], j + 2 <= N, i = j + 1, n = j + 2
  PROVE  Underway(H, N, k, p, j, i, n, c)
<1>1. N \in Nat /\ k \in [Procs -> Nat] /\ j \in Nat
  BY DEF Tracked, History
<1>2. /\ i \in Nat /\ n \in Nat /\ i + 1 = n /\ j <= N /\ i <= N /\ n <= N /\ j < N /\ i < N
  BY <1>1
<1>3. Sound(c) /\ At(p, c) /\ GatherAlike
  BY <1>1, <1>2 DEF Tracked, History
<1>4. H[i] = Continued(c) /\ H[n] = Continued(Continued(c))
  <2>1. \A a \in Nat : a < N => H[a + 1] = Continued(H[a])
    BY <1>1 DEF Tracked, History
  <2>2. H[j + 1] = Continued(c) /\ H[i + 1] = Continued(H[i])
    BY <2>1, <1>1, <1>2
  <2> QED BY <2>2, <1>1, <1>2
<1>5. /\ SentTo(k) \in [Procs -> Nat] /\ SentTo(k)[p] = IF HasSent(p) THEN i ELSE j
      /\ GotTo(k) \in [Procs -> Nat] /\ GotTo(k)[p] = IF HasWaited(p) THEN i ELSE j
  BY <1>1, HowFar
<1>6. AllCarry(channel, SentTo(k), GotTo(k), H)
  BY <1>1 DEF Tracked
<1> QED BY <1>1, <1>2, <1>3, <1>4, <1>5, <1>6 DEF Known, Underway

\* What q has given p is what p takes.
LEMMA HeadFits ==
  ASSUME NEW H, NEW N, NEW k, NEW p \in Procs, NEW j, NEW i, NEW n, NEW c,
         Underway(H, N, k, p, j, i, n, c),
         ~HasWaited(p), NEW q \in Procs, Gives(q, p, c), channel[q][p] # <<>>
  PROVE  Fits(Head(channel[q][p]), c)
<1>1. PICK hi, lo : hi = SentTo(k) /\ lo = GotTo(k)
  OBVIOUS
<1>2. /\ hi \in [Procs -> Nat] /\ lo \in [Procs -> Nat] /\ lo[p] = j /\ H[j] = c /\ j \in Nat
      /\ AllCarry(channel, hi, lo, H)
  BY <1>1 DEF Underway
<1>3. Carries(channel[q][p], q, p, hi[q], j, H) /\ hi[q] \in Nat
  BY <1>2 DEF AllCarry
<1> QED BY <1>2, <1>3, TakesOne

LEMMA OneFurther ==
  ASSUME NEW f \in [Procs -> Nat], NEW p \in Procs, NEW g, g = [f EXCEPT ![p] = @ + 1],
         NEW i, i = f[p] + 1
  PROVE  g \in [Procs -> Nat] /\ g[p] = i /\ \A q \in Procs : q # p => g[q] = f[q]
  OBVIOUS

\* p gives and takes what it has to at its place.
LEMMA Exchanges ==
  ASSUME NEW H, NEW hi, NEW lo, NEW p \in Procs, AllCarry(channel, hi, lo, H),
         NEW c, c = H[hi[p]], c = H[lo[p]],
         \/ Nothing(p, c)
         \/ TakesNothing(p, c) /\ \E m : Giving(p, c, m)
         \/ GivesNothing(p, c) /\ Taking(p, c),
         NEW hi2, hi2 = [hi EXCEPT ![p] = @ + 1], NEW lo2, lo2 = [lo EXCEPT ![p] = @ + 1]
  PROVE  AllCarry(channel', hi2, lo2, H)
<1>1. PICK ch : ch = channel'
  OBVIOUS
<1>2. hi \in [Procs -> Nat] /\ lo \in [Procs -> Nat]
  BY DEF AllCarry
<1>3. hi2 \in [Procs -> Nat] /\ lo2 \in [Procs -> Nat]
  BY <1>2
<1>4. CASE Nothing(p, c)
  <2>1. AllCarry(channel, hi2, lo, H)
    BY <1>4, NoneGive DEF Nothing
  <2>2. AllCarry(channel, hi2, lo2, H)
    BY <2>1, <1>4, NoneTake DEF Nothing
  <2> QED BY <2>2, <1>4 DEF Nothing
<1>5. CASE TakesNothing(p, c) /\ \E m : Giving(p, c, m)
  <2>1. PICK m : Giving(p, c, m)
    BY <1>5
  <2>2. Given(channel, p, H[hi[p]], m, ch)
    BY <2>1, <1>1 DEF Giving
  <2>3. AllCarry(ch, hi2, lo, H)
    BY <2>2, AllGive
  <2>4. AllCarry(ch, hi2, lo2, H)
    BY <2>3, <1>5, NoneTake DEF TakesNothing
  <2> QED BY <2>4, <1>1
<1>6. CASE GivesNothing(p, c) /\ Taking(p, c)
  <2>1. Taken(channel, p, H[lo[p]], ch)
    BY <1>1, <1>6 DEF Taking
  <2>2. AllCarry(ch, hi, lo2, H)
    BY <2>1, AllTake
  <2>3. AllCarry(ch, hi2, lo2, H)
    BY <2>2, <1>6, NoneGive DEF GivesNothing
  <2> QED BY <2>3, <1>1
<1> QED BY <1>4, <1>5, <1>6

\* A step from a place to the next, ...
LEMMA OnePlaceOn ==
  ASSUME NEW H, NEW N, NEW k, NEW p \in Procs, NEW j, NEW i, NEW n, NEW c,
         Underway(H, N, k, p, j, i, n, c),
         ~HasSent(p), ~HasWaited(p), ~HasSent(p)', ~HasWaited(p)', Moved(p, Continued(c)),
         \/ Nothing(p, c)
         \/ TakesNothing(p, c) /\ \E m : Giving(p, c, m)
         \/ GivesNothing(p, c) /\ Taking(p, c)
  PROVE  Inv'
<1>0. PICK hi, lo, hi2, lo2 : /\ hi = SentTo(k) /\ hi2 = [hi EXCEPT ![p] = @ + 1]
                              /\ lo = GotTo(k) /\ lo2 = [lo EXCEPT ![p] = @ + 1]
  OBVIOUS
<1>1. /\ hi \in [Procs -> Nat] /\ lo \in [Procs -> Nat] /\ hi[p] = j /\ lo[p] = j
      /\ H[j] = c /\ i \in Nat /\ i <= N /\ H[i] = Continued(c)
      /\ AllCarry(channel, hi, lo, H)
      /\ Tracked(H, N, k) /\ \A q \in Procs : DataInv(q)
  BY <1>0 DEF Underway
<1>2. i = j + 1
  BY DEF Underway
<1>3. /\ hi2 \in [Procs -> Nat] /\ hi2[p] = i /\ \A q \in Procs : q # p => hi2[q] = hi[q]
      /\ lo2 \in [Procs -> Nat] /\ lo2[p] = i /\ \A q \in Procs : q # p => lo2[q] = lo[q]
  BY <1>0, <1>1, <1>2, OneFurther
<1>4. AllCarry(channel', hi2, lo2, H)
  BY <1>0, <1>1, Exchanges
<1>5. Reaches(H, N, k, p, i, hi2, lo2)
  BY <1>0, <1>1, <1>3, <1>4 DEF Reaches
<1> QED BY <1>1, <1>5, StaysTracked

\* ... two places on, with nothing to be given or taken, ...
LEMMA TwoPlacesOn ==
  ASSUME NEW H, NEW N, NEW k, NEW p \in Procs, NEW j, NEW i, NEW n, NEW c,
         Underway(H, N, k, p, j, i, n, c),
         ~HasSent(p), ~HasWaited(p), ~HasSent(p)', ~HasWaited(p)',
         Moved(p, Continued(Continued(c))), Nothing(p, c), Nothing(p, Continued(c))
  PROVE  Inv'
<1>0. PICK hi, lo, hi2, lo2, hi3, lo3 :
        /\ hi = SentTo(k) /\ hi2 = [hi EXCEPT ![p] = @ + 1] /\ hi3 = [hi2 EXCEPT ![p] = @ + 1]
        /\ lo = GotTo(k) /\ lo2 = [lo EXCEPT ![p] = @ + 1] /\ lo3 = [lo2 EXCEPT ![p] = @ + 1]
  OBVIOUS
<1>1. /\ hi \in [Procs -> Nat] /\ lo \in [Procs -> Nat] /\ hi[p] = j /\ lo[p] = j
      /\ H[j] = c /\ H[i] = Continued(c) /\ H[n] = Continued(Continued(c))
      /\ n \in Nat /\ n <= N
      /\ AllCarry(channel, hi, lo, H)
      /\ Tracked(H, N, k) /\ \A q \in Procs : DataInv(q)
  BY <1>0 DEF Underway
<1>2. i = j + 1 /\ n = i + 1
  BY DEF Underway
<1>3. /\ hi2 \in [Procs -> Nat] /\ hi2[p] = i /\ \A q \in Procs : q # p => hi2[q] = hi[q]
      /\ lo2 \in [Procs -> Nat] /\ lo2[p] = i /\ \A q \in Procs : q # p => lo2[q] = lo[q]
  BY <1>0, <1>1, <1>2, OneFurther
<1>4. /\ hi3 \in [Procs -> Nat] /\ hi3[p] = n /\ \A q \in Procs : q # p => hi3[q] = hi2[q]
      /\ lo3 \in [Procs -> Nat] /\ lo3[p] = n /\ \A q \in Procs : q # p => lo3[q] = lo2[q]
  BY <1>0, <1>2, <1>3, OneFurther
<1>5. AllCarry(channel, hi2, lo2, H)
  <2>1. AllCarry(channel', hi2, lo2, H)
    BY <1>0, <1>1, Exchanges
  <2> QED BY <2>1 DEF Nothing
<1>6. AllCarry(channel', hi3, lo3, H)
  BY <1>0, <1>1, <1>3, <1>5, Exchanges
<1>7. Reaches(H, N, k, p, n, hi3, lo3)
  BY <1>0, <1>1, <1>3, <1>4, <1>6 DEF Reaches
<1> QED BY <1>1, <1>7, StaysTracked

\* ... or within one: the defect is sent, or received, or nothing happens but in memory,
LEMMA SamePlace ==
  ASSUME NEW H, NEW N, NEW k, NEW p \in Procs, NEW j, NEW i, NEW n, NEW c,
         Underway(H, N, k, p, j, i, n, c),
         Moved(p, c), HasSent(p)',
         \/ ~HasSent(p) /\ ~HasWaited(p) /\ ~HasWaited(p)' /\ \E m : Giving(p, c, m)
         \/ HasSent(p) /\ ~HasWaited(p) /\ HasWaited(p)' /\ Taking(p, c)
         \/ HasSent(p) /\ HasWaited(p)' = HasWaited(p) /\ channel' = channel
  PROVE  Inv'
<1>0. PICK hi, lo, hi2, lo2, ch :
        /\ hi = SentTo(k) /\ hi2 = [hi EXCEPT ![p] = @ + 1]
        /\ lo = GotTo(k) /\ lo2 = [lo EXCEPT ![p] = @ + 1]
        /\ ch = channel'
  OBVIOUS
<1>1. /\ hi \in [Procs -> Nat] /\ lo \in [Procs -> Nat]
      /\ hi[p] = IF HasSent(p) THEN i ELSE j
      /\ lo[p] = IF HasWaited(p) THEN i ELSE j
      /\ H[j] = c /\ j \in Nat /\ j <= N
      /\ AllCarry(channel, hi, lo, H)
      /\ Tracked(H, N, k) /\ \A q \in Procs : DataInv(q)
  BY <1>0 DEF Underway
<1>2. i = j + 1
  BY DEF Underway
<1>3. CASE ~HasSent(p) /\ ~HasWaited(p) /\ ~HasWaited(p)' /\ \E m : Giving(p, c, m)
  <2>1. hi2 \in [Procs -> Nat] /\ hi2[p] = i /\ \A q \in Procs : q # p => hi2[q] = hi[q]
    BY <1>0, <1>1, <1>2, <1>3, OneFurther
  <2>2. PICK m : Giving(p, c, m)
    BY <1>3
  <2>3. Given(channel, p, H[hi[p]], m, ch)
    BY <2>2, <1>0, <1>1, <1>3 DEF Giving
  <2>4. AllCarry(ch, hi2, lo, H)
    BY <2>3, <1>0, <1>1, AllGive
  <2>5. Reaches(H, N, k, p, j, hi2, lo)
    BY <2>1, <2>4, <1>0, <1>1, <1>2, <1>3 DEF Reaches
  <2> QED BY <2>5, <1>1, StaysTracked
<1>4. CASE HasSent(p) /\ ~HasWaited(p) /\ HasWaited(p)' /\ Taking(p, c)
  <2>1. lo2 \in [Procs -> Nat] /\ lo2[p] = i /\ \A q \in Procs : q # p => lo2[q] = lo[q]
    BY <1>0, <1>1, <1>2, <1>4, OneFurther
  <2>2. Taken(channel, p, H[lo[p]], ch)
    BY <1>0, <1>1, <1>4 DEF Taking
  <2>3. AllCarry(ch, hi, lo2, H)
    BY <2>2, <1>0, <1>1, AllTake
  <2>4. Reaches(H, N, k, p, j, hi, lo2)
    BY <2>1, <2>3, <1>0, <1>1, <1>2, <1>4 DEF Reaches
  <2> QED BY <2>4, <1>1, StaysTracked
<1>5. CASE HasSent(p) /\ HasWaited(p)' = HasWaited(p) /\ channel' = channel
  <2>1. Reaches(H, N, k, p, j, hi, lo)
    BY <1>0, <1>1, <1>2, <1>5 DEF Reaches
  <2> QED BY <2>1, <1>1, StaysTracked
<1> QED BY <1>3, <1>4, <1>5

\* and the restriction after that.
LEMMA Restricted ==
  ASSUME NEW H, NEW N, NEW k, NEW p \in Procs, NEW j, NEW i, NEW n, NEW c,
         Underway(H, N, k, p, j, i, n, c),
         HasSent(p), HasWaited(p), ~HasSent(p)', ~HasWaited(p)', Moved(p, Continued(c)),
         channel' = channel
  PROVE  Inv'
<1>0. PICK hi, lo : hi = SentTo(k) /\ lo = GotTo(k)
  OBVIOUS
<1>1. /\ hi \in [Procs -> Nat] /\ lo \in [Procs -> Nat] /\ hi[p] = i /\ lo[p] = i
      /\ i \in Nat /\ i <= N /\ H[i] = Continued(c)
      /\ AllCarry(channel', hi, lo, H)
      /\ Tracked(H, N, k) /\ \A q \in Procs : DataInv(q)
  BY <1>0 DEF Underway
<1>2. Reaches(H, N, k, p, i, hi, lo)
  BY <1>0, <1>1 DEF Reaches
<1> QED BY <1>1, <1>2, StaysTracked

-----------------------------------------------------------------------------
(* The actions.                                                            *)

LEMMA WithoutMessages ==
  ASSUME NEW H, NEW N, NEW k, NEW p \in Procs, NEW j, NEW i, NEW n, NEW c,
         Underway(H, N, k, p, j, i, n, c),
         PreSmooth(p) \/ PostSmooth(p) \/ Descend(p) \/ Return(p) \/ Finish(p)
  PROVE  Inv'
<1>1. Known(p, c) /\ Sound(c) /\ GatherAlike
  BY DEF Underway
<1>2. channel' = channel
  BY DEF PreSmooth, PostSmooth, Descend, Return, Finish
<1>3. /\ Moved(p, Continued(c)) /\ ~HasSent(p) /\ ~HasWaited(p) /\ ~HasSent(p)' /\ ~HasWaited(p)'
      /\ \/ Smooths(c) \/ Descends(c) \/ c.at \in {"finish", "done"}
         \/ Returns(c) /\ c.at = "postsmooth"
  <2>1. CASE PreSmooth(p)
    <3>1. pc[p] = "presmooth" /\ pc' = pc
      BY <2>1 DEF PreSmooth
    <3> QED BY <2>1, <3>1, <1>1, PreSmoothMoves DEF HasSent, HasWaited
  <2>2. CASE PostSmooth(p)
    BY <2>2, <1>1, PostSmoothMoves
  <2>3. CASE Descend(p)
    BY <2>3, <1>1, DescendMoves
  <2>4. CASE Return(p)
    BY <2>4, <1>1, ReturnMoves
  <2>5. CASE Finish(p)
    BY <2>5, <1>1, FinishMoves
  <2> QED BY <2>1, <2>2, <2>3, <2>4, <2>5
<1>4. Nothing(p, c)
  BY <1>1, <1>2, <1>3, WhoGives DEF Nothing
<1> QED BY <1>3, <1>4, OnePlaceOn

\* The defect that is handed over.
LEMMA DefectFits ==
  ASSUME NEW p \in Procs, NEW c, Known(p, c), pc[p] \in {"presmooth", "base"},
         NEW l, l = Lev(p)
  PROVE  /\ Top(c) = l /\ Fits([lev |-> l, kind |-> "defect", body |-> covered[p][l]], c)
         /\ UpToDate => covered[p][l] = SinceReset(p, l)
<1>1. /\ l = Top(c) /\ l \in Levels /\ l \in Nat /\ l >= l
  <2>1. l = Top(c) /\ l \in Levels /\ l \in Nat
    BY Here
  <2> QED BY <2>1
<1>2. At(p, c) /\ DataInv(p)
  BY DEF Known
<1>3. c.at \in {"presmooth", "base"} /\ c.made = made[p] /\ c.reset = reset[p]
  BY <1>2 DEF At, PlaceOf, HasSent, HasReset
<1>4. UpToDate => covered[p][l] = SinceReset(p, l)
  <2>1. IsRead(p, l) /\ ~ToBeSubtracted(p, l)
    BY <1>1 DEF IsRead, ToBeSubtracted
  <2> QED BY <2>1, <1>1, <1>2 DEF DataInv, DefectInv
<1>5. KindAt(c) = "defect" /\ BodyAt(c) = SinceReset(p, l)
  BY <1>1, <1>3 DEF KindAt, BodyAt, SinceReset
<1> QED BY <1>1, <1>4, <1>5 DEF Fits

LEMMA StartRestrictionTracked ==
  ASSUME NEW H, NEW N, NEW k, NEW p \in Procs, NEW j, NEW i, NEW n, NEW c,
         Underway(H, N, k, p, j, i, n, c), StartRestriction(p)
  PROVE  Inv'
<1>1. Known(p, c) /\ Sound(c) /\ GatherAlike
  BY DEF Underway
<1>2. Restricts(c) /\ Moved(p, c) /\ ~HasSent(p) /\ HasSent(p)' /\ ~HasWaited(p)'
  BY <1>1, StartRestrictionMoves
<1>3. PICK l, m : l = Lev(p) /\ m = [lev |-> l, kind |-> "defect", body |-> covered[p][l]]
  OBVIOUS
<1>4. pc[p] = "presmooth" /\ Send(p, l, "defect", covered[p][l], {VMaster[l][p]} \ {p})
  BY <1>3 DEF StartRestriction, HandOver
<1>5. Top(c) = l /\ Fits(m, c) /\ ~HasWaited(p)
  BY <1>1, <1>3, <1>4, DefectFits DEF HasWaited
<1>6. \A r \in Procs : r \in {VMaster[l][p]} \ {p} <=> Gives(p, r, c)
  BY <1>1, <1>2, <1>5, WhoGives
<1>7. Giving(p, c, m)
  BY <1>3, <1>4, <1>5, <1>6, SendIs
<1> QED BY <1>2, <1>5, <1>7, SamePlace

LEMMA ResetCoarseTracked ==
  ASSUME NEW H, NEW N, NEW k, NEW p \in Procs, NEW j, NEW i, NEW n, NEW c,
         Underway(H, N, k, p, j, i, n, c), ResetCoarse(p)
  PROVE  Inv'
<1>1. Known(p, c) /\ channel' = channel
  BY DEF Underway, ResetCoarse
<1>2. Moved(p, c) /\ HasSent(p) /\ HasSent(p)' /\ HasWaited(p)' = HasWaited(p)
  BY <1>1, ResetCoarseMoves
<1> QED BY <1>1, <1>2, SamePlace

LEMMA WaitTracked ==
  ASSUME NEW H, NEW N, NEW k, NEW p \in Procs, NEW j, NEW i, NEW n, NEW c,
         Underway(H, N, k, p, j, i, n, c), Wait(p)
  PROVE  Inv'
<1>1. Known(p, c) /\ Sound(c) /\ At(p, c) /\ GatherAlike
  BY DEF Underway
<1>2. PICK l : l = Lev(p)
  OBVIOUS
<1>3. pc[p] = "wait" /\ Arrived(p, l) /\ channel' = TakenFrom(p, Slaves(p, l)) /\ ~HasWaited(p)
  BY <1>2 DEF Wait, HasWaited
<1>4. l = Top(c) /\ l \in Levels /\ l \in Nat /\ l > BaseLevel
  BY <1>1, <1>2, <1>3, Here
<1>5. Restricts(c) /\ c.at = "presmooth"
  BY <1>1, <1>3 DEF At, HasSent, Restricts
<1>6. \A r \in Procs : r \in Slaves(p, l) <=> Gives(r, p, c)
  BY <1>1, <1>4, <1>5, WhoGives
<1>7. Taking(p, c)
  BY <1>3, <1>6, TakenIs DEF Arrived
<1>8. BodyAt(c) = SinceReset(p, l) /\ KindAt(c) = "defect"
  <2>1. c.made = made[p] /\ reset[p] = IF HasReset(p) THEN NextReset(c) ELSE c.reset
    BY <1>1 DEF At
  <2>2. reset[p][l] = c.reset[l]
    <3>1. l - 1 # l
      BY <1>4
    <3>2. NextReset(c) = [c.reset EXCEPT ![l - 1] = c.made[l - 1]]
      BY <1>4, <1>5 DEF NextReset
    <3>3. c.reset \in [Levels -> Nat]
      BY <1>1 DEF Sound
    <3> QED BY <2>1, <3>1, <3>2, <3>3, <1>4
  <2> QED BY <2>1, <2>2, <1>4, <1>5 DEF BodyAt, KindAt, SinceReset
<1>9. UpToDate => \A q \in Slaves(p, Top(c)) : Head(channel[q][p]).body = SinceReset(p, Top(c))
  <2> SUFFICES ASSUME UpToDate, NEW q \in Slaves(p, l)
               PROVE  Head(channel[q][p]).body = SinceReset(p, l)
    BY <1>4
  <2>1. q \in Procs /\ Gives(q, p, c) /\ channel[q][p] # <<>>
    BY <1>3, <1>6 DEF Arrived, Slaves
  <2>2. Fits(Head(channel[q][p]), c)
    BY <2>1, <1>3, HeadFits
  <2> QED BY <2>2, <1>8 DEF Fits
<1>10. Moved(p, c) /\ HasSent(p) /\ HasSent(p)' /\ ~HasWaited(p) /\ HasWaited(p)'
  BY <1>1, <1>9, WaitMoves
<1> QED BY <1>7, <1>10, SamePlace

LEMMA RestrictTracked ==
  ASSUME NEW H, NEW N, NEW k, NEW p \in Procs, NEW j, NEW i, NEW n, NEW c,
         Underway(H, N, k, p, j, i, n, c), Restrict(p)
  PROVE  Inv'
<1>1. Known(p, c) /\ channel' = channel
  BY DEF Underway, Restrict
<1>2. Moved(p, Continued(c)) /\ HasSent(p) /\ HasWaited(p) /\ ~HasSent(p)' /\ ~HasWaited(p)'
  BY <1>1, RestrictMoves
<1> QED BY <1>1, <1>2, Restricted

-----------------------------------------------------------------------------
(* The base solver.                                                        *)

LEMMA SolveDistributedTracked ==
  ASSUME NEW H, NEW N, NEW k, NEW p \in Procs, NEW j, NEW i, NEW n, NEW c,
         Underway(H, N, k, p, j, i, n, c), SolveDistributed(p)
  PROVE  Inv'
<1>1. Known(p, c) /\ Sound(c) /\ At(p, c) /\ GatherAlike
  BY DEF Underway
<1>2. /\ pc[p] = "base" /\ ~Gathers(p)
      /\ Solved(p, SetToBag({made[p][BaseLevel] + 1}))
      /\ UNCHANGED <<nu, reset, st, t, channel, pC>>
  BY DEF SolveDistributed
<1>3. c.at = "base" /\ Top(c) = BaseLevel
  BY <1>1, <1>2, Here DEF At, PlaceOf, HasSent
<1>4. PICK e : e = Continued(c)
  OBVIOUS
<1>5. /\ e.at = "correction" /\ Moved(p, Continued(e))
      /\ ~HasSent(p) /\ ~HasWaited(p) /\ ~HasSent(p)' /\ ~HasWaited(p)'
  BY <1>1, <1>2, <1>3, <1>4, SolvedMoves
<1>6. Sound(e) /\ Top(e) = BaseLevel
  <2>1. Sound(e)
    BY <1>1, <1>4, ContinuedIsSound
  <2> QED BY <2>1, <1>5 DEF Sound
<1>7. Nothing(p, c)
  BY <1>1, <1>2, <1>3, WhoGives DEF Nothing
<1>8. Nothing(p, e)
  BY <1>1, <1>2, <1>5, <1>6, WhoGives DEF Nothing
<1> QED BY <1>4, <1>5, <1>7, <1>8, TwoPlacesOn

LEMMA GatherBaseTracked ==
  ASSUME NEW H, NEW N, NEW k, NEW p \in Procs, NEW j, NEW i, NEW n, NEW c,
         Underway(H, N, k, p, j, i, n, c), GatherBase(p)
  PROVE  Inv'
<1>1. Known(p, c) /\ Sound(c) /\ At(p, c) /\ GatherAlike /\ Shapes
  BY DEF Underway, Known
<1>2. PICK l : l = BaseLevel
  OBVIOUS
<1>3. /\ pc[p] = "base" /\ Gathers(p) /\ ~HasWaited(p)
      /\ UNCHANGED <<stack, nu, made, reset, st, sc, covered, surface, pC, solves>>
  BY DEF GatherBase, Gathers, HasWaited
<1>4. c.at = "base" /\ Top(c) = l /\ Lev(p) = l /\ l \in Levels
  BY <1>1, <1>2, <1>3, Here, LevelsAre DEF At, PlaceOf, HasSent
<1>5. \A r \in Procs : /\ r \in {VMaster[l][p]} \ {p} <=> Gives(p, r, c)
                       /\ r \in Slaves(p, l) <=> Gives(r, p, c)
  BY <1>1, <1>3, <1>4, WhoGives
<1>6. UpToDate => covered[p][l] = SinceReset(p, l)
  BY <1>1, <1>3, <1>4, DefectFits
<1>7. CASE IsSlave(p, l)
  <2>1. HandOver(p, l) /\ pc' = [pc EXCEPT ![p] = "correction"]
    BY <1>2, <1>7 DEF GatherBase, Goto
  <2>2. Changed(t, t', p, l, {}) /\ ChangedTo(pc, pc', p, "correction")
    BY <2>1, <1>1, <1>4, <1>7, HandOverIs, FieldChanges DEF Shapes
  <2>3. Moved(p, Continued(c)) /\ ~HasSent(p) /\ ~HasWaited(p) /\ ~HasSent(p)' /\ ~HasWaited(p)'
    BY <2>2, <1>1, <1>2, <1>3, <1>7, GatherBaseMoves
  <2>4. PICK m : m = [lev |-> l, kind |-> "defect", body |-> covered[p][l]]
    OBVIOUS
  <2>5. Giving(p, c, m)
    <3>1. Fits(m, c)
      BY <2>4, <1>1, <1>3, <1>4, DefectFits
    <3> QED BY <2>1, <2>4, <3>1, <1>5, SendIs DEF HandOver
  <2>6. TakesNothing(p, c)
    BY <1>4, <1>5, <1>7, SlavesHaveNone DEF TakesNothing
  <2> QED BY <2>3, <2>5, <2>6, OnePlaceOn
<1>8. CASE ~IsSlave(p, l)
  <2>1. PICK y : y = {Part(p, l)} \cup Received(p, l, Slaves(p, l))
    OBVIOUS
  <2>2. /\ Arrived(p, l) /\ t' = [t EXCEPT ![p][l] = y]
        /\ channel' = TakenFrom(p, Slaves(p, l))
        /\ pc' = [pc EXCEPT ![p] = "solve"]
    BY <2>1, <1>2, <1>8 DEF GatherBase, Goto
  <2>3. Taking(p, c)
    BY <2>2, <1>5, TakenIs DEF Arrived
  <2>4. BodyAt(c) = SinceReset(p, l) /\ KindAt(c) = "defect"
    BY <1>1, <1>3, <1>4 DEF BodyAt, KindAt, SinceReset, At, HasReset
  <2>5. UpToDate => y = Whole(p, l)
    <3> SUFFICES ASSUME UpToDate
                 PROVE  y = Whole(p, l)
      OBVIOUS
    <3>1. ASSUME NEW q \in Slaves(p, l)
          PROVE  Head(channel[q][p]).body = covered[p][l]
      <4>1. q \in Procs /\ Gives(q, p, c) /\ channel[q][p] # <<>>
        BY <2>2, <1>5 DEF Arrived, Slaves
      <4>2. Fits(Head(channel[q][p]), c)
        BY <4>1, <1>3, HeadFits
      <4> QED BY <4>2, <2>4, <1>6 DEF Fits
    <3> QED BY <3>1, <2>1, <1>4, <1>8, ReceivedIs
  <2>6. Changed(t, t', p, l, y) /\ ChangedTo(pc, pc', p, "solve")
    BY <2>2, <1>1, <1>4, VectorChanges, FieldChanges DEF Shapes
  <2>7. Moved(p, Continued(c)) /\ ~HasSent(p) /\ ~HasWaited(p) /\ ~HasSent(p)' /\ ~HasWaited(p)'
    BY <2>5, <2>6, <1>1, <1>2, <1>3, <1>8, GatherBaseMoves
  <2>8. GivesNothing(p, c)
    BY <1>5, <1>8 DEF GivesNothing, IsSlave
  <2> QED BY <2>3, <2>7, <2>8, OnePlaceOn
<1> QED BY <1>7, <1>8

LEMMA SolveGatheredTracked ==
  ASSUME NEW H, NEW N, NEW k, NEW p \in Procs, NEW j, NEW i, NEW n, NEW c,
         Underway(H, N, k, p, j, i, n, c), SolveGathered(p)
  PROVE  Inv'
<1>1. Known(p, c) /\ Sound(c) /\ At(p, c) /\ GatherAlike /\ DataInv(p)
  BY DEF Underway, Known
<1>2. PICK l, x, m : /\ l = BaseLevel /\ x = SetToBag({made[p][BaseLevel] + 1})
                     /\ m = [lev |-> l, kind |-> "correction", body |-> x]
  OBVIOUS
<1>3. /\ pc[p] = "solve" /\ Solved(p, x) /\ Send(p, l, "correction", x, Slaves(p, l))
      /\ UNCHANGED <<nu, reset, st, t, pC>>
  BY <1>2 DEF SolveGathered
<1>4. c.at = "correction" /\ Top(c) = l /\ made[p] = c.made
  BY <1>1, <1>2, <1>3, Here DEF At, PlaceOf, HasSent
<1>5. Gathers(p) /\ ~IsSlave(p, l)
  BY <1>1, <1>2, <1>3 DEF DataInv, GatherInv, Gathers
<1>6. /\ Moved(p, Continued(c))
      /\ ~HasSent(p) /\ ~HasWaited(p) /\ ~HasSent(p)' /\ ~HasWaited(p)'
  BY <1>1, <1>2, <1>3, <1>4, SolvedMoves
<1>7. \A r \in Procs : /\ r \in Slaves(p, l) <=> Gives(p, r, c)
                       /\ r \in {VMaster[l][p]} \ {p} <=> Gives(r, p, c)
  BY <1>1, <1>4, <1>5, WhoGives
<1>8. Fits(m, c)
  BY <1>2, <1>4 DEF Fits, KindAt, BodyAt
<1>9. Giving(p, c, m) /\ TakesNothing(p, c)
  BY <1>2, <1>3, <1>5, <1>7, <1>8, SendIs DEF TakesNothing, IsSlave
<1> QED BY <1>6, <1>9, OnePlaceOn

LEMMA ReceiveSolutionTracked ==
  ASSUME NEW H, NEW N, NEW k, NEW p \in Procs, NEW j, NEW i, NEW n, NEW c,
         Underway(H, N, k, p, j, i, n, c), ReceiveSolution(p)
  PROVE  Inv'
<1>1. Known(p, c) /\ Sound(c) /\ At(p, c) /\ GatherAlike /\ DataInv(p)
  BY DEF Underway, Known
<1>2. PICK l, m : l = BaseLevel /\ m = VMaster[BaseLevel][p]
  OBVIOUS
<1>3. /\ pc[p] = "correction" /\ channel[m][p] # <<>> /\ ~HasWaited(p)
      /\ Solved(p, Head(channel[m][p]).body) /\ channel' = TakenFrom(p, {m})
      /\ UNCHANGED <<nu, reset, st, t, pC>>
  BY <1>2 DEF ReceiveSolution, HasWaited
<1>4. c.at = "correction" /\ Top(c) = l /\ made[p] = c.made /\ l \in Levels
  BY <1>1, <1>2, <1>3, Here, LevelsAre DEF At, PlaceOf, HasSent
<1>5. Gathers(p) /\ IsSlave(p, l)
  BY <1>1, <1>2, <1>3 DEF DataInv, GatherInv, Gathers
<1>6. Slaves(p, l) = {} /\ m \in Procs /\ m # p
  BY <1>2, <1>4, <1>5, SlavesHaveNone DEF IsSlave
<1>7. \A r \in Procs : /\ r \in Slaves(p, l) <=> Gives(p, r, c)
                       /\ r \in {m} <=> Gives(r, p, c)
  BY <1>1, <1>2, <1>4, <1>5, <1>6, WhoGives
<1>8. Fits(Head(channel[m][p]), c)
  BY <1>3, <1>6, <1>7, HeadFits
<1>9. Head(channel[m][p]).body = SetToBag({made[p][BaseLevel] + 1})
  BY <1>2, <1>4, <1>8 DEF Fits, KindAt, BodyAt
<1>10. /\ Moved(p, Continued(c))
       /\ ~HasSent(p) /\ ~HasWaited(p) /\ ~HasSent(p)' /\ ~HasWaited(p)'
  BY <1>1, <1>3, <1>4, <1>9, SolvedMoves
<1>11. Taking(p, c) /\ GivesNothing(p, c)
  BY <1>3, <1>6, <1>7, TakenIs DEF GivesNothing
<1> QED BY <1>10, <1>11, OnePlaceOn

\* The correction is prolongated, by the v-master for its v-slaves.
LEMMA ProlongateTracked ==
  ASSUME NEW H, NEW N, NEW k, NEW p \in Procs, NEW j, NEW i, NEW n, NEW c,
         Underway(H, N, k, p, j, i, n, c), Prolongate(p)
  PROVE  Inv'
<1>1. Known(p, c) /\ Sound(c) /\ At(p, c) /\ GatherAlike /\ DataInv(p)
  BY DEF Underway, Known
<1>2. /\ Prolongates(c) /\ Moved(p, Continued(c))
      /\ ~HasSent(p) /\ ~HasWaited(p) /\ ~HasSent(p)' /\ ~HasWaited(p)'
  BY <1>1, ProlongateMoves
<1>3. PICK l, q : l = Lev(p) /\ q = VMaster[l][p]
  OBVIOUS
<1>4. /\ pc[p] = "coarse" /\ (IsSlave(p, l) => channel[q][p] # <<>>)
      /\ IF IsSlave(p, l)
         THEN channel' = TakenFrom(p, {q})
         ELSE Send(p, l, "correction", sc[p][l - 1], Slaves(p, l))
  BY <1>3 DEF Prolongate
<1>5. l = Top(c) /\ l \in Levels /\ l - 1 \in Levels
  BY <1>1, <1>3, <1>4, Here
<1>6. \A r \in Procs : /\ r \in Slaves(p, l) <=> Gives(p, r, c)
                       /\ r \in {q} \ {p} <=> Gives(r, p, c)
  BY <1>1, <1>2, <1>3, <1>5, WhoGives
<1>7. CASE IsSlave(p, l)
  <2>1. Slaves(p, l) = {} /\ q \in Procs /\ q # p
    BY <1>3, <1>5, <1>7, SlavesHaveNone DEF IsSlave
  <2>2. Taking(p, c) /\ GivesNothing(p, c)
    BY <2>1, <1>4, <1>6, <1>7, TakenIs DEF GivesNothing
  <2> QED BY <2>2, <1>2, OnePlaceOn
<1>8. CASE ~IsSlave(p, l)
  <2>1. PICK m : m = [lev |-> l, kind |-> "correction", body |-> sc[p][l - 1]]
    OBVIOUS
  <2>2. sc[p][l - 1] = SinceReset(p, l - 1)
    <3>1. ~ToBeAdded(p, l - 1)
      BY <1>4 DEF ToBeAdded
    <3> QED BY <3>1, <1>1, <1>5 DEF DataInv, CorrectionInv
  <2>3. KindAt(c) = "correction" /\ BodyAt(c) = SinceReset(p, l - 1)
    BY <1>1, <1>2, <1>5 DEF KindAt, BodyAt, SinceReset, Prolongates, At, HasReset, HasSent
  <2>4. Fits(m, c)
    BY <2>1, <2>2, <2>3, <1>5 DEF Fits
  <2>5. Giving(p, c, m) /\ TakesNothing(p, c)
    BY <2>1, <2>4, <1>3, <1>4, <1>6, <1>8, SendIs DEF TakesNothing, IsSlave
  <2> QED BY <2>5, <1>2, OnePlaceOn
<1> QED BY <1>7, <1>8

-----------------------------------------------------------------------------
(* The invariant.                                                          *)

LEMMA InitTracked == GatherAlike /\ Init => \E H, N, k : Tracked(H, N, k)
<1> SUFFICES ASSUME GatherAlike, Init
             PROVE  \E H, N, k : Tracked(H, N, k)
  OBVIOUS
<1>1. /\ \A p \in Procs : pc[p] \in {"presmooth", "base"} /\ pc[p] = EntryOf(TopLevel)
      /\ \A p \in Procs : /\ stack[p] = <<Frame(TopLevel, CycleType)>> /\ nu[p] = 0
                          /\ made[p] = [l \in Levels |-> 0] /\ reset[p] = [l \in Levels |-> 0]
      /\ channel = [p \in Procs |-> [q \in Procs |-> <<>>]]
  BY DEF Init, EntryOf
<1> DEFINE H == [n \in Nat |-> Start]
           k == [p \in Procs |-> 0]
<1>2. H[0] = Start /\ k \in [Procs -> Nat] /\ \A p \in Procs : k[p] = 0
  OBVIOUS
<1> HIDE DEF H, k
<1>3. History(H, 0)
  <2>1. \A n \in Nat : ~(n < 0) /\ (n <= 0 => n = 0)
    OBVIOUS
  <2> QED BY <2>1, <1>2, StartIsSound DEF History
<1>4. \A p \in Procs : ~HasSent(p) /\ ~HasWaited(p) /\ ~HasReset(p) /\ PlaceOf(p) = pc[p]
  BY <1>1 DEF HasSent, HasWaited, HasReset, PlaceOf
<1>5. \A p \in Procs : At(p, Start)
  <2>1. Start.at = EntryOf(TopLevel) /\ Start.nu = 0
        /\ Start.stack = <<Frame(TopLevel, CycleType)>>
        /\ Start.made = [l \in Levels |-> 0] /\ Start.reset = [l \in Levels |-> 0]
    BY DEF Start
  <2> QED BY <2>1, <1>1, <1>4 DEF At
<1>6. AllCarry(channel, SentTo(k), GotTo(k), H)
  <2>1. PICK hi, lo : hi = SentTo(k) /\ lo = GotTo(k)
    OBVIOUS
  <2>2. hi \in [Procs -> Nat] /\ lo \in [Procs -> Nat] /\ \A p \in Procs : hi[p] = 0 /\ lo[p] = 0
    BY <2>1, <1>2, <1>4, HowFar
  <2>3. ASSUME NEW q, NEW p
        PROVE  Carries(<<>>, q, p, 0, 0, H)
    <3> DEFINE idx == [i \in 1 .. Len(<<>>) |-> 0]
    <3>1. 1 .. Len(<<>>) = {} /\ \A n \in Nat : ~(0 <= n /\ n < 0)
      OBVIOUS
    <3>2. idx \in [1 .. Len(<<>>) -> Nat]
      OBVIOUS
    <3> HIDE DEF idx
    <3>3. Indexed(<<>>, q, p, 0, 0, H, idx)
      BY <3>1, <3>2 DEF Indexed
    <3>4. <<>> \in Seq({})
      OBVIOUS
    <3> QED BY <3>1, <3>3, <3>4 DEF Carries
  <2>4. AllCarry(channel, hi, lo, H)
    BY <2>2, <2>3, <1>1 DEF AllCarry
  <2> QED BY <2>1, <2>4
<1>7. Tracked(H, 0, k)
  BY <1>2, <1>3, <1>5, <1>6 DEF Tracked
<1> QED BY <1>7

LEMMA InitInv == GatherAlike /\ Init => Inv
<1> SUFFICES ASSUME GatherAlike, Init
             PROVE  Inv
  OBVIOUS
<1>1. Shapes
  <2>1. /\ made = [p \in Procs |-> [l \in Levels |-> 0]]
        /\ reset = [p \in Procs |-> [l \in Levels |-> 0]]
        /\ st = [p \in Procs |-> [l \in Levels |-> 0]]
    BY DEF Init
  <2>2. /\ made \in [Procs -> [Levels -> Nat]] /\ reset \in [Procs -> [Levels -> Nat]]
        /\ st \in [Procs -> [Levels -> Nat]]
    BY <2>1
  <2>3. /\ IsField(pc) /\ IsField(stack) /\ IsField(nu)
        /\ IsVector(sc) /\ IsVector(covered) /\ IsVector(surface) /\ IsVector(t) /\ IsVector(pC)
    BY DEF Init, IsField, IsVector
  <2> QED BY <2>2, <2>3 DEF Shapes
<1>2. ASSUME NEW p \in Procs
      PROVE  DataInv(p)
  <2>1. /\ pc[p] \in {"presmooth", "base"} /\ nu[p] = 0
        /\ \A l \in Levels : /\ made[p][l] = 0 /\ reset[p][l] = 0
                             /\ sc[p][l] = EmptyBag /\ covered[p][l] = EmptyBag
                             /\ surface[p][l] = EmptyBag /\ pC[p][l] = EmptyBag
    BY DEF Init, EntryOf
  <2>2. EmptyBag = Once(1, 0)
    <3>1. Once(0 + 1, 0) = EmptyBag
      BY OnceNone
    <3> QED BY <3>1
  <2>3. \A l \in Levels : /\ ~ToBeAdded(p, l) /\ ~ToBeSubtracted(p, l)
                          /\ SinceReset(p, l) = EmptyBag
    BY <2>1, <2>2, LevelsAre DEF ToBeAdded, ToBeSubtracted, SinceReset
  <2>4. CorrectionInv(p) /\ DefectInv(p)
    BY <2>1, <2>2, <2>3 DEF CorrectionInv, DefectInv
  <2>5. GatherInv(p)
    BY <2>1 DEF GatherInv, HasSent
  <2>6. SurfaceInv(p)
    BY <2>1, <2>2 DEF SurfaceInv
  <2> QED BY <2>4, <2>5, <2>6 DEF DataInv
<1> QED BY <1>1, <1>2, InitTracked DEF Inv

\* Two places further than where the processes are.
LEMMA Farther ==
  ASSUME NEW p \in Procs, Inv
  PROVE  \E H, N, k, j, i, n, c : Underway(H, N, k, p, j, i, n, c)
<1>1. Shapes /\ \A q \in Procs : DataInv(q)
  BY DEF Inv
<1>2. PICK H, N, k : Tracked(H, N, k)
  BY DEF Inv
<1>3. PICK G : Tracked(G, N + 1, k)
  BY <1>2, GoesOn
<1>4. PICK G2 : Tracked(G2, (N + 1) + 1, k)
  BY <1>3, GoesOn
<1>5. PICK j, i, n, c : j = k[p] /\ i = j + 1 /\ n = j + 2 /\ c = G2[j]
  OBVIOUS
<1>6. j + 2 <= (N + 1) + 1
  <2>1. N \in Nat /\ j \in Nat /\ j <= N
    BY <1>2, <1>5 DEF Tracked, History
  <2> QED BY <2>1
<1>7. Underway(G2, (N + 1) + 1, k, p, j, i, n, c)
  BY <1>1, <1>4, <1>5, <1>6, GetsUnderway
<1> QED BY <1>7

LEMMA NextInv == Inv /\ [Next]_vars => Inv'
<1> SUFFICES ASSUME Inv, [Next]_vars
             PROVE  Inv'
  OBVIOUS
<1>1. ASSUME NEW p \in Procs, Step(p)
      PROVE  Inv'
  <2>1. PICK H, N, k, j, i, n, c : Underway(H, N, k, p, j, i, n, c)
    BY Farther
  <2>2. CASE PreSmooth(p) \/ PostSmooth(p) \/ Descend(p) \/ Return(p) \/ Finish(p)
    BY <2>1, <2>2, WithoutMessages
  <2>3. CASE StartRestriction(p)
    BY <2>1, <2>3, StartRestrictionTracked
  <2>4. CASE ResetCoarse(p)
    BY <2>1, <2>4, ResetCoarseTracked
  <2>5. CASE Wait(p)
    BY <2>1, <2>5, WaitTracked
  <2>6. CASE Restrict(p)
    BY <2>1, <2>6, RestrictTracked
  <2>7. CASE SolveDistributed(p)
    BY <2>1, <2>7, SolveDistributedTracked
  <2>8. CASE GatherBase(p)
    BY <2>1, <2>8, GatherBaseTracked
  <2>9. CASE SolveGathered(p)
    BY <2>1, <2>9, SolveGatheredTracked
  <2>10. CASE ReceiveSolution(p)
    BY <2>1, <2>10, ReceiveSolutionTracked
  <2>11. CASE Prolongate(p)
    BY <2>1, <2>11, ProlongateTracked
  <2> QED BY <1>1, <2>2, <2>3, <2>4, <2>5, <2>6, <2>7, <2>8, <2>9, <2>10, <2>11 DEF Step
<1>2. CASE UNCHANGED vars
  <2>1. /\ UNCHANGED <<pc, stack, nu, made, reset, st, sc, covered, surface>>
        /\ UNCHANGED <<t, channel, pC>>
    BY <1>2 DEF vars
  <2>2. \A q \in Procs : Untouched(q)
    BY <2>1 DEF Untouched
  <2>3. Shapes'
    BY <2>1 DEF Inv, Shapes, IsField, IsVector
  <2>4. \A q \in Procs : DataInv(q)'
    BY <2>2, UntouchedStays DEF Inv
  <2>5. PICK H, N, k : Tracked(H, N, k)
    BY DEF Inv
  <2>6. SentTo(k)' = SentTo(k) /\ GotTo(k)' = GotTo(k)
    BY <2>2, UntouchedStays DEF SentTo, GotTo
  <2>7. Tracked(H, N, k)'
    BY <2>1, <2>2, <2>5, <2>6, UntouchedStays DEF Tracked
  <2> QED BY <2>3, <2>4, <2>7 DEF Inv
<1> QED BY <1>1, <1>2 DEF Next

-----------------------------------------------------------------------------
(* What follows from it.                                                   *)

LEMMA InvCorrections == Inv => CorrectionsAreRight
<1> SUFFICES ASSUME Inv, NEW p \in Procs, NEW l, l = Lev(p)
             PROVE  /\ pc[p] = "coarse" /\ Head(stack[p]).calls = <<>> =>
                         sc[p][l - 1] = Once(reset[p][l - 1] + 1, made[p][l - 1])
                    /\ pc[p] = "finish" => sc[p][TopLevel] = Once(1, made[p][TopLevel])
                    /\ (pc[p] = "wait" \/ (pc[p] = "base" /\ Gathers(p))) =>
                         \A q \in Slaves(p, l) : channel[q][p] # <<>> =>
                           Head(channel[q][p]).lev = l /\ Head(channel[q][p]).kind = "defect"
                    /\ pc[p] = "correction" /\ channel[VMaster[l][p]][p] # <<>> =>
                         /\ Head(channel[VMaster[l][p]][p]).lev = l
                         /\ Head(channel[VMaster[l][p]][p]).kind = "correction"
                    /\ pc[p] = "coarse" /\ Head(stack[p]).calls = <<>> /\ IsSlave(p, l)
                         /\ channel[VMaster[l][p]][p] # <<>> =>
                           /\ Head(channel[VMaster[l][p]][p]).lev = l
                           /\ Head(channel[VMaster[l][p]][p]).kind = "correction"
                           /\ Head(channel[VMaster[l][p]][p]).body = sc[p][l - 1]
  BY DEF CorrectionsAreRight, CorrectionIsComplete, MessagesMatch
<1>1. PICK H, N, k, j, i, n, c : Underway(H, N, k, p, j, i, n, c)
  BY Farther
<1>2. Known(p, c) /\ Sound(c) /\ At(p, c) /\ GatherAlike /\ DataInv(p)
  BY <1>1 DEF Underway, Known
<1>3. pc[p] = "coarse" => sc[p][l - 1] = SinceReset(p, l - 1) /\ l - 1 \in Levels
  <2> SUFFICES ASSUME pc[p] = "coarse"
               PROVE  sc[p][l - 1] = SinceReset(p, l - 1) /\ l - 1 \in Levels
    OBVIOUS
  <2>1. l - 1 \in Levels /\ ~ToBeAdded(p, l - 1)
    BY <1>2, Here DEF ToBeAdded
  <2> QED BY <2>1, <1>2 DEF DataInv, CorrectionInv
<1>4. pc[p] = "finish" => sc[p][TopLevel] = Once(1, made[p][TopLevel])
  <2> SUFFICES ASSUME pc[p] = "finish"
               PROVE  sc[p][TopLevel] = Once(1, made[p][TopLevel])
    OBVIOUS
  <2>1. ~ToBeAdded(p, TopLevel) /\ ~HasReset(p)
    BY DEF ToBeAdded, HasReset
  <2>2. sc[p][TopLevel] = Once(reset[p][TopLevel] + 1, made[p][TopLevel])
    BY <2>1, <1>2, LevelsAre DEF DataInv, CorrectionInv, SinceReset
  <2>3. reset[p][TopLevel] = 0
    BY <2>1, <1>2 DEF At, Sound
  <2> QED BY <2>2, <2>3
<1>5. ASSUME pc[p] = "wait" \/ (pc[p] = "base" /\ Gathers(p)),
             NEW q \in Slaves(p, l), channel[q][p] # <<>>
      PROVE  Head(channel[q][p]).lev = l /\ Head(channel[q][p]).kind = "defect"
  <2>1. l = Top(c) /\ q \in Procs /\ ~HasWaited(p)
    BY <1>2, <1>5, Here DEF Slaves, HasWaited
  <2>2. /\ \/ Restricts(c) /\ c.at = "presmooth"
           \/ c.at = "base" /\ Gathers(p)
        /\ KindAt(c) = "defect"
    BY <1>2, <1>5 DEF At, HasSent, Restricts, PlaceOf, Gathers, KindAt
  <2>3. Gives(q, p, c)
    BY <2>1, <2>2, <1>2, WhoGives
  <2>4. Fits(Head(channel[q][p]), c)
    BY <2>1, <2>3, <1>1, <1>5, HeadFits
  <2> QED BY <2>1, <2>2, <2>4 DEF Fits
<1>6. ASSUME \/ pc[p] = "correction"
             \/ pc[p] = "coarse" /\ Head(stack[p]).calls = <<>> /\ IsSlave(p, l),
             NEW q, q = VMaster[l][p], channel[q][p] # <<>>
      PROVE  /\ Head(channel[q][p]).lev = l /\ Head(channel[q][p]).kind = "correction"
             /\ Head(channel[q][p]).body = BodyAt(c)
  <2>1. /\ l = Top(c) /\ l \in Levels /\ ~HasWaited(p) /\ Head(stack[p]).calls = CallsOf(c)
        /\ pc[p] = "correction" => l = BaseLevel
    BY <1>2, <1>6, Here DEF HasWaited
  <2>2. /\ \/ Prolongates(c) /\ c.at = "coarse"
           \/ c.at = "correction" /\ Gathers(p)
        /\ KindAt(c) = "correction" /\ IsSlave(p, l)
    BY <2>1, <1>2, <1>6 DEF At, HasSent, Prolongates, PlaceOf, Gathers, KindAt, DataInv, GatherInv
  <2>3. q \in Procs /\ q # p
    BY <2>1, <2>2, <1>6, SlavesHaveNone DEF IsSlave
  <2>4. Gives(q, p, c)
    BY <2>1, <2>2, <2>3, <1>2, <1>6, WhoGives
  <2>5. Fits(Head(channel[q][p]), c)
    BY <2>1, <2>3, <2>4, <1>1, <1>6, HeadFits
  <2> QED BY <2>1, <2>2, <2>5 DEF Fits
<1>7. pc[p] = "coarse" => BodyAt(c) = SinceReset(p, l - 1)
  <2> SUFFICES ASSUME pc[p] = "coarse"
               PROVE  BodyAt(c) = SinceReset(p, l - 1)
    OBVIOUS
  <2>1. l = Top(c)
    BY <1>2, Here
  <2>2. c.at = "coarse" /\ reset[p] = c.reset /\ made[p] = c.made
    BY <1>2 DEF At, PlaceOf, HasSent, HasReset
  <2> QED BY <2>1, <2>2 DEF BodyAt, KindAt, SinceReset
<1>8. pc[p] = "coarse" => sc[p][l - 1] = Once(reset[p][l - 1] + 1, made[p][l - 1])
  BY <1>3 DEF SinceReset
<1> QED BY <1>3, <1>4, <1>5, <1>6, <1>7, <1>8

LEMMA InvDefects == Inv /\ UpToDate => DefectsAreRight
<1> SUFFICES ASSUME Inv, UpToDate, NEW p \in Procs, NEW l, l = Lev(p)
             PROVE  /\ pc[p] \in {"presmooth", "base"} => Current(p, l, covered[p][l], surface[p][l])
                    /\ pc[p] = "postsmooth" =>
                         Current(p, l, Plus(covered[p][l], st[p][l]), Plus(surface[p][l], st[p][l]))
                    /\ pc[p] \in {"restrict", "solve"} => t[p][l] = Whole(p, l)
  BY DEF DefectsAreRight, DefectIsCurrent, DefectIsWhole, Whole
<1>1. PICK H, N, k, j, i, n, c : Underway(H, N, k, p, j, i, n, c)
  BY Farther
<1>2. Known(p, c) /\ DataInv(p)
  BY <1>1 DEF Underway, Known
<1>3. ASSUME pc[p] \in {"presmooth", "base", "postsmooth"}
      PROVE  /\ l \in Levels /\ IsRead(p, l)
             /\ ToBeSubtracted(p, l) <=> pc[p] = "postsmooth"
             /\ covered[p][l] = IF pc[p] = "postsmooth" THEN ButLast(p, l) ELSE SinceReset(p, l)
             /\ l >= FullRefLevel[p] =>
                  surface[p][l] = Once(1, IF pc[p] = "postsmooth" THEN made[p][l] - 1 ELSE made[p][l])
  <2>1. l \in Levels /\ l \in Nat
    BY <1>2, <1>3, Here
  <2>2. l >= l
    BY <2>1
  <2>3. IsRead(p, l) /\ (ToBeSubtracted(p, l) <=> pc[p] = "postsmooth")
    BY <2>2, <1>3 DEF IsRead, ToBeSubtracted
  <2> QED BY <2>1, <2>3, <1>2 DEF DataInv, DefectInv
<1>4. pc[p] \in {"presmooth", "base"} => Current(p, l, covered[p][l], surface[p][l])
  BY <1>3 DEF Current, SinceReset
<1>5. pc[p] = "postsmooth" =>
        Current(p, l, Plus(covered[p][l], st[p][l]), Plus(surface[p][l], st[p][l]))
  <2> SUFFICES ASSUME pc[p] = "postsmooth"
               PROVE  Current(p, l, Plus(covered[p][l], st[p][l]), Plus(surface[p][l], st[p][l]))
    OBVIOUS
  <2>1. /\ st[p][l] = made[p][l]
        /\ Plus(ButLast(p, l), made[p][l]) = SinceReset(p, l)
        /\ Plus(Once(1, made[p][l] - 1), made[p][l]) = Once(1, made[p][l])
    BY <1>2, LastOne
  <2> QED BY <2>1, <1>3 DEF Current, SinceReset
<1>6. pc[p] \in {"restrict", "solve"} => t[p][l] = Whole(p, l)
  <2>1. pc[p] = "solve" => l = BaseLevel
    BY <1>2, Here
  <2> QED BY <2>1, <1>2 DEF DataInv, GatherInv, HasSent, HasWaited
<1> QED BY <1>4, <1>5, <1>6

LEMMA InvSurface == Inv => SurfaceGetsAll
<1> SUFFICES ASSUME Inv, NEW p \in Procs, pc[p] = "done", NEW l \in Levels
             PROVE  pC[p][l] = IF l >= FullRefLevel[p] THEN Once(1, made[p][l]) ELSE EmptyBag
  BY DEF SurfaceGetsAll
<1>1. SurfaceInv(p) /\ ~Pending(p, l)
  BY DEF Inv, DataInv, Pending
<1>2. FullRefLevel[p] \in Levels
  BY CycleAssumption
<1>3. FullRefLevel[p] \in Nat /\ l \in Nat
  BY <1>2, LevelsAre
<1>4. l < FullRefLevel[p] <=> ~(l >= FullRefLevel[p])
  BY <1>3
<1> QED BY <1>1, <1>4 DEF SurfaceInv

\* Wherever a process is in the recursion, and however far the others are: the
\* correction that it prolongates, and at last returns, has all corrections computed
\* since it was zeroed, each once, and what it receives is what it is waiting for
\* (presmooth_and_restriction(), prolongation_and_postsmooth() and base_solve()).
THEOREM CorrectionsAreAlwaysRight == GatherAlike => (Spec => []CorrectionsAreRight)
<1> SUFFICES ASSUME GatherAlike
             PROVE  Spec => []CorrectionsAreRight
  OBVIOUS
<1>1. Init => Inv
  BY InitInv
<1>2. Spec => []Inv
  BY <1>1, NextInv, PTL DEF Spec
<1> QED BY <1>2, InvCorrections, PTL

\* At the end of apply() every surface dof has got every correction of its level, each
\* once, and no other.
THEOREM SurfaceAlwaysGetsAll == GatherAlike => (Spec => []SurfaceGetsAll)
<1> SUFFICES ASSUME GatherAlike
             PROVE  Spec => []SurfaceGetsAll
  OBVIOUS
<1>1. Init => Inv
  BY InitInv
<1>2. Spec => []Inv
  BY <1>1, NextInv, PTL DEF Spec
<1> QED BY <1>2, InvSurface, PTL

\* Where no level without surface dofs is entered a second time, or its defect is
\* updated for the statistics, smoothers, base solver and restrictions always read the
\* defect of all that was computed, on all processes that share the level.
THEOREM DefectsAreAlwaysRight == GatherAlike /\ UpToDate => (Spec => []DefectsAreRight)
<1> SUFFICES ASSUME GatherAlike, UpToDate
             PROVE  Spec => []DefectsAreRight
  OBVIOUS
<1>1. Init => Inv
  BY InitInv
<1>2. Spec => []Inv
  BY <1>1, NextInv, PTL DEF Spec
<1>3. Inv => DefectsAreRight
  BY InvDefects
<1> QED BY <1>2, <1>3, PTL

-----------------------------------------------------------------------------
(* Powers, defined by a recursive function: that there is one with its     *)
(* equations follows from its initial parts.                               *)

LEMMA LeastNat ==
  ASSUME NEW T \in SUBSET Nat, T # {}
  PROVE  \E m \in T : \A n \in T : m <= n
<1> DEFINE Less == {ss \in Nat \X Nat : ss[1] < ss[2]}
<1>1. IsWellFoundedOn(Less, Nat)
  BY NatLessThanWellFounded DEF OpToRel
<1>2. PICK m \in T : \A n \in T : <<n, m>> \notin Less
  <2> HIDE DEF Less
  <2> QED BY <1>1, WFMin
<1>3. \A n \in Nat : \A k \in Nat : <<n, k>> \notin Less => k <= n
  OBVIOUS
<1> QED BY <1>2, <1>3

PowerStep(h, k) == IF k = 0 THEN 1 ELSE CycleType * h[k - 1]
PartPower(h, n) == h = [k \in 0 .. n |-> PowerStep(h, k)]

LEMMA PartPowerAt ==
  ASSUME NEW n \in Nat, NEW h, PartPower(h, n), NEW k \in 0 .. n
  PROVE  h[k] = PowerStep(h, k)
  BY DEF PartPower

LEMMA PartPowerExtends ==
  ASSUME NEW m \in Nat, NEW h, PartPower(h, m)
  PROVE  \E i : PartPower(i, m + 1)
<1> DEFINE i == [k \in 0 .. m + 1 |-> IF k = m + 1 THEN CycleType * h[m] ELSE h[k]]
<1>1. \A k \in 0 .. m : i[k] = h[k]
  OBVIOUS
<1>2. i[m + 1] = CycleType * h[m]
  OBVIOUS
<1>3. i = [k \in 0 .. m + 1 |-> i[k]]
  OBVIOUS
<1> HIDE DEF i
<1>4. ASSUME NEW k \in 0 .. m + 1
      PROVE  i[k] = PowerStep(i, k)
  <2>1. CASE k = m + 1
    <3>1. k # 0 /\ k - 1 = m /\ m \in 0 .. m
      BY <2>1
    <3> QED BY <3>1, <2>1, <1>1, <1>2 DEF PowerStep
  <2>2. CASE k \in 0 .. m
    <3>1. h[k] = PowerStep(h, k)
      BY <2>2, PartPowerAt
    <3>2. CASE k = 0
      BY <3>1, <3>2, <2>2, <1>1 DEF PowerStep
    <3>3. CASE k # 0
      <4>1. k - 1 \in 0 .. m
        BY <2>2, <3>3
      <4> QED BY <4>1, <3>1, <3>3, <2>2, <1>1 DEF PowerStep
    <3> QED BY <3>2, <3>3
  <2> QED BY <2>1, <2>2
<1>5. i = [k \in 0 .. m + 1 |-> PowerStep(i, k)]
  BY <1>3, <1>4
<1> QED BY <1>5 DEF PartPower

LEMMA PartPowerExists ==
  ASSUME NEW n \in Nat
  PROVE  \E h : PartPower(h, n)
<1> DEFINE B == {k \in Nat : ~ \E h : PartPower(h, k)}
<1>1. SUFFICES ASSUME B # {} PROVE FALSE
  OBVIOUS
<1>2. PICK m \in B : \A k \in B : m <= k
  <2> HIDE DEF B
  <2>1. B \in SUBSET Nat
    BY DEF B
  <2> QED BY <2>1, <1>1, LeastNat
<1>3. CASE m = 0
  <2> DEFINE h == [k \in 0 .. 0 |-> 1]
  <2>1. h = [k \in 0 .. 0 |-> PowerStep(h, k)]
    BY DEF PowerStep
  <2> QED BY <2>1, <1>2, <1>3 DEF PartPower
<1>4. CASE m # 0
  <2>1. m - 1 \in Nat /\ m - 1 \notin B
    BY <1>2, <1>4
  <2>2. PICK h : PartPower(h, m - 1)
    BY <2>1
  <2>3. \E i : PartPower(i, (m - 1) + 1)
    BY <2>1, <2>2, PartPowerExtends
  <2>4. (m - 1) + 1 = m
    BY <1>2
  <2> QED BY <2>3, <2>4, <1>2
<1> QED BY <1>3, <1>4

LEMMA PartPowersAgree ==
  ASSUME NEW n \in Nat, NEW m \in Nat, NEW h, NEW i, PartPower(h, n), PartPower(i, m)
  PROVE  \A k \in Nat : k <= n /\ k <= m => h[k] = i[k]
<1> DEFINE B == {k \in Nat : k <= n /\ k <= m /\ h[k] # i[k]}
<1>1. SUFFICES ASSUME B # {} PROVE FALSE
  OBVIOUS
<1>2. PICK k \in B : \A j \in B : k <= j
  <2> HIDE DEF B
  <2>1. B \in SUBSET Nat
    BY DEF B
  <2> QED BY <2>1, <1>1, LeastNat
<1>3. k \in 0 .. n /\ k \in 0 .. m /\ h[k] # i[k]
  BY <1>2
<1>4. h[k] = PowerStep(h, k) /\ i[k] = PowerStep(i, k)
  BY <1>3, PartPowerAt
<1>5. k # 0
  BY <1>3, <1>4 DEF PowerStep
<1>6. k - 1 \in Nat /\ k - 1 <= n /\ k - 1 <= m /\ k - 1 \notin B
  BY <1>2, <1>3, <1>5
<1>7. h[k - 1] = i[k - 1]
  BY <1>6
<1> QED BY <1>3, <1>4, <1>5, <1>7 DEF PowerStep

LEMMA PowerExists == \E g : g = [n \in Nat |-> PowerStep(g, n)]
<1> DEFINE part(n) == CHOOSE h : PartPower(h, n)
           g == [n \in Nat |-> part(n)[n]]
<1>1. \A n \in Nat : PartPower(part(n), n)
  BY PartPowerExists
<1> HIDE DEF part
<1>2. ASSUME NEW n \in Nat
      PROVE  g[n] = PowerStep(g, n)
  <2>1. part(n)[n] = PowerStep(part(n), n)
    <3>1. n \in 0 .. n
      OBVIOUS
    <3> QED BY <3>1, <1>1, PartPowerAt
  <2>2. CASE n = 0
    BY <2>1, <2>2 DEF PowerStep
  <2>3. CASE n # 0
    <3>1. n - 1 \in Nat /\ n - 1 <= n
      BY <2>3
    <3>2. part(n)[n - 1] = part(n - 1)[n - 1]
      BY <3>1, <1>1, PartPowersAgree
    <3> QED BY <3>1, <3>2, <2>1, <2>3 DEF PowerStep
  <2> QED BY <2>2, <2>3
<1>3. g = [n \in Nat |-> g[n]]
  OBVIOUS
<1> HIDE DEF g
<1>4. g = [n \in Nat |-> PowerStep(g, n)]
  BY <1>2, <1>3
<1> QED BY <1>4

LEMMA PowerIs ==
  /\ CyclePower[0] = 1
  /\ \A n \in Nat : CyclePower[n + 1] = CycleType * CyclePower[n]
<1>1. CyclePower = CHOOSE g : g = [n \in Nat |-> PowerStep(g, n)]
  BY DEF CyclePower, PowerStep
<1>2. CyclePower = [n \in Nat |-> PowerStep(CyclePower, n)]
  BY <1>1, PowerExists
<1>3. \A n \in Nat : CyclePower[n] = PowerStep(CyclePower, n)
  <2> DEFINE g == CyclePower
  <2>1. g = [n \in Nat |-> PowerStep(g, n)]
    BY <1>2
  <2> HIDE DEF g
  <2>2. \A n \in Nat : g[n] = PowerStep(g, n)
    BY <2>1
  <2> QED BY <2>2 DEF g
<1>4. \A n \in Nat : n + 1 \in Nat /\ n + 1 # 0 /\ (n + 1) - 1 = n
  OBVIOUS
<1> QED BY <1>3, <1>4 DEF PowerStep

LEMMA PowerIsNat ==
  ASSUME CycleType \in Nat, NEW n \in Nat
  PROVE  CyclePower[n] \in Nat
<1> DEFINE B == {k \in Nat : CyclePower[k] \notin Nat}
<1>1. SUFFICES ASSUME B # {} PROVE FALSE
  OBVIOUS
<1>2. PICK m \in B : \A k \in B : m <= k
  <2> HIDE DEF B
  <2>1. B \in SUBSET Nat
    BY DEF B
  <2> QED BY <2>1, <1>1, LeastNat
<1>3. m # 0
  BY <1>2, PowerIs
<1>4. m - 1 \in Nat /\ m - 1 \notin B /\ (m - 1) + 1 = m
  BY <1>2, <1>3
<1>5. CyclePower[m - 1] \in Nat /\ CyclePower[m] = CycleType * CyclePower[m - 1]
  <2>1. CyclePower[(m - 1) + 1] = CycleType * CyclePower[m - 1]
    BY <1>4, PowerIs
  <2> QED BY <2>1, <1>4
<1>6. \A a, b \in Nat : a * b \in Nat
  OBVIOUS
<1> QED BY <1>2, <1>5, <1>6

-----------------------------------------------------------------------------
(* How often the base problem is solved.                                   *)

\* The types of calls in a cycle, and the solves in lmgc(l, type).
CallTypes == IF CycleType = F THEN {F, V} ELSE {CycleType}
Solves(l, type) == IF l = BaseLevel THEN 1
                   ELSE IF type = F THEN l - BaseLevel
                   ELSE IF CycleType = F THEN 1
                   ELSE CyclePower[l - BaseLevel - 1]
Total == Solves(TopLevel, CycleType)

\* The calls a frame has still to make will solve m times.
Left(f, m) ==
  \/ f.calls = <<>> /\ m = 0
  \/ \E n \in Nat \ {0}, type \in CallTypes :
       f.calls = [i \in 1 .. n |-> type] /\ m = n * Solves(f.lev - 1, type)
  \/ /\ CycleType = F /\ f.calls = <<F, V>>
     /\ m = Solves(f.lev - 1, F) + Solves(f.lev - 1, V)

\* r are the solves in the end of the calls of each frame, d those of the current one.
Counts(r, s, d) ==
  /\ r \in [0 .. Len(s) -> Nat] /\ r[0] = d /\ r[Len(s)] = Total
  /\ \A i \in 1 .. Len(s) : \E m \in Nat : Left(s[i], m) /\ r[i] = r[i - 1] + m

\* The solve the process is about to make.
ToSolve(p) == IF pc[p] \in {"base", "solve", "correction"} THEN 1 ELSE 0

CountInv ==
  /\ solves \in [Procs -> Nat]
  /\ \A p \in Procs :
       /\ pc[p] = "postsmooth" => Head(stack[p]).calls = <<>>
       /\ \E r : Counts(r, stack[p], solves[p] + ToSolve(p))

LEMMA SolvesIsNat ==
  ASSUME NEW l \in Levels, NEW type \in CallTypes
  PROVE  Solves(l, type) \in Nat
<1>1. l \in Nat /\ BaseLevel \in Nat /\ BaseLevel <= l
  BY LevelsAre
<1>2. CycleType # F => CycleType \in Nat
  BY CycleAssumption DEF F
<1>3. l # BaseLevel => l - BaseLevel - 1 \in Nat /\ l - BaseLevel \in Nat
  BY <1>1
<1> QED BY <1>2, <1>3, PowerIsNat DEF Solves

LEMMA SolvesIs ==
  ASSUME NEW l \in Levels, l > BaseLevel, NEW type \in CallTypes
  PROVE  /\ l - 1 = BaseLevel => Solves(l, type) = 1 /\ Solves(l - 1, type) = 1
         /\ l - 1 # BaseLevel /\ type = F =>
              Solves(l, type) = Solves(l - 1, F) + Solves(l - 1, V)
         /\ l - 1 # BaseLevel /\ type # F =>
              Solves(l, type) = type * Solves(l - 1, type) /\ type \in Nat \ {0}
<1>1. /\ l \in Nat /\ l - 1 \in Levels /\ l - 1 \in Nat /\ BaseLevel \in Nat
      /\ l # BaseLevel /\ BaseLevel <= l - 1
  BY LevelsAre, LevelBelow
<1>2. type = F => CycleType = F
  BY DEF CallTypes, F, V
<1>3. type # F /\ CycleType = F => type = 1
  BY DEF CallTypes, V
<1>4. CycleType # F => type = CycleType /\ type # F /\ type \in Nat \ {0}
  BY CycleAssumption DEF CallTypes, F
<1>5. V # F
  BY DEF V, F
<1>6. ASSUME l - 1 = BaseLevel
      PROVE  Solves(l, type) = 1 /\ Solves(l - 1, type) = 1
  <2>1. l - BaseLevel - 1 = 0 /\ l - BaseLevel = 1
    BY <1>1, <1>6
  <2> QED BY <2>1, <1>1, <1>6, PowerIs DEF Solves
<1>7. ASSUME l - 1 # BaseLevel, type = F
      PROVE  Solves(l, type) = Solves(l - 1, F) + Solves(l - 1, V)
  <2>1. Solves(l, type) = l - BaseLevel /\ Solves(l - 1, F) = l - 1 - BaseLevel
        /\ Solves(l - 1, V) = 1
    BY <1>1, <1>2, <1>5, <1>7 DEF Solves
  <2> QED BY <2>1, <1>1
<1>8. ASSUME l - 1 # BaseLevel, type # F
      PROVE  Solves(l, type) = type * Solves(l - 1, type) /\ type \in Nat \ {0}
  <2>1. CASE CycleType = F
    <3>1. Solves(l, type) = 1 /\ Solves(l - 1, type) = 1
      BY <2>1, <1>1, <1>8 DEF Solves
    <3> QED BY <3>1, <2>1, <1>3, <1>8
  <2>2. CASE CycleType # F
    <3>1. l - 1 - BaseLevel - 1 \in Nat
          /\ (l - 1 - BaseLevel - 1) + 1 = l - BaseLevel - 1
      BY <1>1, <1>8
    <3>2. /\ Solves(l, type) = CyclePower[l - BaseLevel - 1]
          /\ Solves(l - 1, type) = CyclePower[l - 1 - BaseLevel - 1]
      BY <2>2, <1>1, <1>8 DEF Solves
    <3>3. CyclePower[(l - 1 - BaseLevel - 1) + 1] = CycleType * CyclePower[l - 1 - BaseLevel - 1]
      BY <3>1, PowerIs
    <3> QED BY <3>1, <3>2, <3>3, <2>2, <1>4
  <2> QED BY <2>1, <2>2
<1> QED BY <1>6, <1>7, <1>8

\* A call on a level above the base level solves as often as the calls it makes.
LEMMA FrameLeft ==
  ASSUME NEW l \in Levels, NEW type \in CallTypes
  PROVE  Left(Frame(l, type), IF l = BaseLevel THEN 0 ELSE Solves(l, type))
<1> DEFINE f == Frame(l, type)
<1>1. f.lev = l /\ f.calls = Calls(l, type)
  BY DEF Frame
<1> HIDE DEF f
<1>2. CASE l = BaseLevel
  <2>1. f.calls = <<>>
    BY <1>1, <1>2 DEF Calls
  <2> QED BY <2>1, <1>2 DEF Left, f
<1>3. CASE l # BaseLevel /\ l - 1 = BaseLevel
  <2>0. l > BaseLevel
    BY <1>3, LevelsAre
  <2>1. f.calls = [i \in 1 .. 1 |-> type]
    BY <1>1, <1>3 DEF Calls
  <2>2. Solves(l, type) = 1 * Solves(f.lev - 1, type)
    BY <2>0, <1>1, <1>3, SolvesIs
  <2> QED BY <2>1, <2>2, <1>3 DEF Left, f
<1>4. CASE l # BaseLevel /\ l - 1 # BaseLevel
  <2>0. l > BaseLevel
    BY <1>4, LevelsAre
  <2>1. CASE type = F
    <3>1. f.calls = <<F, V>> /\ CycleType = F
      BY <2>1, <1>1, <1>4 DEF Calls, CallTypes, F, V
    <3>2. Solves(l, type) = Solves(f.lev - 1, F) + Solves(f.lev - 1, V)
      BY <2>0, <2>1, <1>1, <1>4, SolvesIs
    <3> QED BY <3>1, <3>2, <1>4 DEF Left, f
  <2>2. CASE type # F
    <3>1. f.calls = [i \in 1 .. type |-> type]
      BY <2>2, <1>1, <1>4 DEF Calls
    <3>2. Solves(l, type) = type * Solves(f.lev - 1, type) /\ type \in Nat \ {0}
      BY <2>0, <2>2, <1>1, <1>4, SolvesIs
    <3> QED BY <3>1, <3>2, <1>4 DEF Left, f
  <2> QED BY <2>1, <2>2
<1> QED BY <1>2, <1>3, <1>4

LEMMA NothingLeft ==
  ASSUME NEW f, NEW m \in Nat, Left(f, m), f.calls = <<>>
  PROVE  m = 0
<1>1. ASSUME NEW n \in Nat \ {0}, NEW type, f.calls = [i \in 1 .. n |-> type]
      PROVE  FALSE
  <2>1. Len(f.calls) = n /\ Len(f.calls) = 0
    BY <1>1
  <2> QED BY <2>1
<1> QED BY <1>1 DEF Left

\* The next call of a frame takes its part of what is left.
LEMMA LeftAfterCall ==
  ASSUME NEW f, f.lev \in Levels, f.lev > BaseLevel, NEW m \in Nat, Left(f, m),
         NEW g, g.lev = f.lev, g.calls = Tail(f.calls), f.calls # <<>>
  PROVE  /\ Head(f.calls) \in CallTypes
         /\ \E k \in Nat : Left(g, k) /\ m = Solves(f.lev - 1, Head(f.calls)) + k
<1>0. f.lev - 1 \in Levels
  BY LevelBelow
<1>1. CASE \E n \in Nat \ {0}, type \in CallTypes :
             f.calls = [i \in 1 .. n |-> type] /\ m = n * Solves(f.lev - 1, type)
  <2>1. PICK n \in Nat \ {0}, type \in CallTypes :
               f.calls = [i \in 1 .. n |-> type] /\ m = n * Solves(f.lev - 1, type)
    BY <1>1
  <2>3. Head(f.calls) = type /\ g.calls = [i \in 1 .. n - 1 |-> type] /\ n - 1 \in Nat
    <3>1. Len(f.calls) = n /\ n - 1 \in Nat /\ 1 \in 1 .. n
      BY <2>1
    <3>2. Head(f.calls) = f.calls[1] /\ Tail(f.calls) = [i \in 1 .. n - 1 |-> f.calls[i + 1]]
      BY <3>1, <2>1
    <3>3. \A i \in 1 .. n - 1 : i + 1 \in 1 .. n
      BY <3>1
    <3> QED BY <3>1, <3>2, <3>3, <2>1
  <2>4. PICK x \in Nat : x = Solves(f.lev - 1, type)
    BY <1>0, SolvesIsNat
  <2>5. PICK k \in Nat : k = (n - 1) * x
    <3>1. \A a, b \in Nat : a * b \in Nat
      OBVIOUS
    <3> QED BY <3>1, <2>3, <2>4
  <2>6. n * x = x + (n - 1) * x
    BY <2>3, <2>4
  <2>7. Left(g, k)
    <3>1. CASE n = 1
      <4>1. [i \in 1 .. n - 1 |-> type] = <<>>
        BY <3>1
      <4>2. k = 0
        BY <3>1, <2>4, <2>5
      <4> QED BY <4>1, <4>2, <2>3 DEF Left
    <3>2. CASE n # 1
      <4>1. n - 1 \in Nat \ {0}
        BY <3>2, <2>3
      <4>2. k = (n - 1) * Solves(g.lev - 1, type)
        BY <2>4, <2>5
      <4> HIDE <2>1
      <4> QED BY <4>1, <4>2, <2>3 DEF Left
    <3> QED BY <3>1, <3>2
  <2> QED BY <2>1, <2>3, <2>4, <2>5, <2>6, <2>7
<1>2. CASE /\ CycleType = F /\ f.calls = <<F, V>>
           /\ m = Solves(f.lev - 1, F) + Solves(f.lev - 1, V)
  <2>1. F \in CallTypes /\ V \in CallTypes
    BY <1>2 DEF CallTypes
  <2>2. Head(f.calls) = F /\ g.calls = <<V>>
    BY <1>2
  <2>3. g.calls = [i \in 1 .. 1 |-> V]
    <3>1. \A v : <<v>> = [i \in 1 .. 1 |-> v]
      OBVIOUS
    <3> QED BY <3>1, <2>2
  <2>4. Solves(f.lev - 1, V) \in Nat /\ Solves(f.lev - 1, V) = 1 * Solves(g.lev - 1, V)
        /\ 1 \in Nat \ {0}
    BY <2>1, <1>0, SolvesIsNat
  <2>5. Left(g, Solves(f.lev - 1, V))
    BY <2>1, <2>3, <2>4 DEF Left
  <2> QED BY <2>1, <2>2, <2>4, <2>5, <1>2
<1>3. f.calls # <<>>
  OBVIOUS
<1> QED BY <1>1, <1>2, <1>3 DEF Left

\* A call without calls of its own returns.
LEMMA CountsPopped ==
  ASSUME NEW s \in Seq(Frames), s # <<>>, s[1].calls = <<>>, NEW d \in Nat, NEW r, Counts(r, s, d)
  PROVE  \E q : Counts(q, Tail(s), d)
<1> DEFINE n == Len(s)
           q == [i \in 0 .. n - 1 |-> r[i + 1]]
<1>1. n \in Nat /\ n >= 1 /\ Len(Tail(s)) = n - 1 /\ \A i \in 1 .. n - 1 : Tail(s)[i] = s[i + 1]
  OBVIOUS
<1>2. /\ r \in [0 .. n -> Nat] /\ r[0] = d /\ r[n] = Total
      /\ \A i \in 1 .. n : \E m \in Nat : Left(s[i], m) /\ r[i] = r[i - 1] + m
  BY DEF Counts
<1> HIDE DEF n
<1>3. r[1] = d
  <2>1. 1 \in 1 .. n
    BY <1>1
  <2>2. PICK m \in Nat : Left(s[1], m) /\ r[1] = r[0] + m
    BY <2>1, <1>2
  <2> QED BY <2>2, <1>2, NothingLeft
<1>4. /\ q \in [0 .. n - 1 -> Nat] /\ q[0] = d /\ q[n - 1] = Total
      /\ \A i \in 0 .. n - 1 : q[i] = r[i + 1]
  <2>1. \A i \in 0 .. n - 1 : i + 1 \in 0 .. n
    BY <1>1
  <2>2. 0 \in 0 .. n - 1 /\ n - 1 \in 0 .. n - 1 /\ (n - 1) + 1 = n /\ 0 + 1 = 1
    BY <1>1
  <2> QED BY <2>1, <2>2, <1>2, <1>3
<1> HIDE DEF q
<1>5. ASSUME NEW i \in 1 .. n - 1
      PROVE  \E m \in Nat : Left(Tail(s)[i], m) /\ q[i] = q[i - 1] + m
  <2>1. i + 1 \in 1 .. n /\ (i + 1) - 1 = i /\ i \in 0 .. n - 1 /\ i - 1 \in 0 .. n - 1
        /\ (i - 1) + 1 = i
    BY <1>1
  <2>2. PICK m \in Nat : Left(s[i + 1], m) /\ r[i + 1] = r[(i + 1) - 1] + m
    BY <2>1, <1>2
  <2> QED BY <2>1, <2>2, <1>1, <1>4
<1>6. n - 1 = Len(Tail(s))
  BY <1>1
<1>7. Counts(q, Tail(s), d)
  BY <1>4, <1>5, <1>6 DEF Counts
<1> QED BY <1>7

\* A frame makes its next call, to a level where d solves will be made at once.
LEMMA CountsPushed ==
  ASSUME NEW s \in Seq(Frames), s # <<>>, s[1].lev > BaseLevel, s[1].calls # <<>>,
         NEW d \in Nat, NEW r, Counts(r, s, d), NEW f, NEW g,
         f = Frame(s[1].lev - 1, Head(s[1].calls)),
         g = [lev |-> s[1].lev, calls |-> Tail(s[1].calls)],
         NEW e \in Nat, e = IF s[1].lev - 1 = BaseLevel THEN d + 1 ELSE d
  PROVE  \E q : Counts(q, <<f, g>> \o Tail(s), e)
<1> DEFINE n == Len(s)
           s2 == <<f, g>> \o Tail(s)
           q == [i \in 0 .. n + 1 |-> IF i = 0 THEN e ELSE IF i = 1
                                      THEN d + Solves(s[1].lev - 1, Head(s[1].calls))
                                      ELSE r[i - 1]]
<1>0. s[1] \in Frames
  OBVIOUS
<1>1. n \in Nat /\ n >= 1 /\ Len(s2) = n + 1 /\ s2[1] = f /\ s2[2] = g
      /\ \A i \in 3 .. n + 1 : s2[i] = s[i - 1]
  <2>1. Tail(s) \in Seq(Frames) /\ Len(Tail(s)) = n - 1 /\ n \in Nat /\ n >= 1
        /\ \A i \in 1 .. n - 1 : Tail(s)[i] = s[i + 1]
    OBVIOUS
  <2>2. Len(<<f, g>>) = 2 /\ <<f, g>>[1] = f /\ <<f, g>>[2] = g /\ <<f, g>> \in Seq({f, g})
    OBVIOUS
  <2>3. s2 = [i \in 1 .. 2 + (n - 1) |-> IF i <= 2 THEN <<f, g>>[i] ELSE Tail(s)[i - 2]]
    BY <2>1, <2>2
  <2>4. \A i \in 3 .. n + 1 : i - 2 \in 1 .. n - 1 /\ (i - 2) + 1 = i - 1 /\ i \in 1 .. 2 + (n - 1)
                              /\ ~(i <= 2)
    BY <2>1
  <2>5. 2 + (n - 1) = n + 1 /\ 1 \in 1 .. n + 1 /\ 2 \in 1 .. n + 1
    BY <2>1
  <2> DEFINE u == <<f, g>>
  <2>6. u[1] = f /\ u[2] = g
    BY <2>2
  <2> HIDE DEF n, u
  <2>7. s2 = [i \in 1 .. n + 1 |-> IF i <= 2 THEN u[i] ELSE Tail(s)[i - 2]]
    BY <2>3, <2>5 DEF u
  <2> HIDE DEF s2
  <2>8. Len(s2) = n + 1
    BY <2>1, <2>7
  <2>9. s2[1] = f /\ s2[2] = g
    BY <2>5, <2>6, <2>7
  <2>10. \A i \in 3 .. n + 1 : s2[i] = Tail(s)[i - 2] /\ Tail(s)[i - 2] = s[i - 1]
    <3> TAKE i \in 3 .. n + 1
    <3>1. i - 2 \in 1 .. n - 1 /\ (i - 2) + 1 = i - 1 /\ i \in 1 .. n + 1 /\ ~(i <= 2)
      BY <2>4, <2>5
    <3>2. Tail(s)[i - 2] = s[(i - 2) + 1]
      BY <3>1, <2>1
    <3> QED BY <3>1, <3>2, <2>7
  <2> QED BY <2>1, <2>8, <2>9, <2>10
<1>2. /\ r \in [0 .. n -> Nat] /\ r[0] = d /\ r[n] = Total
      /\ \A i \in 1 .. n : \E m \in Nat : Left(s[i], m) /\ r[i] = r[i - 1] + m
  BY DEF Counts
<1> HIDE DEF n, s2
<1>3. PICK m \in Nat : Left(s[1], m) /\ r[1] = d + m
  <2>1. 1 \in 1 .. n
    BY <1>1
  <2>2. PICK m \in Nat : Left(s[1], m) /\ r[1] = r[1 - 1] + m
    BY <2>1, <1>2
  <2> QED BY <2>2, <1>2
<1> DEFINE type == Head(s[1].calls)
           x == Solves(s[1].lev - 1, type)
<1>4. s[1].lev \in Levels /\ s[1].lev - 1 \in Levels
  <2>1. s[1].lev \in Levels
    BY <1>0 DEF Frames
  <2> QED BY <2>1, LevelBelow
<1>5. type \in CallTypes /\ \E k \in Nat : Left(g, k) /\ m = x + k
  <2>1. g.lev = s[1].lev /\ g.calls = Tail(s[1].calls)
    OBVIOUS
  <2> QED BY <2>1, <1>3, <1>4, LeftAfterCall
<1>6. PICK k \in Nat : Left(g, k) /\ m = x + k
  BY <1>5
<1>7. x \in Nat /\ (s[1].lev - 1 = BaseLevel => x = 1)
  BY <1>4, <1>5, SolvesIsNat DEF Solves
<1>8. \E j \in Nat : Left(f, j) /\ d + x = e + j
  <2>1. Left(f, IF s[1].lev - 1 = BaseLevel THEN 0 ELSE x)
    BY <1>4, <1>5, FrameLeft
  <2> QED BY <2>1, <1>7
<1> HIDE DEF x, type
<1>9. /\ q \in [0 .. n + 1 -> Nat] /\ q[0] = e /\ q[1] = d + x
      /\ \A i \in 2 .. n + 1 : q[i] = r[i - 1]
  <2>1. \A i \in 0 .. n + 1 : i = 0 \/ i = 1 \/ (i \in 2 .. n + 1 /\ i # 0 /\ i # 1 /\ i - 1 \in 0 .. n)
    BY <1>1
  <2>2. 0 \in 0 .. n + 1 /\ 1 \in 0 .. n + 1 /\ \A i \in 2 .. n + 1 : i \in 0 .. n + 1
    BY <1>1
  <2>3. d + x \in Nat
    BY <1>7
  <2> QED BY <2>1, <2>2, <2>3, <1>2 DEF x, type
<1> HIDE DEF q
<1>10. q[n + 1] = Total
  <2>1. n + 1 \in 2 .. n + 1 /\ (n + 1) - 1 = n
    BY <1>1
  <2> QED BY <2>1, <1>2, <1>9
<1>11. ASSUME NEW i \in 1 .. n + 1
       PROVE  \E j \in Nat : Left(s2[i], j) /\ q[i] = q[i - 1] + j
  <2>1. CASE i = 1
    <3>1. i - 1 = 0
      BY <2>1
    <3> QED BY <3>1, <2>1, <1>1, <1>8, <1>9
  <2>2. CASE i = 2
    <3>1. i - 1 = 1 /\ i \in 2 .. n + 1
      BY <2>2, <1>11
    <3>2. q[i] = d + x + k
      BY <3>1, <1>3, <1>6, <1>7, <1>9
    <3> QED BY <3>1, <3>2, <2>2, <1>1, <1>6, <1>9
  <2>3. CASE i \in 3 .. n + 1
    <3>1. i - 1 \in 1 .. n /\ i \in 2 .. n + 1 /\ i - 1 \in 2 .. n + 1
      BY <2>3, <1>1
    <3>2. PICK j \in Nat : Left(s[i - 1], j) /\ r[i - 1] = r[(i - 1) - 1] + j
      BY <3>1, <1>2
    <3> QED BY <3>1, <3>2, <2>3, <1>1, <1>9
  <2>4. i = 1 \/ i = 2 \/ i \in 3 .. n + 1
    BY <1>1
  <2> QED BY <2>1, <2>2, <2>3, <2>4
<1>12. Counts(q, s2, e)
  BY <1>1, <1>9, <1>10, <1>11 DEF Counts
<1> QED BY <1>12 DEF s2

\* Where a process is in the recursion.
LEMMA CallsOfProcess ==
  ASSUME Inv, NEW p \in Procs
  PROVE  /\ stack[p] \in Seq(Frames)
         /\ stack[p] = <<>> <=> pc[p] \in {"finish", "done"}
         /\ stack[p] # <<>> => /\ Head(stack[p]) = stack[p][1] /\ Lev(p) = stack[p][1].lev
                               /\ Lev(p) \in Levels /\ stack[p][1] \in Frames
         /\ pc[p] \in {"reset", "wait", "restrict", "presmooth", "coarse", "postsmooth"} =>
              Lev(p) > BaseLevel
         /\ pc[p] \in {"base", "solve", "correction"} =>
              Lev(p) = BaseLevel /\ stack[p][1].calls = <<>>
         /\ IsField(pc) /\ IsField(stack)
<1>1. PICK H, N, k : Tracked(H, N, k)
  BY DEF Inv
<1>2. PICK c : c = H[k[p]]
  OBVIOUS
<1>3. Sound(c) /\ At(p, c) /\ Shapes
  BY <1>1, <1>2 DEF Tracked, History, Inv
<1>4. Known(p, c)
  BY <1>3 DEF Known, Inv
<1>5. stack[p] = c.stack /\ PlaceOf(p) = c.at
  BY <1>3 DEF At
<1>6. stack[p] \in Seq(Frames) /\ (stack[p] = <<>> <=> c.at \in {"finish", "done"})
      /\ \A i \in 1 .. Len(stack[p]) : FewCalls(stack[p][i])
  BY <1>3, <1>5 DEF Sound
<1>7. stack[p] = <<>> <=> pc[p] \in {"finish", "done"}
  BY <1>5, <1>6 DEF PlaceOf, HasSent
<1>8. stack[p] # <<>> => /\ Head(stack[p]) = stack[p][1] /\ Lev(p) = stack[p][1].lev
                         /\ Lev(p) \in Levels /\ stack[p][1] \in Frames /\ 1 \in 1 .. Len(stack[p])
  <2>1. SUFFICES ASSUME stack[p] # <<>>
                 PROVE  /\ Head(stack[p]) = stack[p][1] /\ Lev(p) = stack[p][1].lev
                        /\ Lev(p) \in Levels /\ stack[p][1] \in Frames /\ 1 \in 1 .. Len(stack[p])
    OBVIOUS
  <2>2. 1 \in 1 .. Len(stack[p]) /\ Head(stack[p]) = stack[p][1]
    BY <2>1, <1>6
  <2>3. stack[p][1] \in Frames
    BY <2>2, <1>6
  <2>4. stack[p][1].lev \in Levels
    BY <2>3 DEF Frames
  <2> QED BY <2>2, <2>3, <2>4 DEF Lev
<1>9. /\ pc[p] \in {"reset", "wait", "restrict", "presmooth", "coarse", "postsmooth"} =>
           Lev(p) > BaseLevel
      /\ pc[p] \in {"base", "solve", "correction"} => Lev(p) = BaseLevel
  BY <1>4, Here
<1>10. pc[p] \in {"base", "solve", "correction"} => stack[p][1].calls = <<>>
  BY <1>6, <1>7, <1>8, <1>9 DEF FewCalls
<1> QED BY <1>3, <1>6, <1>7, <1>8, <1>9, <1>10 DEF Shapes

\* A process counts on: from pc, stack and solves it follows that others do.
CountOf(p) ==
  /\ pc[p] = "postsmooth" => Head(stack[p]).calls = <<>>
  /\ \E r : Counts(r, stack[p], solves[p] + ToSolve(p))

LEMMA OthersCount ==
  ASSUME Inv, CountInv, NEW p \in Procs, CountOf(p)', solves' \in [Procs -> Nat],
         \A q \in Procs \ {p} : pc'[q] = pc[q] /\ stack'[q] = stack[q] /\ solves'[q] = solves[q]
  PROVE  CountInv'
<1>1. ASSUME NEW q \in Procs
      PROVE  /\ pc'[q] = "postsmooth" => Head(stack'[q]).calls = <<>>
             /\ \E r : Counts(r, stack'[q], solves'[q] + ToSolve(q)')
  <2>1. CASE q = p
    BY <2>1 DEF CountOf
  <2>2. CASE q # p
    <3>1. pc'[q] = pc[q] /\ stack'[q] = stack[q] /\ solves'[q] = solves[q]
      BY <2>2
    <3>2. ToSolve(q)' = ToSolve(q)
      BY <3>1 DEF ToSolve
    <3> QED BY <3>1, <3>2 DEF CountInv
  <2> QED BY <2>1, <2>2
<1> QED BY <1>1 DEF CountInv

\* A step without call and return.
LEMMA CountsStay ==
  ASSUME Inv, CountInv, NEW p \in Procs, stack' = stack, solves' = solves,
         NEW label, pc' = [pc EXCEPT ![p] = label],
         label = "postsmooth" => Head(stack[p]).calls = <<>>,
         pc[p] \in {"base", "solve", "correction"} <=> label \in {"base", "solve", "correction"}
  PROVE  CountInv'
<1>1. pc'[p] = label /\ \A q \in Procs \ {p} : pc'[q] = pc[q]
  <2>1. IsField(pc)
    BY CallsOfProcess
  <2> HIDE DEF Inv, CountInv
  <2> QED BY <2>1 DEF IsField
<1>2. ToSolve(p)' = ToSolve(p)
  BY <1>1 DEF ToSolve
<1>3. CountOf(p)'
  BY <1>1, <1>2 DEF CountOf, CountInv
<1> QED BY <1>1, <1>3, OthersCount DEF CountInv

\* A return, after d solves.
LEMMA CountsReturn ==
  ASSUME Inv, CountInv, NEW p \in Procs, Leave(p), stack[p] # <<>>, Head(stack[p]).calls = <<>>,
         solves' \in [Procs -> Nat], solves'[p] = solves[p] + ToSolve(p),
         \A q \in Procs \ {p} : solves'[q] = solves[q]
  PROVE  CountInv'
<1>1. IsField(pc) /\ IsField(stack) /\ stack[p] \in Seq(Frames) /\ stack[p][1].calls = <<>>
  BY CallsOfProcess
<1>2. /\ stack' = [stack EXCEPT ![p] = Tail(@)]
      /\ pc' = [pc EXCEPT ![p] = IF Len(stack[p]) = 1 THEN "finish" ELSE "coarse"]
  BY DEF Leave, Goto
<1>3. /\ stack'[p] = Tail(stack[p]) /\ pc'[p] \in {"finish", "coarse"}
      /\ \A q \in Procs \ {p} : pc'[q] = pc[q] /\ stack'[q] = stack[q]
  BY <1>1, <1>2 DEF IsField
<1>4. ToSolve(p)' = 0 /\ solves[p] + ToSolve(p) \in Nat /\ solves'[p] \in Nat
  BY <1>3 DEF ToSolve, CountInv
<1>5. PICK r : Counts(r, stack[p], solves[p] + ToSolve(p))
  BY DEF CountInv
<1>6. \E q : Counts(q, Tail(stack[p]), solves[p] + ToSolve(p))
  BY <1>1, <1>4, <1>5, CountsPopped
<1>7. solves'[p] + ToSolve(p)' = solves[p] + ToSolve(p)
  BY <1>4
<1>8. CountOf(p)'
  BY <1>3, <1>6, <1>7 DEF CountOf
<1> QED BY <1>3, <1>8, OthersCount

LEMMA CountsDescend ==
  ASSUME Inv, CountInv, NEW p \in Procs, Descend(p)
  PROVE  CountInv'
<1> DEFINE s == stack[p]
           f == Frame(Lev(p) - 1, Head(Head(s).calls))
           g == [lev |-> Lev(p), calls |-> Tail(Head(s).calls)]
<1>1. /\ pc[p] = "coarse" /\ Head(s).calls # <<>>
      /\ stack' = [stack EXCEPT ![p] = <<f, g>> \o Tail(@)]
      /\ pc' = [pc EXCEPT ![p] = EntryOf(Lev(p) - 1)]
      /\ solves' = solves
  BY DEF Descend, Goto
<1>2. /\ IsField(pc) /\ IsField(stack) /\ s \in Seq(Frames) /\ s # <<>>
      /\ Head(s) = s[1] /\ Lev(p) = s[1].lev /\ Lev(p) > BaseLevel
  BY <1>1, CallsOfProcess
<1>3. /\ stack'[p] = <<f, g>> \o Tail(s) /\ pc'[p] = EntryOf(Lev(p) - 1)
      /\ \A q \in Procs \ {p} : pc'[q] = pc[q] /\ stack'[q] = stack[q]
  BY <1>1, <1>2 DEF IsField
<1>4. PICK d \in Nat : d = solves[p]
  BY DEF CountInv
<1>5. ToSolve(p) = 0 /\ ToSolve(p)' = IF Lev(p) - 1 = BaseLevel THEN 1 ELSE 0
  BY <1>1, <1>3 DEF ToSolve, EntryOf
<1>6. PICK r : Counts(r, s, d)
  <2>1. solves[p] + ToSolve(p) = d
    BY <1>4, <1>5
  <2> QED BY <2>1 DEF CountInv
<1>7. PICK e \in Nat : e = IF s[1].lev - 1 = BaseLevel THEN d + 1 ELSE d
  OBVIOUS
<1>8. f = Frame(s[1].lev - 1, Head(s[1].calls)) /\ g = [lev |-> s[1].lev, calls |-> Tail(s[1].calls)]
      /\ s[1].lev > BaseLevel /\ s[1].calls # <<>>
  BY <1>1, <1>2
<1> HIDE DEF s, f, g
<1>9. \E q : Counts(q, <<f, g>> \o Tail(s), e)
  BY <1>2, <1>6, <1>7, <1>8, CountsPushed
<1>10. solves'[p] + ToSolve(p)' = e
  BY <1>1, <1>2, <1>4, <1>5, <1>7
<1>11. pc'[p] # "postsmooth"
  BY <1>3 DEF EntryOf
<1>12. CountOf(p)'
  BY <1>3, <1>9, <1>10, <1>11 DEF CountOf
<1> QED BY <1>1, <1>3, <1>12, OthersCount DEF CountInv

\* A return after the base problem was solved.
LEMMA CountsSolved ==
  ASSUME Inv, CountInv, NEW p \in Procs, NEW x, Solved(p, x), pc[p] \in {"base", "solve", "correction"}
  PROVE  CountInv'
<1>1. solves' = [solves EXCEPT ![p] = @ + 1] /\ Leave(p)
  BY DEF Solved
<1>2. stack[p] # <<>> /\ Head(stack[p]).calls = <<>>
  BY CallsOfProcess
<1>3. solves' \in [Procs -> Nat] /\ solves'[p] = solves[p] + 1
      /\ \A q \in Procs \ {p} : solves'[q] = solves[q]
  BY <1>1 DEF CountInv
<1>4. ToSolve(p) = 1
  BY DEF ToSolve
<1> QED BY <1>1, <1>2, <1>3, <1>4, CountsReturn

LEMMA CountStep ==
  ASSUME Inv, CountInv, NEW p \in Procs, Step(p)
  PROVE  CountInv'
<1>1. CASE PreSmooth(p) \/ PostSmooth(p)
  BY <1>1 DEF PreSmooth, PostSmooth, CountInv, ToSolve
<1>2. CASE StartRestriction(p)
  <2>1. stack' = stack /\ solves' = solves /\ pc[p] = "presmooth"
        /\ pc' = [pc EXCEPT ![p] = IF Overlap THEN "reset" ELSE "wait"]
    BY <1>2 DEF StartRestriction, Goto
  <2> QED BY <2>1, CountsStay
<1>3. CASE ResetCoarse(p)
  <2>1. stack' = stack /\ solves' = solves /\ pc[p] = "reset"
        /\ pc' = [pc EXCEPT ![p] = IF Overlap THEN "wait" ELSE "restrict"]
    BY <1>3 DEF ResetCoarse, Goto
  <2> QED BY <2>1, CountsStay
<1>4. CASE Wait(p)
  <2>1. stack' = stack /\ solves' = solves /\ pc[p] = "wait"
        /\ pc' = [pc EXCEPT ![p] = IF Overlap THEN "restrict" ELSE "reset"]
    BY <1>4 DEF Wait, Goto
  <2> QED BY <2>1, CountsStay
<1>5. CASE Restrict(p)
  <2>1. stack' = stack /\ solves' = solves /\ pc[p] = "restrict"
        /\ pc' = [pc EXCEPT ![p] = "coarse"]
    BY <1>5 DEF Restrict, Goto
  <2> QED BY <2>1, CountsStay
<1>6. CASE Descend(p)
  BY <1>6, CountsDescend
<1>7. CASE SolveDistributed(p)
  BY <1>7, CountsSolved DEF SolveDistributed
<1>8. CASE GatherBase(p)
  <2>1. stack' = stack /\ solves' = solves /\ pc[p] = "base"
        /\ \/ pc' = [pc EXCEPT ![p] = "correction"]
           \/ pc' = [pc EXCEPT ![p] = "solve"]
    BY <1>8 DEF GatherBase, Goto
  <2> QED BY <2>1, CountsStay
<1>9. CASE SolveGathered(p)
  BY <1>9, CountsSolved DEF SolveGathered
<1>10. CASE ReceiveSolution(p)
  BY <1>10, CountsSolved DEF ReceiveSolution
<1>11. CASE Prolongate(p)
  <2>1. stack' = stack /\ solves' = solves /\ pc[p] = "coarse" /\ Head(stack[p]).calls = <<>>
        /\ pc' = [pc EXCEPT ![p] = "postsmooth"]
    BY <1>11 DEF Prolongate, Goto
  <2> QED BY <2>1, CountsStay
<1>12. CASE Return(p)
  <2>1. Leave(p) /\ solves' = solves /\ pc[p] = "postsmooth"
    BY <1>12 DEF Return
  <2>2. stack[p] # <<>> /\ Head(stack[p]).calls = <<>>
    BY <2>1, CallsOfProcess DEF CountInv
  <2>3. ToSolve(p) = 0 /\ solves \in [Procs -> Nat] /\ solves[p] + 0 = solves[p]
    BY <2>1 DEF ToSolve, CountInv
  <2> QED BY <2>1, <2>2, <2>3, CountsReturn
<1>13. CASE Finish(p)
  <2>1. stack' = stack /\ solves' = solves /\ pc[p] = "finish"
        /\ pc' = [pc EXCEPT ![p] = "done"]
    BY <1>13 DEF Finish, Goto
  <2> QED BY <2>1, CountsStay
<1> QED BY <1>1, <1>2, <1>3, <1>4, <1>5, <1>6, <1>7, <1>8, <1>9, <1>10, <1>11, <1>12, <1>13
        DEF Step

LEMMA CountInit == Init => CountInv
<1> SUFFICES ASSUME Init
             PROVE  CountInv
  OBVIOUS
<1>1. CycleType \in CallTypes /\ TopLevel \in Levels
  BY LevelsAre DEF CallTypes
<1>2. ASSUME NEW p \in Procs
      PROVE  /\ pc[p] = "postsmooth" => Head(stack[p]).calls = <<>>
             /\ \E r : Counts(r, stack[p], solves[p] + ToSolve(p))
  <2> DEFINE f == Frame(TopLevel, CycleType)
             m == IF TopLevel = BaseLevel THEN 0 ELSE Total
             d == IF TopLevel = BaseLevel THEN 1 ELSE 0
             r == [i \in 0 .. 1 |-> IF i = 0 THEN d ELSE Total]
  <2>1. stack[p] = <<f>> /\ pc[p] = EntryOf(TopLevel) /\ solves[p] = 0
    BY DEF Init
  <2>2. solves[p] + ToSolve(p) = d /\ pc[p] # "postsmooth"
    BY <2>1 DEF ToSolve, EntryOf
  <2>3. Total \in Nat /\ (TopLevel = BaseLevel => Total = 1)
    BY <1>1, SolvesIsNat DEF Total, Solves
  <2>4. Left(f, m)
    BY <1>1, FrameLeft DEF Total
  <2>5. Total = d + m /\ m \in Nat /\ d \in Nat
    BY <2>3
  <2> HIDE DEF f, m, d
  <2>6. r \in [0 .. 1 -> Nat] /\ r[0] = d /\ r[1] = Total
    BY <2>3, <2>5
  <2> HIDE DEF r
  <2>7. Len(stack[p]) = 1 /\ stack[p][1] = f
    BY <2>1
  <2>8. \A i \in 1 .. 1 : Left(stack[p][i], m) /\ r[i] = r[i - 1] + m
    BY <2>4, <2>5, <2>6, <2>7
  <2>9. Counts(r, stack[p], d)
    BY <2>5, <2>6, <2>7, <2>8 DEF Counts
  <2> QED BY <2>2, <2>9
<1>3. solves \in [Procs -> Nat]
  BY DEF Init
<1> QED BY <1>2, <1>3 DEF CountInv

LEMMA CountNext == Inv /\ CountInv /\ [Next]_vars => CountInv'
<1>1. UNCHANGED vars /\ CountInv => CountInv'
  BY DEF vars, CountInv, ToSolve
<1> QED BY <1>1, CountStep DEF Next

LEMMA CountDone == Inv /\ CountInv => BaseSolvesCounted
<1> SUFFICES ASSUME Inv, CountInv, NEW p \in Procs, pc[p] = "done"
             PROVE  solves[p] = IF TopLevel - BaseLevel = 0 THEN 1
                                ELSE IF CycleType = F THEN TopLevel - BaseLevel
                                ELSE CyclePower[TopLevel - BaseLevel - 1]
  BY DEF BaseSolvesCounted
<1>1. stack[p] = <<>> /\ ToSolve(p) = 0 /\ solves[p] \in Nat
  BY CallsOfProcess DEF ToSolve, CountInv
<1>2. PICK r : Counts(r, stack[p], solves[p] + 0)
  BY <1>1 DEF CountInv
<1>3. solves[p] = Total
  <2>1. Len(stack[p]) = 0
    BY <1>1
  <2> QED BY <2>1, <1>1, <1>2 DEF Counts
<1>4. TopLevel - BaseLevel = 0 <=> TopLevel = BaseLevel
  BY LevelsAre
<1> QED BY <1>3, <1>4 DEF Total, Solves

\* The cycle does what its type asks for, and all of it reaches the surface: the base
\* problem is solved once in a V-cycle, once per level in an F-cycle, and as often as the
\* calls multiply in the others (lmgc()), on every process.
THEOREM CycleIsAlwaysComplete == GatherAlike => (Spec => []CycleIsComplete)
<1> SUFFICES ASSUME GatherAlike
             PROVE  Spec => []CycleIsComplete
  OBVIOUS
<1>1. Spec => [](Inv /\ CountInv)
  <2>1. Init => Inv /\ CountInv
    BY InitInv, CountInit
  <2>2. Inv /\ CountInv /\ [Next]_vars => (Inv /\ CountInv)'
    BY NextInv, CountNext
  <2> QED BY <2>1, <2>2, PTL DEF Spec
<1>2. Inv /\ CountInv => CycleIsComplete
  BY InvSurface, CountDone DEF CycleIsComplete
<1> QED BY <1>1, <1>2, PTL
============================================================================
