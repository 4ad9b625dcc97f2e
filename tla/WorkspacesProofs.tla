-------------------------- MODULE WorkspacesProofs --------------------------
(***************************************************************************)
(* Every property that holds of workspaces, windows and monitors, for any  *)
(* number of each.  The invariant that is inductive has three parts:       *)
(* what monitors show (Placed), where windows are (Housed), and which are  *)
(* fullscreen (Marked); and a fourth, that every workspace has a monitor   *)
(* (Owned), that does not hold in the unsafe state.  A handler calls many  *)
(* functions, and what it is in the middle of seldom keeps all of them, so *)
(* each function of the code is proved once, for any desk in which what it *)
(* needs holds, to keep the parts (Keeps) and to move no workspace but     *)
(* those it is asked to (Moved); a handler's proof composes those.  The    *)
(* monitor that is unplugged moves a list of workspaces: the induction     *)
(* over a list's length is by the least length that fails (Climb).         *)
(***************************************************************************)
EXTENDS Workspaces, SequenceTheorems, WellFoundedInduction, TLAPS

-----------------------------------------------------------------------------
(* Lists by their length, and the IDs that are free                         *)

(* A set of naturals that is not empty has a least member.                  *)
LEMMA Least ==
  ASSUME NEW T \in SUBSET Nat, T # {}
  PROVE  \E n \in T : \A m \in T : n <= m
<1>1. \E x \in T : \A y \in T : ~ (<<y, x>> \in OpToRel(<, Nat))
  BY NatLessThanWellFounded, WFMin, Zenon
<1>2. \A x, y \in Nat : <<y, x>> \in OpToRel(<, Nat) <=> y < x
  BY DEF OpToRel
<1>3. PICK x \in T : \A y \in T : ~ (<<y, x>> \in OpToRel(<, Nat))
  BY <1>1
<1>4. \A y \in T : ~ (y < x)
  BY <1>2, <1>3
<1> QED BY <1>4

(* A set with zero in it, and the successor of whatever it has below n, has *)
(* n: the induction over the length of a list.                              *)
LEMMA Climb ==
  ASSUME NEW n \in Nat, NEW T, 0 \in T,
         \A i \in 0..n : i \in T /\ i < n => i + 1 \in T
  PROVE  n \in T
<1> SUFFICES ASSUME n \notin T PROVE FALSE OBVIOUS
<1>1. PICK k \in (0..n) \ T : \A m \in (0..n) \ T : k <= m
  <2>1. (0..n) \ T \in SUBSET Nat /\ (0..n) \ T # {} OBVIOUS
  <2> QED BY <2>1, Least
<1>2. k # 0 /\ k - 1 \in 0..n /\ k - 1 < n /\ (k - 1) + 1 = k  BY <1>1
<1>3. k - 1 \in T BY <1>1, <1>2
<1> QED BY <1>1, <1>2, <1>3

(* Those is the recursive function its definition writes.                   *)
LEMMA ThoseBySteps ==
  ASSUME NEW s, Len(s) \in Nat, NEW S
  PROVE  \E f : /\ f = [i \in 0..Len(s) |->
                     IF i = 0 THEN <<>>
                     ELSE IF s[i] \in S THEN Append(f[i - 1], s[i]) ELSE f[i - 1]]
                /\ Those(s, S) = f[Len(s)]
<1> DEFINE G(f, n) == f = [i \in 0..n |->
                     IF i = 0 THEN <<>>
                     ELSE IF s[i] \in S THEN Append(f[i - 1], s[i]) ELSE f[i - 1]]
<1>1. \E f : G(f, Len(s))
  <2> DEFINE T == {n \in Nat : \E f : G(f, n)}
  <2>1. 0 \in T
    <3>1. G([i \in 0..0 |-> <<>>], 0) OBVIOUS
    <3> QED BY <3>1
  <2>2. ASSUME NEW n \in Nat, n \in T PROVE n + 1 \in T
    <3>1. PICK f : G(f, n) BY <2>2
    <3> DEFINE g == [i \in 0..(n + 1) |->
                       IF i <= n THEN f[i]
                       ELSE IF s[n + 1] \in S THEN Append(f[n], s[n + 1]) ELSE f[n]]
    <3>2. \A i \in 0..n : f[i] = IF i = 0 THEN <<>>
            ELSE IF s[i] \in S THEN Append(f[i - 1], s[i]) ELSE f[i - 1]
      BY <3>1
    <3>3. \A i \in 0..(n + 1) : g[i] = IF i = 0 THEN <<>>
            ELSE IF s[i] \in S THEN Append(g[i - 1], s[i]) ELSE g[i - 1]
      <4> SUFFICES ASSUME NEW i \in 0..(n + 1)
                   PROVE  g[i] = IF i = 0 THEN <<>>
            ELSE IF s[i] \in S THEN Append(g[i - 1], s[i]) ELSE g[i - 1]
        OBVIOUS
      <4>1. CASE i = 0 BY <4>1, <3>2
      <4>2. CASE i \in 1..n BY <4>2, <3>2
      <4>3. CASE i = n + 1 BY <4>3, <3>2
      <4> QED BY <4>1, <4>2, <4>3
    <3>4. G(g, n + 1)
      <4>1. g = [i \in 0..(n + 1) |-> g[i]] OBVIOUS
      <4> HIDE DEF g
      <4> QED BY <3>3, <4>1
    <3> HIDE DEF G, g
    <3> QED BY <3>4
  <2> HIDE DEF T
  <2>3. Len(s) \in T BY <2>1, <2>2, Climb
  <2> QED BY <2>3 DEF T
<1>2. Those(s, S) = (CHOOSE f : G(f, Len(s)))[Len(s)]
  BY DEF Those
<1> HIDE DEF G
<1>3. G(CHOOSE f : G(f, Len(s)), Len(s)) BY <1>1
<1> QED BY <1>2, <1>3 DEF G

(* What Append adds to a list's members.                                    *)
LEMMA AppendFacts ==
  ASSUME NEW A, NEW s \in Seq(A), NEW a \in A
  PROVE  /\ Append(s, a) \in Seq(A)
         /\ ToSet(Append(s, a)) = ToSet(s) \union {a}
<1>1. /\ Append(s, a) \in Seq(A) /\ Len(Append(s, a)) = Len(s) + 1
      /\ \A i \in 1..Len(s) : Append(s, a)[i] = s[i]
      /\ Append(s, a)[Len(s) + 1] = a
  OBVIOUS
<1>2. DOMAIN s = 1..Len(s) /\ DOMAIN Append(s, a) = 1..(Len(s) + 1)
  BY <1>1
<1>3. \A i \in 1..(Len(s) + 1) : i \in 1..Len(s) \/ i = Len(s) + 1
  OBVIOUS
<1>4. 1..Len(s) \subseteq 1..(Len(s) + 1) /\ Len(s) + 1 \in 1..(Len(s) + 1)
  OBVIOUS
<1>5. ASSUME NEW e \in ToSet(Append(s, a)) PROVE e \in ToSet(s) \union {a}
  BY <1>1, <1>2, <1>3 DEF ToSet
<1>6. ASSUME NEW e \in ToSet(s) \union {a} PROVE e \in ToSet(Append(s, a))
  <2> DEFINE t == Append(s, a)
  <2>1. CASE e = a BY <2>1, <1>1, <1>2, <1>4 DEF ToSet
  <2>2. CASE e \in ToSet(s)
    <3>1. PICK i \in 1..Len(s) : e = s[i] BY <2>2, <1>2 DEF ToSet
    <3>2. i \in DOMAIN t /\ t[i] = e BY <3>1, <1>1, <1>2, <1>4
    <3> QED BY <3>2 DEF ToSet
  <2> QED BY <2>1, <2>2, <1>6
<1> QED BY <1>1, <1>5, <1>6

(* A list's members, by their places; its head is one of them.              *)
LEMMA SeqFacts ==
  ASSUME NEW A, NEW s \in Seq(A)
  PROVE  /\ ToSet(s) \subseteq A
         /\ \A e : e \in ToSet(s) <=> \E i \in 1..Len(s) : s[i] = e
         /\ s # <<>> <=> ToSet(s) # {}
         /\ s # <<>> => Head(s) \in ToSet(s)
<1>1. DOMAIN s = 1..Len(s) /\ Len(s) \in Nat OBVIOUS
<1>2. \A e : e \in ToSet(s) <=> \E i \in 1..Len(s) : s[i] = e
  BY <1>1 DEF ToSet
<1>3. ToSet(s) \subseteq A BY <1>2
<1>4. s # <<>> => 1 \in 1..Len(s) /\ Head(s) = s[1] OBVIOUS
<1>5. s = <<>> => Len(s) = 0 OBVIOUS
<1> QED BY <1>2, <1>3, <1>4, <1>5

(* Those(s, S) has the members of s that are in S.                          *)
LEMMA ThoseFacts ==
  ASSUME NEW A, NEW s \in Seq(A), NEW S
  PROVE  /\ Those(s, S) \in Seq(A)
         /\ ToSet(Those(s, S)) = ToSet(s) \intersect S
<1>0. Len(s) \in Nat /\ \A i \in 1..Len(s) : s[i] \in A OBVIOUS
<1>1. PICK f : /\ f = [i \in 0..Len(s) |->
                     IF i = 0 THEN <<>>
                     ELSE IF s[i] \in S THEN Append(f[i - 1], s[i]) ELSE f[i - 1]]
               /\ Those(s, S) = f[Len(s)]
  BY <1>0, ThoseBySteps
<1>2. /\ f[0] = <<>>
      /\ \A i \in 0..Len(s) : i < Len(s) =>
           f[i + 1] = IF s[i + 1] \in S THEN Append(f[i], s[i + 1]) ELSE f[i]
  <2>1. \A i \in 0..Len(s) : f[i] = 
                     IF i = 0 THEN <<>>
                     ELSE IF s[i] \in S THEN Append(f[i - 1], s[i]) ELSE f[i - 1]
    BY <1>1
  <2> QED BY <1>0, <2>1
<1> DEFINE T == {i \in 0..Len(s) :
                   /\ f[i] \in Seq(A)
                   /\ \A e : e \in ToSet(f[i]) <=>
                        e \in S /\ \E j \in 1..i : s[j] = e}
<1>3. 0 \in T
  <2>1. f[0] \in Seq(A) /\ ToSet(f[0]) = {} BY <1>2 DEF ToSet
  <2> QED BY <2>1, <1>0
<1>4. ASSUME NEW i \in 0..Len(s), i \in T, i < Len(s) PROVE i + 1 \in T
  <2>1. s[i + 1] \in A /\ i + 1 \in 0..Len(s) BY <1>0, <1>4
  <2>2. f[i] \in Seq(A) BY <1>4
  <2>3. CASE s[i + 1] \in S
    <3>0. f[i + 1] = Append(f[i], s[i + 1]) BY <2>3, <1>2, <1>4
    <3>1. f[i + 1] \in Seq(A) /\ ToSet(f[i + 1]) = ToSet(f[i]) \union {s[i + 1]}
      BY <3>0, <2>1, <2>2, AppendFacts
    <3>2. \A e : e \in ToSet(f[i + 1]) <=> e \in S /\ \E j \in 1..(i + 1) : s[j] = e
      <4>1. \A e : (\E j \in 1..(i + 1) : s[j] = e) <=>
                     (e = s[i + 1] \/ \E j \in 1..i : s[j] = e)
        BY <1>4
      <4>2. \A e : e \in ToSet(f[i]) <=> e \in S /\ \E j \in 1..i : s[j] = e
        BY <1>4
      <4> QED BY <3>1, <4>1, <4>2, <2>3
    <3> QED BY <3>1, <3>2, <2>1
  <2>4. CASE s[i + 1] \notin S
    <3>1. f[i + 1] = f[i] BY <2>4, <1>2, <1>4
    <3>2. \A e : (\E j \in 1..(i + 1) : s[j] = e) <=>
                     (e = s[i + 1] \/ \E j \in 1..i : s[j] = e)
        BY <1>4
    <3>3. \A e : e \in ToSet(f[i]) <=> e \in S /\ \E j \in 1..i : s[j] = e
        BY <1>4
    <3>4. \A e : e \in ToSet(f[i+1]) <=> e \in S /\ \E j \in 1..(i+1) : s[j] = e
        BY <3>1, <3>2, <3>3, <2>4
    <3> QED BY <3>1, <3>4, <2>1, <2>2
  <2> QED BY <2>3, <2>4
<1> HIDE DEF T
<1>5. Len(s) \in T BY <1>0, <1>3, <1>4, Climb
<1>6. /\ f[Len(s)] \in Seq(A)
      /\ \A e : e \in ToSet(f[Len(s)]) <=> e \in S /\ e \in ToSet(s)
  BY <1>5, SeqFacts DEF T
<1> QED BY <1>6, <1>1

(* With IDs for ever, one that no workspace has is found.                   *)
LEMMA FreeIdFacts ==
  ASSUME Ids = Nat \ {0}, NEW d, d.spaces \in Seq(Spaces)
  PROVE  FreeId(d) \in Ids /\ ~ Exists(d, FreeId(d))
<1> DEFINE s == d.spaces
           free == {i \in Ids : ~ Exists(d, i)}
           T == {n \in 0..Len(s) : \E b \in Nat : \A j \in 1..n : s[j] \in Nat => s[j] <= b}
<1>0. Len(s) \in Nat OBVIOUS
<1>1. 0 \in T BY <1>0
<1>2. ASSUME NEW n \in 0..Len(s), n \in T, n < Len(s) PROVE n + 1 \in T
  <2>1. PICK b \in Nat : \A j \in 1..n : s[j] \in Nat => s[j] <= b BY <1>2
  <2>2. \A j \in 1..(n + 1) : j \in 1..n \/ j = n + 1 BY <1>2
  <2>0. n + 1 \in 0..Len(s) BY <1>0, <1>2
  <2> SUFFICES \E c \in Nat : \A j \in 1..(n + 1) : s[j] \in Nat => s[j] <= c
    BY <2>0
  <2>3. CASE s[n + 1] \in Nat
    <3>1. b + s[n + 1] \in Nat /\ \A j \in 1..(n + 1) : s[j] \in Nat => s[j] <= b + s[n + 1]
      BY <2>1, <2>2, <2>3
    <3> QED BY <3>1
  <2>4. CASE s[n + 1] \notin Nat
    <3>1. \A j \in 1..(n + 1) : s[j] \in Nat => s[j] <= b
      BY <2>1, <2>2, <2>4
    <3> QED BY <3>1
  <2> QED BY <2>3, <2>4
<1> HIDE DEF T
<1>3. Len(s) \in T BY <1>0, <1>1, <1>2, Climb
<1>4. PICK b \in Nat : \A j \in 1..Len(s) : s[j] \in Nat => s[j] <= b
  BY <1>3 DEF T
<1>5. b + 1 \in free
  <2>1. b + 1 \in Ids OBVIOUS
  <2>2. ASSUME Exists(d, b + 1) PROVE FALSE
    <3>1. PICK j \in 1..Len(s) : s[j] = b + 1 BY <2>2, SeqFacts DEF Exists
    <3> QED BY <3>1, <1>4
  <2> QED BY <2>1, <2>2
<1>6. PICK i \in free : \A m \in free : i <= m
  <2>1. free \in SUBSET Nat /\ free # {} BY <1>5
  <2> HIDE DEF free
  <2> QED BY <2>1, Least
<1>7. i \in Ids /\ ~ Exists(d, i) /\ \A j \in 1..(i - 1) : Exists(d, j)
  <2>1. ASSUME NEW j \in 1..(i - 1) PROVE Exists(d, j)
    <3>1. j \in Ids /\ ~ (i <= j) BY <2>1, <1>6
    <3> QED BY <3>1, <1>6
  <2> QED BY <2>1, <1>6
<1> QED BY <1>7 DEF FreeId

-----------------------------------------------------------------------------
(* The parts of the invariant, and the fields functions change              *)

(* Part of the inductive invariant, of what monitors show: the focused      *)
(* monitor is plugged in; every plugged-in monitor shows a normal workspace *)
(* that exists and is its own, an unplugged one shows nothing; a normal     *)
(* workspace is visible exactly while shown; an open special workspace      *)
(* exists; and a workspace is on a monitor that is plugged in, or on none.  *)
Placed(d) ==
  /\ d.focus \in Plugged(d)
  /\ \A s \in Plugged(d) : /\ d.active[s] \in Ids
                           /\ Exists(d, d.active[s])
                           /\ d.home[d.active[s]] = s
  /\ \A s \in Screens \ Plugged(d) : d.active[s] = None /\ d.special[s] = None
  /\ \A w \in Ids : w \in d.visible <=> \E s \in Plugged(d) : d.active[s] = w
  /\ \A s \in Screens : d.special[s] # None => Exists(d, d.special[s])
  /\ \A w \in ToSet(d.spaces) : d.home[w] \in Plugged(d) \union {None}

(* Part of it, of windows: a mapped window's workspace exists, the window   *)
(* of a normal workspace is on the monitor of that workspace, and none is   *)
(* on an unplugged monitor.                                                 *)
Housed(d) ==
  /\ \A x \in Windows : d.at[x] # None => Exists(d, d.at[x])
  /\ \A x \in Windows : d.at[x] \in Ids => d.on[x] = d.home[d.at[x]]
  /\ \A x \in Windows : d.on[x] \in Plugged(d) \union {None}

(* What every function of the code needs and leaves, whatever its caller is *)
(* in the middle of.                                                        *)
Core(d) == d \in Desk /\ Placed(d) /\ Housed(d)

(* Part of it while a real monitor is plugged in: every workspace has a     *)
(* monitor.  In the unsafe state one may be left without.                   *)
Owned(d) == \A w \in ToSet(d.spaces) : d.home[w] # None

(* Part of it, of fullscreen windows: they are mapped,                      *)
(* m_hasFullscreenWindow is right for every workspace, and there is at most *)
(* one on each.                                                             *)
Marked(d) ==
  /\ \A x \in d.full : d.at[x] # None
  /\ \A w \in Spaces : w \in d.hasFull <=> \E x \in d.full : d.at[x] = w
  /\ \A x, y \in d.full : d.at[x] = d.at[y] => x = y

(* What most functions do: the core holds afterwards, the monitors are the  *)
(* same, and what held of workspaces' monitors and of fullscreen windows    *)
(* holds still.                                                             *)
Keeps(d, e) == /\ Core(e) /\ e.monitors = d.monitors
               /\ Owned(d) => Owned(e)
               /\ Marked(d) => Marked(e)

(* What is needed of the constants.                                         *)
LEMMA Distinct == /\ None \notin Screens /\ None \notin Spaces
                  /\ Ids \intersect Specials = {} /\ Spaces = Ids \union Specials
                  /\ 1 \in Ids /\ Asked \subseteq Ids
  BY ConstantsAssumption DEF Spaces

(* The types of a desk's fields.                                            *)
LEMMA DeskFields ==
  ASSUME NEW d \in Desk
  PROVE  /\ d.monitors \in Seq(Screens) /\ d.focus \in Screens
         /\ d.active \in [Screens -> Ids \union {None}]
         /\ d.special \in [Screens -> Specials \union {None}]
         /\ d.spaces \in Seq(Spaces)
         /\ d.home \in [Spaces -> Screens \union {None}]
         /\ d.last \in [Spaces -> Screens \union {None}]
         /\ d.visible \subseteq Spaces
         /\ d.seen \in [Screens -> Ids \union {None}]
         /\ d.at \in [Windows -> Spaces \union {None}]
         /\ d.on \in [Windows -> Screens \union {None}]
         /\ d.full \subseteq Windows /\ d.hasFull \subseteq Spaces
         /\ Plugged(d) \subseteq Screens /\ ToSet(d.spaces) \subseteq Spaces
  <1>1. /\ d.monitors \in Seq(Screens) /\ d.focus \in Screens
        /\ d.active \in [Screens -> Ids \union {None}]
        /\ d.special \in [Screens -> Specials \union {None}]
        /\ d.spaces \in Seq(Spaces)
        /\ d.home \in [Spaces -> Screens \union {None}]
        /\ d.last \in [Spaces -> Screens \union {None}]
        /\ d.visible \subseteq Spaces
        /\ d.seen \in [Screens -> Ids \union {None}]
        /\ d.at \in [Windows -> Spaces \union {None}]
        /\ d.on \in [Windows -> Screens \union {None}]
        /\ d.full \subseteq Windows /\ d.hasFull \subseteq Spaces
    BY DEF Desk
  <1> QED BY <1>1, SeqFacts DEF Plugged

(* Fullscreen windows, where nothing about them changes.                    *)
LEMMA MarkedSame ==
  ASSUME NEW d, NEW e, e.at = d.at, e.full = d.full, e.hasFull = d.hasFull
  PROVE  Marked(d) => Marked(e)
  BY DEF Marked

(* Two functions after each other.                                          *)
LEMMA KeepsOn ==
  ASSUME NEW d, NEW e, NEW f, Keeps(d, e), Keeps(e, f)
  PROVE  Keeps(d, f)
  BY DEF Keeps

(* The fields of the desk Create leaves.                                    *)
LEMMA CreateFields ==
  ASSUME NEW d \in Desk, NEW w \in Spaces, NEW s \in Screens \union {None},
         NEW e, e = Create(d, w, s)
  PROVE  /\ e \in Desk
         /\ e.monitors = d.monitors /\ e.focus = d.focus /\ e.active = d.active
         /\ e.special = d.special /\ e.last = d.last /\ e.visible = d.visible
         /\ e.seen = d.seen /\ e.at = d.at /\ e.on = d.on
         /\ e.full = d.full /\ e.hasFull = d.hasFull
         /\ ToSet(e.spaces) = ToSet(d.spaces) \union {w}
         /\ \A v \in Spaces : e.home[v] = IF v = w THEN s ELSE d.home[v]
<1>0. d.spaces \in Seq(Spaces) BY DeskFields
<1>1. Append(d.spaces, w) \in Seq(Spaces)
      /\ ToSet(Append(d.spaces, w)) = ToSet(d.spaces) \union {w}
  BY <1>0, AppendFacts
<1>2. e \in Desk BY <1>1 DEF Create, Desk
<1> QED BY <1>1, <1>2 DEF Create, Desk

(* The fields of the desk ChangeWorkspace leaves.                           *)
LEMMA ChangeWorkspaceFields ==
  ASSUME NEW d \in Desk, NEW s \in Screens, NEW w \in Ids,
         NEW e, e = ChangeWorkspace(d, s, w)
  PROVE  /\ e \in Desk
         /\ e.monitors = d.monitors /\ e.focus = d.focus
         /\ e.special = d.special /\ e.last = d.last /\ e.spaces = d.spaces
         /\ e.home = d.home
         /\ e.seen = d.seen /\ e.at = d.at /\ e.on = d.on
         /\ e.full = d.full /\ e.hasFull = d.hasFull
         /\ \A t \in Screens : e.active[t] = IF t = s THEN w ELSE d.active[t]
         /\ d.active[s] = w => e.visible = d.visible
         /\ d.active[s] # w =>
              e.visible = (d.visible \ {d.active[s]}) \union {w}
<1>1. CASE d.active[s] = w
  <2>1. e = d BY <1>1 DEF ChangeWorkspace
  <2> QED BY <2>1, <1>1, DeskFields
<1>2. CASE d.active[s] # w
  <2>1. e = [d EXCEPT !.active[s] = w,
            !.visible   = (@ \ {d.active[s]}) \union {w}]
    BY <1>2 DEF ChangeWorkspace
  <2> DEFINE ac == [d.active EXCEPT ![s] = w]
             vi == (d.visible \ {d.active[s]}) \union {w}
  <2>2. ac \in [Screens -> Ids \union {None}] /\ vi \subseteq Spaces
    BY DeskFields, Distinct
  <2>3. e = [d EXCEPT !.active = ac, !.visible = vi] BY <2>1
  <2>4. \A t \in Screens : ac[t] = IF t = s THEN w ELSE d.active[t]
    BY DeskFields
  <2>5. vi = (d.visible \ {d.active[s]}) \union {w} OBVIOUS
  <2> HIDE DEF ac, vi
  <2>7. e \in Desk BY <2>2, <2>3 DEF Desk
  <2> QED BY <2>3, <2>4, <2>5, <2>7, <1>2 DEF Desk
<1> QED BY <1>1, <1>2

(* The fields of the desk CloseSpecial leaves.                              *)
LEMMA CloseSpecialFields ==
  ASSUME NEW d \in Desk, NEW s \in Screens,
         NEW e, e = CloseSpecial(d, s)
  PROVE  /\ e \in Desk
         /\ e.monitors = d.monitors /\ e.focus = d.focus
         /\ e.active = d.active /\ e.last = d.last /\ e.spaces = d.spaces
         /\ e.home = d.home
         /\ e.seen = d.seen /\ e.at = d.at /\ e.on = d.on
         /\ e.full = d.full /\ e.hasFull = d.hasFull
         /\ \A t \in Screens : e.special[t] = IF t = s THEN None ELSE d.special[t]
         /\ e.visible = d.visible \ {d.special[s]}
<1>1. e = [d EXCEPT !.special[s] = None, !.visible = @ \ {d.special[s]}] BY DEF CloseSpecial
<1> DEFINE sp == [d.special EXCEPT ![s] = None]
           vi == d.visible \ {d.special[s]}
<1>2. sp \in [Screens -> Specials \union {None}] /\ vi \subseteq Spaces
  BY DeskFields
<1>3. \A t \in Screens : sp[t] = IF t = s THEN None ELSE d.special[t]
  BY DeskFields
<1>4. e = [d EXCEPT !.special = sp, !.visible = vi] BY <1>1
<1>5. vi = d.visible \ {d.special[s]} OBVIOUS
<1> HIDE DEF sp, vi
<1>6. e \in Desk BY <1>2, <1>4 DEF Desk
<1> QED BY <1>3, <1>4, <1>5, <1>6 DEF Desk

(* The fields of the desk OpenSpecial leaves.                               *)
LEMMA OpenSpecialFields ==
  ASSUME NEW d \in Desk, NEW s \in Screens, NEW w \in Specials, d.special[s] # w,
         NEW e, e = OpenSpecial(d, s, w)
  PROVE  /\ e \in Desk
         /\ e.monitors = d.monitors /\ e.focus = d.focus
         /\ e.active = d.active /\ e.last = d.last /\ e.spaces = d.spaces
         /\ e.seen = d.seen /\ e.at = d.at
         /\ e.full = d.full /\ e.hasFull = d.hasFull
         /\ \A t \in Screens : e.special[t] \in {w, None, d.special[t]}
         /\ \A t \in Screens : e.special[t] = w => t = s \/ d.special[t] = w
         /\ e.visible = (d.visible \ {d.special[s]}) \union {w}
         /\ \A v \in Spaces : e.home[v] = IF v = w THEN s ELSE d.home[v]
         /\ \A x \in Windows : e.on[x] = IF d.at[x] = w THEN s ELSE d.on[x]
<1>1. e = [d EXCEPT !.special = [t \in Screens |->
                           CASE t = s -> w
                             [] t # s /\ t = d.home[w] /\ d.special[t] = w -> None
                             [] OTHER -> d.special[t]],
            !.visible = (@ \ {d.special[s]}) \union {w},
            !.home[w] = s,
            !.on      = [x \in Windows |-> IF d.at[x] = w THEN s ELSE d.on[x]]]
  BY DEF OpenSpecial
<1> DEFINE sp == [t \in Screens |->
                           CASE t = s -> w
                             [] t # s /\ t = d.home[w] /\ d.special[t] = w -> None
                             [] OTHER -> d.special[t]]
           on == [x \in Windows |-> IF d.at[x] = w THEN s ELSE d.on[x]]
<1>2. /\ \A t \in Screens : sp[t] \in {w, None, d.special[t]}
      /\ \A t \in Screens : sp[t] = w => t = s \/ d.special[t] = w
  BY Distinct
<1>3. sp \in [Screens -> Specials \union {None}] BY DeskFields
<1>4. on \in [Windows -> Screens \union {None}] BY DeskFields
<1>5. \A x \in Windows : on[x] = IF d.at[x] = w THEN s ELSE d.on[x] OBVIOUS
<1> DEFINE vi == (d.visible \ {d.special[s]}) \union {w}
           ho == [d.home EXCEPT ![w] = s]
<1>6. e = [d EXCEPT !.special = sp, !.visible = vi, !.home = ho, !.on = on] BY <1>1
<1>7. /\ ho \in [Spaces -> Screens \union {None}] /\ vi \subseteq Spaces
      /\ \A v \in Spaces : ho[v] = IF v = w THEN s ELSE d.home[v]
  BY DeskFields, Distinct
<1>8. vi = (d.visible \ {d.special[s]}) \union {w} OBVIOUS
<1> HIDE DEF sp, on, vi, ho
<1>9. e \in Desk BY <1>3, <1>4, <1>6, <1>7 DEF Desk
<1> QED BY <1>2, <1>5, <1>6, <1>7, <1>8, <1>9 DEF Desk

(* The fields of the desk Reap leaves.                                      *)
LEMMA ReapFields ==
  ASSUME NEW d \in Desk, NEW e, e = Reap(d)
  PROVE  /\ e \in Desk
         /\ e.monitors = d.monitors /\ e.focus = d.focus /\ e.active = d.active
         /\ e.special = d.special /\ e.seen = d.seen /\ e.at = d.at /\ e.on = d.on
         /\ e.full = d.full
         /\ \A w : w \in ToSet(e.spaces) <=> w \in ToSet(d.spaces) /\ Alive(d, w)
         /\ \A w \in Spaces : e.home[w] = IF Alive(d, w) THEN d.home[w] ELSE None
         /\ \A w \in Spaces : e.last[w] = IF Alive(d, w) THEN d.last[w] ELSE None
         /\ \A w : w \in e.visible <=> w \in d.visible /\ Alive(d, w)
         /\ \A w : w \in e.hasFull <=> w \in d.hasFull /\ Alive(d, w)
<1> DEFINE S == {w \in Spaces : Alive(d, w)}
           sp == Those(d.spaces, S)
<1>1. sp \in Seq(Spaces) /\ ToSet(sp) = ToSet(d.spaces) \intersect S
  BY DeskFields, ThoseFacts
<1>2. \A w : w \in ToSet(sp) <=> w \in ToSet(d.spaces) /\ Alive(d, w)
  BY <1>1, DeskFields
<1> DEFINE ho == [w \in Spaces |-> IF Alive(d, w) THEN d.home[w] ELSE None]
           la == [w \in Spaces |-> IF Alive(d, w) THEN d.last[w] ELSE None]
           vi == {w \in d.visible : Alive(d, w)}
           fu == {w \in d.hasFull : Alive(d, w)}
<1>3. e = [d EXCEPT !.spaces = sp, !.home = ho, !.last = la, !.visible = vi,
                    !.hasFull = fu]
  BY DEF Reap
<1>4. /\ ho \in [Spaces -> Screens \union {None}]
      /\ la \in [Spaces -> Screens \union {None}]
      /\ vi \subseteq Spaces /\ fu \subseteq Spaces
      /\ \A w \in Spaces : ho[w] = IF Alive(d, w) THEN d.home[w] ELSE None
      /\ \A w \in Spaces : la[w] = IF Alive(d, w) THEN d.last[w] ELSE None
      /\ \A w : w \in vi <=> w \in d.visible /\ Alive(d, w)
      /\ \A w : w \in fu <=> w \in d.hasFull /\ Alive(d, w)
  BY DeskFields
<1> HIDE DEF sp, ho, la, vi, fu
<1>5. e \in Desk BY <1>1, <1>3, <1>4 DEF Desk
<1> QED BY <1>2, <1>3, <1>4, <1>5 DEF Desk

-----------------------------------------------------------------------------
(* Functions that keep them                                                 *)

(* A monitor may show any normal workspace of its own: the one it showed    *)
(* before is no longer visible, and no other monitor showed the new one.    *)
LEMMA ChangeWorkspaceKeeps ==
  ASSUME NEW d, Core(d), NEW s \in Plugged(d), NEW w \in Ids, Exists(d, w),
         d.home[w] = s, NEW e, e = ChangeWorkspace(d, s, w)
  PROVE  Keeps(d, e) /\ e.at = d.at
<1>1. d \in Desk /\ s \in Screens /\ Plugged(d) \subseteq Screens
  BY DeskFields DEF Core
<1>2. /\ e \in Desk
      /\ e.monitors = d.monitors /\ e.focus = d.focus
      /\ e.special = d.special /\ e.spaces = d.spaces
      /\ e.home = d.home /\ e.at = d.at /\ e.on = d.on
      /\ e.full = d.full /\ e.hasFull = d.hasFull
      /\ \A t \in Screens : e.active[t] = IF t = s THEN w ELSE d.active[t]
      /\ d.active[s] = w => e.visible = d.visible
      /\ d.active[s] # w =>
           e.visible = (d.visible \ {d.active[s]}) \union {w}
  BY <1>1, ChangeWorkspaceFields
<1>3. Plugged(e) = Plugged(d) /\ \A v : Exists(e, v) <=> Exists(d, v)
  BY <1>2 DEF Plugged, Exists
<1>4. Placed(d) BY DEF Core
<1>5. \A t \in Plugged(e) : /\ e.active[t] \in Ids
                            /\ Exists(e, e.active[t])
                            /\ e.home[e.active[t]] = t
  BY <1>1, <1>2, <1>3, <1>4 DEF Placed
<1>6. \A v \in Ids : v \in e.visible <=> \E t \in Plugged(e) : e.active[t] = v
  <2> TAKE v \in Ids
  <2>1. CASE d.active[s] = w
    BY <2>1, <1>1, <1>2, <1>3, <1>4 DEF Placed
  <2>2. CASE d.active[s] # w
    <3>1. v \in e.visible <=> v = w \/ (v \in d.visible /\ v # d.active[s])
      BY <2>2, <1>2
    <3>2. ASSUME v \in d.visible, v # d.active[s]
          PROVE  \E t \in Plugged(e) : e.active[t] = v
      <4>1. PICK t \in Plugged(d) : d.active[t] = v BY <3>2, <1>4 DEF Placed
      <4> QED BY <4>1, <3>2, <1>1, <1>2, <1>3
    <3>3. ASSUME NEW t \in Plugged(e), e.active[t] = v, v # w
          PROVE  v \in d.visible /\ v # d.active[s]
      BY <3>3, <1>1, <1>2, <1>3, <1>4 DEF Placed
    <3>4. e.active[s] = w /\ s \in Plugged(e) BY <1>1, <1>2, <1>3
    <3> QED BY <3>1, <3>2, <3>3, <3>4
  <2> QED BY <2>1, <2>2
<1>7. \A t \in Screens \ Plugged(e) : e.active[t] = None /\ e.special[t] = None
  BY <1>1, <1>2, <1>3, <1>4 DEF Placed
<1>8. Placed(e) BY <1>2, <1>3, <1>4, <1>5, <1>6, <1>7 DEF Placed
<1>9. Housed(e) BY <1>2, <1>3 DEF Core, Housed
<1> QED BY <1>2, <1>8, <1>9, MarkedSame DEF Keeps, Core, Owned

(* A special workspace may be closed anywhere.                              *)
LEMMA CloseSpecialKeeps ==
  ASSUME NEW d, Core(d), NEW s \in Screens, NEW e, e = CloseSpecial(d, s)
  PROVE  Keeps(d, e) /\ e.at = d.at
<1>1. d \in Desk /\ Plugged(d) \subseteq Screens /\ d.special[s] \notin Ids
  BY DeskFields, Distinct DEF Core
<1>2. /\ e \in Desk
      /\ e.monitors = d.monitors /\ e.focus = d.focus
      /\ e.active = d.active /\ e.spaces = d.spaces
      /\ e.home = d.home /\ e.at = d.at /\ e.on = d.on
      /\ e.full = d.full /\ e.hasFull = d.hasFull
      /\ \A t \in Screens : e.special[t] = IF t = s THEN None ELSE d.special[t]
      /\ e.visible = d.visible \ {d.special[s]}
  BY <1>1, CloseSpecialFields
<1>3. Plugged(e) = Plugged(d) /\ \A v : Exists(e, v) <=> Exists(d, v)
  BY <1>2 DEF Plugged, Exists
<1>4. Placed(d) BY DEF Core
<1>5. \A v \in Ids : v \in e.visible <=> v \in d.visible
  BY <1>1, <1>2
<1>6. Placed(e) BY <1>1, <1>2, <1>3, <1>4, <1>5 DEF Placed
<1>9. Housed(e) BY <1>2, <1>3 DEF Core, Housed
<1> QED BY <1>2, <1>6, <1>9, MarkedSame DEF Keeps, Core, Owned

(* A special workspace that exists may be opened on any monitor.            *)
LEMMA OpenSpecialKeeps ==
  ASSUME NEW d, Core(d), NEW s \in Plugged(d), NEW w \in Specials, Exists(d, w),
         NEW e, e = OpenSpecial(d, s, w)
  PROVE  Keeps(d, e) /\ e.at = d.at
<1>1. /\ d \in Desk /\ Plugged(d) \subseteq Screens /\ s \in Screens
      /\ d.special[s] \notin Ids /\ w \notin Ids /\ w # None
      /\ ToSet(d.spaces) \subseteq Spaces /\ Ids \subseteq Spaces
  BY DeskFields, Distinct DEF Core
<1>2. CASE d.special[s] = w
  <2>1. e = d BY <1>2 DEF OpenSpecial
  <2> QED BY <2>1 DEF Keeps
<1>3. CASE d.special[s] # w
  <2>2. /\ e \in Desk
        /\ e.monitors = d.monitors /\ e.focus = d.focus
        /\ e.active = d.active /\ e.spaces = d.spaces
        /\ e.at = d.at
        /\ e.full = d.full /\ e.hasFull = d.hasFull
        /\ \A t \in Screens : e.special[t] \in {w, None, d.special[t]}
        /\ \A t \in Screens : e.special[t] = w => t = s \/ d.special[t] = w
        /\ e.visible = (d.visible \ {d.special[s]}) \union {w}
        /\ \A v \in Spaces : e.home[v] = IF v = w THEN s ELSE d.home[v]
        /\ \A x \in Windows : e.on[x] = IF d.at[x] = w THEN s ELSE d.on[x]
    BY <1>1, <1>3, OpenSpecialFields
  <2>3. Plugged(e) = Plugged(d) /\ \A v : Exists(e, v) <=> Exists(d, v)
    BY <2>2 DEF Plugged, Exists
  <2>4. Placed(d) /\ Housed(d) BY DEF Core
  <2>5. \A v \in Ids : v \in e.visible <=> v \in d.visible
    BY <1>1, <2>2
  <2>6. \A t \in Screens : e.special[t] # None => Exists(e, e.special[t])
    BY <1>1, <2>2, <2>3, <2>4 DEF Placed
  <2>7. \A t \in Screens \ Plugged(e) : e.active[t] = None /\ e.special[t] = None
    BY <1>1, <2>2, <2>3, <2>4 DEF Placed
  <2>8. \A v \in ToSet(e.spaces) : e.home[v] \in Plugged(e) \union {None}
    BY <1>1, <2>2, <2>3, <2>4 DEF Placed
  <2>9. \A t \in Plugged(e) : /\ e.active[t] \in Ids
                              /\ Exists(e, e.active[t])
                              /\ e.home[e.active[t]] = t
    BY <1>1, <2>2, <2>3, <2>4 DEF Placed
  <2>10. Placed(e) BY <1>1, <2>2, <2>3, <2>4, <2>5, <2>6, <2>7, <2>8, <2>9 DEF Placed
  <2>11. Housed(e) 
    <3>1. \A x \in Windows : e.at[x] \in Ids => e.on[x] = e.home[e.at[x]]
      BY <1>1, <2>2, <2>3, <2>4 DEF Housed
    <3> QED BY <1>1, <2>2, <2>3, <2>4, <3>1 DEF Housed
  <2>12. Owned(d) => Owned(e)
    BY <1>1, <2>2, Distinct DEF Owned
  <2> QED BY <2>2, <2>10, <2>11, <2>12, MarkedSame DEF Keeps, Core
<1> QED BY <1>2, <1>3

(* What is reaped is shown nowhere and has no window.                       *)
LEMMA ReapKeeps ==
  ASSUME NEW d, Core(d), NEW e, e = Reap(d)
  PROVE  Keeps(d, e)
<1>1. d \in Desk /\ Plugged(d) \subseteq Screens /\ ToSet(d.spaces) \subseteq Spaces
      /\ Ids \subseteq Spaces /\ Specials \subseteq Spaces
      /\ d.at \in [Windows -> Spaces \union {None}]
      /\ d.special \in [Screens -> Specials \union {None}]
  BY DeskFields, Distinct DEF Core
<1>2. /\ e \in Desk
      /\ e.monitors = d.monitors /\ e.focus = d.focus /\ e.active = d.active
      /\ e.special = d.special /\ e.at = d.at /\ e.on = d.on
      /\ e.full = d.full
      /\ \A w : w \in ToSet(e.spaces) <=> w \in ToSet(d.spaces) /\ Alive(d, w)
      /\ \A w \in Spaces : e.home[w] = IF Alive(d, w) THEN d.home[w] ELSE None
      /\ \A w : w \in e.visible <=> w \in d.visible /\ Alive(d, w)
      /\ \A w : w \in e.hasFull <=> w \in d.hasFull /\ Alive(d, w)
  BY <1>1, ReapFields
<1>3. /\ Plugged(e) = Plugged(d)
      /\ \A v : Exists(e, v) <=> Exists(d, v) /\ Alive(d, v)
      /\ ToSet(e.spaces) \subseteq ToSet(d.spaces)
  BY <1>2 DEF Plugged, Exists
<1>4. /\ \A s \in Screens : Alive(d, d.active[s]) /\ Alive(d, d.special[s])
      /\ \A x \in Windows : Alive(d, d.at[x])
  BY DEF Alive, On
<1>5. Placed(d) /\ Housed(d) BY DEF Core
<1>6. \A s \in Plugged(e) : /\ e.active[s] \in Ids
                            /\ Exists(e, e.active[s])
                            /\ e.home[e.active[s]] = s
  BY <1>1, <1>2, <1>3, <1>4, <1>5 DEF Placed
<1>7. \A w \in Ids : w \in e.visible <=> \E s \in Plugged(e) : e.active[s] = w
  BY <1>1, <1>2, <1>3, <1>4, <1>5 DEF Placed
<1>8. \A s \in Screens : e.special[s] # None => Exists(e, e.special[s])
  BY <1>2, <1>3, <1>4, <1>5 DEF Placed
<1>9. \A w \in ToSet(e.spaces) : e.home[w] = d.home[w]
  BY <1>1, <1>2
<1>10. Placed(e)
  <2>1. \A w \in ToSet(e.spaces) : e.home[w] \in Plugged(e) \union {None}
    BY <1>3, <1>5, <1>9 DEF Placed
  <2> QED BY <1>2, <1>3, <1>5, <1>6, <1>7, <1>8, <2>1 DEF Placed
<1>11. Housed(e) BY <1>1, <1>2, <1>3, <1>4, <1>5 DEF Housed
<1>12. Owned(d) => Owned(e) BY <1>3, <1>9 DEF Owned
<1>13. Marked(d) => Marked(e)
  <2> SUFFICES ASSUME Marked(d) PROVE Marked(e) OBVIOUS
  <2>1. d.full \subseteq Windows BY <1>1, DeskFields
  <2>2. \A w \in Spaces : w \in e.hasFull <=> \E x \in e.full : e.at[x] = w
    BY <1>2, <1>4, <2>1 DEF Marked
  <2> QED BY <1>2, <2>2 DEF Marked
<1> QED BY <1>2, <1>10, <1>11, <1>12, <1>13 DEF Keeps, Core

-----------------------------------------------------------------------------
(* Workspaces move                                                          *)

(* The workspaces of W are on s now, and others are where they were;        *)
(* windows are on the same workspaces; workspaces that are new are normal   *)
(* ones.                                                                    *)
Moved(d, e, W, s) ==
  /\ e.at = d.at /\ e.seen = d.seen /\ e.last = d.last
  /\ \A v : Exists(d, v) => /\ Exists(e, v)
                            /\ e.home[v] = IF v \in W THEN s ELSE d.home[v]
  /\ \A v : Exists(e, v) => Exists(d, v) \/ v \in Ids

(* One workspace more.                                                      *)
LEMMA MovedOn ==
  ASSUME NEW d, NEW e, NEW f, NEW W, NEW w, NEW s,
         Moved(d, e, W, s), Moved(e, f, {w}, s)
  PROVE  Moved(d, f, W \union {w}, s)
  BY DEF Moved

(* The focus may go to any monitor that is plugged in.                      *)
LEMMA FocusKeeps ==
  ASSUME NEW d, Core(d), NEW s \in Plugged(d), NEW e, e = [d EXCEPT !.focus = s]
  PROVE  /\ Keeps(d, e) /\ e.focus = s
         /\ e.active = d.active /\ e.special = d.special /\ e.last = d.last
         /\ e.spaces = d.spaces /\ e.home = d.home /\ e.seen = d.seen
         /\ e.at = d.at /\ e.on = d.on /\ e.full = d.full
         /\ e.hasFull = d.hasFull /\ e.visible = d.visible
<1>1. d \in Desk /\ s \in Screens BY DeskFields DEF Core
<1>2. /\ e \in Desk /\ e.focus = s /\ e.monitors = d.monitors
      /\ e.active = d.active /\ e.special = d.special /\ e.last = d.last
      /\ e.spaces = d.spaces /\ e.home = d.home /\ e.seen = d.seen
      /\ e.at = d.at /\ e.on = d.on /\ e.full = d.full
      /\ e.hasFull = d.hasFull /\ e.visible = d.visible
  BY <1>1 DEF Desk
<1>3. Plugged(e) = Plugged(d) /\ \A v : Exists(e, v) <=> Exists(d, v)
  BY <1>2 DEF Plugged, Exists
<1>4. Placed(e) /\ Housed(e)
  BY <1>2, <1>3 DEF Core, Placed, Housed
<1> QED BY <1>2, <1>4, MarkedSame DEF Keeps, Core, Owned

(* A new workspace on a monitor that is plugged in.                         *)
LEMMA CreateKeeps ==
  ASSUME NEW d, Core(d), NEW w \in Spaces, ~ Exists(d, w), NEW s \in Plugged(d),
         NEW e, e = Create(d, w, s)
  PROVE  Keeps(d, e)
<1>1. d \in Desk /\ s \in Screens /\ s # None /\ ToSet(d.spaces) \subseteq Spaces
  BY DeskFields, Distinct DEF Core
<1>2. /\ e \in Desk
      /\ e.monitors = d.monitors /\ e.focus = d.focus /\ e.active = d.active
      /\ e.special = d.special /\ e.visible = d.visible
      /\ e.at = d.at /\ e.on = d.on
      /\ e.full = d.full /\ e.hasFull = d.hasFull
      /\ ToSet(e.spaces) = ToSet(d.spaces) \union {w}
      /\ \A v \in Spaces : e.home[v] = IF v = w THEN s ELSE d.home[v]
  BY <1>1, CreateFields
<1>3. /\ Plugged(e) = Plugged(d)
      /\ \A v : Exists(e, v) <=> Exists(d, v) \/ v = w
      /\ \A v : Exists(d, v) => e.home[v] = d.home[v]
  BY <1>1, <1>2 DEF Plugged, Exists
<1>4. Placed(d) /\ Housed(d) BY DEF Core
<1>5. \A v \in ToSet(e.spaces) : e.home[v] \in Plugged(e) \union {None}
  BY <1>1, <1>2, <1>3, <1>4 DEF Placed, Exists
<1>6. \A t \in Plugged(e) : /\ e.active[t] \in Ids
                            /\ Exists(e, e.active[t])
                            /\ e.home[e.active[t]] = t
  BY <1>1, <1>2, <1>3, <1>4 DEF Placed
<1>7. \A t \in Screens : e.special[t] # None => Exists(e, e.special[t])
  BY <1>2, <1>3, <1>4 DEF Placed
<1>8. Placed(e) BY <1>2, <1>3, <1>4, <1>5, <1>6, <1>7 DEF Placed
<1>9. Housed(e)
  <2>1. ASSUME NEW x \in Windows, e.at[x] \in Ids PROVE e.on[x] = e.home[e.at[x]]
    <3>1. Exists(d, d.at[x]) BY <2>1, <1>2, <1>4, Distinct DEF Housed
    <3> QED BY <3>1, <2>1, <1>2, <1>3, <1>4 DEF Housed
  <2> QED BY <1>2, <1>3, <1>4, <2>1 DEF Housed
<1>10. Owned(d) => Owned(e)
  BY <1>1, <1>2, <1>3 DEF Owned, Exists
<1> QED BY <1>2, <1>8, <1>9, <1>10, MarkedSame DEF Keeps, Core

(* A workspace that is created if it does not exist.                        *)
LEMMA CreatedKeeps ==
  ASSUME NEW d, Core(d), NEW w \in Spaces, NEW s, Exists(d, w) \/ s \in Plugged(d),
         NEW e, e = Created(d, w, s)
  PROVE  /\ Keeps(d, e) /\ Exists(e, w)
         /\ e.focus = d.focus /\ e.active = d.active /\ e.special = d.special
         /\ e.at = d.at /\ e.on = d.on /\ e.full = d.full
         /\ \A v : Exists(d, v) => Exists(e, v) /\ e.home[v] = d.home[v]
<1>1. CASE Exists(d, w)
  <2>1. e = d BY <1>1 DEF Created
  <2> QED BY <2>1, <1>1 DEF Keeps
<1>2. CASE ~ Exists(d, w)
  <2>1. s \in Plugged(d) /\ e = Create(d, w, s) BY <1>2 DEF Created
  <2>2. d \in Desk /\ s \in Screens /\ ToSet(d.spaces) \subseteq Spaces
    BY <2>1, DeskFields DEF Core
  <2>3. Keeps(d, e) BY <1>2, <2>1, CreateKeeps
  <2>4. /\ e.focus = d.focus /\ e.active = d.active /\ e.special = d.special
        /\ e.at = d.at /\ e.on = d.on /\ e.full = d.full
        /\ ToSet(e.spaces) = ToSet(d.spaces) \union {w}
        /\ \A v \in Spaces : e.home[v] = IF v = w THEN s ELSE d.home[v]
    BY <2>1, <2>2, CreateFields
  <2> QED BY <1>2, <2>2, <2>3, <2>4 DEF Exists
<1> QED BY <1>1, <1>2

(* Focusing a mapped window: its workspace exists, and if it is a normal    *)
(* one it is its monitor's, so that it may be shown there.                  *)
LEMMA FocusOnKeeps ==
  ASSUME NEW d, Core(d), NEW x \in Windows, d.at[x] # None,
         NEW e, e = FocusOn(d, x)
  PROVE  Keeps(d, e) /\ e.at = d.at
<1> DEFINE w == d.at[x]
           s == d.on[x]
<1>1. /\ d \in Desk /\ Plugged(d) \subseteq Screens /\ w \in Spaces
      /\ s \in Plugged(d) \union {None} /\ Exists(d, w) /\ d.focus \in Plugged(d)
      /\ w \in Ids => s = d.home[w]
  BY DeskFields DEF Core, Housed, Placed
<1>2. CASE w \notin d.visible /\ w \in Specials
  <2>1. e = OpenSpecial(d, d.focus, w) BY <1>2 DEF FocusOn
  <2> QED BY <1>1, <1>2, <2>1, OpenSpecialKeeps
<1>3. CASE ~ (w \notin d.visible /\ w \in Specials) /\ s = None
  <2>1. e = d BY <1>3 DEF FocusOn
  <2> QED BY <2>1 DEF Keeps
<1>4. CASE w \notin d.visible /\ w \notin Specials /\ s # None
  <2> DEFINE c == ChangeWorkspace(d, s, w)
  <2>1. w \in Ids /\ s \in Plugged(d) /\ s \in Screens BY <1>1, <1>4, Distinct
  <2>2. Keeps(d, c) /\ c.at = d.at BY <1>1, <2>1, ChangeWorkspaceKeeps
  <2>3. e = c \/ e = CloseSpecial(c, s) BY <1>4 DEF FocusOn
  <2>4. CASE e = c BY <2>2, <2>4
  <2>5. CASE e = CloseSpecial(c, s)
    <3>1. Keeps(c, e) /\ e.at = c.at
      <4>1. Core(c) BY <2>2 DEF Keeps
      <4> HIDE DEF c
      <4> QED BY <2>1, <2>5, <4>1, CloseSpecialKeeps
    <3> QED BY <2>2, <3>1, KeepsOn
  <2> QED BY <2>3, <2>4, <2>5
<1>5. CASE w \in d.visible /\ s # None
  <2>1. s \in Screens BY <1>1, <1>5
  <2>2. e = d \/ e = CloseSpecial(d, s) BY <1>5 DEF FocusOn
  <2>3. CASE e = d BY <2>3 DEF Keeps
  <2>4. CASE e = CloseSpecial(d, s) BY <2>1, <2>4, CloseSpecialKeeps
  <2> QED BY <2>2, <2>3, <2>4
<1> QED BY <1>2, <1>3, <1>4, <1>5

(* The fields of the desk Rehome leaves.                                    *)
LEMMA RehomeFields ==
  ASSUME NEW d \in Desk, NEW w \in Spaces, NEW s \in Screens,
         NEW e, e = Rehome(d, w, s)
  PROVE  /\ e \in Desk
         /\ e.monitors = d.monitors /\ e.focus = d.focus /\ e.active = d.active
         /\ e.special = d.special /\ e.visible = d.visible /\ e.spaces = d.spaces
         /\ e.at = d.at /\ e.full = d.full /\ e.hasFull = d.hasFull
         /\ e.seen = d.seen /\ e.last = d.last
         /\ \A v \in Spaces : e.home[v] = IF v = w THEN s ELSE d.home[v]
         /\ \A x \in Windows : e.on[x] = IF d.at[x] = w THEN s ELSE d.on[x]
<1> DEFINE ho == [d.home EXCEPT ![w] = s]
           on == [x \in Windows |-> IF d.at[x] = w THEN s ELSE d.on[x]]
<1>1. /\ ho \in [Spaces -> Screens \union {None}]
      /\ on \in [Windows -> Screens \union {None}]
      /\ \A v \in Spaces : ho[v] = IF v = w THEN s ELSE d.home[v]
      /\ \A x \in Windows : on[x] = IF d.at[x] = w THEN s ELSE d.on[x]
  BY DeskFields
<1>2. e = [d EXCEPT !.home = ho, !.on = on] BY DEF Rehome
<1> HIDE DEF ho, on
<1>3. e \in Desk BY <1>1, <1>2 DEF Desk
<1> QED BY <1>1, <1>2, <1>3 DEF Desk

(* A workspace that no monitor shows goes to another monitor.               *)
LEMMA RehomeKeeps ==
  ASSUME NEW d, Core(d), NEW w, Exists(d, w), NEW s \in Plugged(d),
         \A t \in Plugged(d) : d.active[t] # w,
         NEW e, e = Rehome(d, w, s)
  PROVE  /\ Keeps(d, e) /\ Moved(d, e, {w}, s)
         /\ e.focus = d.focus /\ e.active = d.active
<1>1. /\ d \in Desk /\ Plugged(d) \subseteq Screens /\ s \in Screens
      /\ ToSet(d.spaces) \subseteq Spaces /\ w \in Spaces /\ s # None
  BY DeskFields, Distinct DEF Core, Exists
<1>2. /\ e \in Desk
      /\ e.monitors = d.monitors /\ e.focus = d.focus /\ e.active = d.active
      /\ e.special = d.special /\ e.visible = d.visible /\ e.spaces = d.spaces
      /\ e.at = d.at /\ e.full = d.full /\ e.hasFull = d.hasFull
      /\ e.seen = d.seen /\ e.last = d.last
      /\ \A v \in Spaces : e.home[v] = IF v = w THEN s ELSE d.home[v]
      /\ \A x \in Windows : e.on[x] = IF d.at[x] = w THEN s ELSE d.on[x]
  BY <1>1, RehomeFields
<1>3. /\ Plugged(e) = Plugged(d)
      /\ \A v : Exists(e, v) <=> Exists(d, v)
      /\ \A v : Exists(d, v) => e.home[v] = IF v = w THEN s ELSE d.home[v]
  BY <1>1, <1>2 DEF Plugged, Exists
<1>4. Placed(d) /\ Housed(d) BY DEF Core
<1>5. Placed(e)
  <2>1. \A t \in Plugged(e) : /\ e.active[t] \in Ids
                              /\ Exists(e, e.active[t])
                              /\ e.home[e.active[t]] = t
    BY <1>2, <1>3, <1>4 DEF Placed
  <2>2. \A v \in ToSet(e.spaces) : e.home[v] \in Plugged(e) \union {None}
    BY <1>2, <1>3, <1>4 DEF Placed, Exists
  <2> QED BY <1>2, <1>3, <1>4, <2>1, <2>2 DEF Placed
<1>6. Housed(e)
  <2>1. ASSUME NEW x \in Windows, e.at[x] \in Ids PROVE e.on[x] = e.home[e.at[x]]
    <3>1. Exists(d, d.at[x]) BY <2>1, <1>2, <1>4, Distinct DEF Housed
    <3> QED BY <3>1, <2>1, <1>2, <1>3, <1>4 DEF Housed
  <2> QED BY <1>2, <1>3, <1>4, <2>1 DEF Housed
<1>7. Owned(d) => Owned(e) BY <1>1, <1>2, <1>3 DEF Owned, Exists
<1>8. Moved(d, e, {w}, s) BY <1>2, <1>3 DEF Moved
<1> QED BY <1>2, <1>5, <1>6, <1>7, <1>8, MarkedSame DEF Keeps, Core

(* Showing a workspace moves none.                                          *)
LEMMA ChangeWorkspaceMoves ==
  ASSUME NEW d, Core(d), NEW s \in Plugged(d), NEW w \in Ids, Exists(d, w),
         d.home[w] = s, NEW e, e = ChangeWorkspace(d, s, w)
  PROVE  /\ Keeps(d, e) /\ \A r : Moved(d, e, {}, r)
         /\ e.focus = d.focus /\ e.on = d.on
         /\ \A t \in Screens : e.active[t] = IF t = s THEN w ELSE d.active[t]
<1>1. d \in Desk /\ s \in Screens BY DeskFields DEF Core
<1>2. /\ e.focus = d.focus /\ e.last = d.last /\ e.spaces = d.spaces
      /\ e.home = d.home /\ e.seen = d.seen /\ e.at = d.at /\ e.on = d.on
      /\ \A t \in Screens : e.active[t] = IF t = s THEN w ELSE d.active[t]
  BY <1>1, ChangeWorkspaceFields
<1>3. Keeps(d, e) BY ChangeWorkspaceKeeps
<1> QED BY <1>2, <1>3 DEF Moved, Exists

(* Making a workspace that fills a gap moves none.                          *)
LEMMA CreateMoves ==
  ASSUME Ids = Nat \ {0}, NEW d, Core(d), NEW s \in Plugged(d),
         NEW n, n = FreeId(d), NEW e, e = Create(d, n, s)
  PROVE  /\ Keeps(d, e) /\ \A r : Moved(d, e, {}, r)
         /\ e.focus = d.focus /\ e.active = d.active
         /\ n \in Ids /\ ~ Exists(d, n) /\ Exists(e, n) /\ e.home[n] = s
<1>1. d \in Desk /\ s \in Screens /\ d.spaces \in Seq(Spaces) /\ ToSet(d.spaces) \subseteq Spaces
  BY DeskFields DEF Core
<1>2. n \in Ids /\ n \in Spaces /\ ~ Exists(d, n) BY <1>1, FreeIdFacts, Distinct
<1>3. /\ e.focus = d.focus /\ e.active = d.active /\ e.last = d.last
      /\ e.seen = d.seen /\ e.at = d.at
      /\ ToSet(e.spaces) = ToSet(d.spaces) \union {n}
      /\ \A v \in Spaces : e.home[v] = IF v = n THEN s ELSE d.home[v]
  BY <1>1, <1>2, CreateFields
<1>4. Keeps(d, e) BY <1>2, CreateKeeps
<1>5. \A r : Moved(d, e, {}, r) BY <1>1, <1>2, <1>3 DEF Moved, Exists
<1> QED BY <1>2, <1>3, <1>4, <1>5 DEF Exists

(* A function that moves none, before or after one that does.               *)
LEMMA MovedNone ==
  ASSUME NEW d, NEW e, NEW f, NEW W, NEW s
  PROVE  /\ Moved(d, e, {}, s) /\ Moved(e, f, W, s) => Moved(d, f, W, s)
         /\ Moved(d, e, W, s) /\ Moved(e, f, {}, s) => Moved(d, f, W, s)
  BY DEF Moved

(* What fills the gap is another workspace, so that nothing shows w.        *)
LEMMA PlugGapKeeps ==
  ASSUME Ids = Nat \ {0}, NEW d, Core(d), NEW s \in Plugged(d), NEW w, d.active[s] = w,
         NEW e, e = PlugGap(d, w, s)
  PROVE  /\ Keeps(d, e) /\ \A r : Moved(d, e, {}, r) /\ e.focus = d.focus
         /\ \A t \in Plugged(d) : e.active[t] # w
<1>1. /\ d \in Desk /\ s \in Screens /\ d.spaces \in Seq(Spaces)
      /\ Plugged(d) \subseteq Screens /\ ToSet(d.spaces) \subseteq Spaces
  BY DeskFields DEF Core
<1>2. /\ w \in Ids /\ Exists(d, w) /\ d.home[w] = s
      /\ \A t \in Plugged(d) : t # s => d.active[t] # w
  BY DEF Core, Placed
<1> DEFINE S == {v \in Ids : d.home[v] = s /\ v # w}
           o == Others(d, w, s)
<1>3. o \in Seq(Spaces) /\ ToSet(o) = ToSet(d.spaces) \intersect S
  BY <1>1, ThoseFacts DEF Others
<1>4. CASE o # <<>>
  <2> DEFINE h == Head(o)
  <2>1. h \in ToSet(o) BY <1>3, <1>4, SeqFacts
  <2>2. h \in Ids /\ d.home[h] = s /\ h # w /\ Exists(d, h)
    BY <1>3, <2>1 DEF Exists
  <2>3. e = ChangeWorkspace(d, s, h) BY <1>4 DEF PlugGap
  <2> HIDE DEF h, o
  <2>4. /\ Keeps(d, e) /\ \A r : Moved(d, e, {}, r)
        /\ e.focus = d.focus /\ e.on = d.on
        /\ \A t \in Screens : e.active[t] = IF t = s THEN h ELSE d.active[t]
    BY <2>2, <2>3, ChangeWorkspaceMoves
  <2> QED BY <1>1, <1>2, <2>2, <2>4
<1>5. CASE o = <<>>
  <2> DEFINE n == FreeId(d)
             c == Create(d, n, s)
  <2>1. e = ChangeWorkspace(c, s, n) BY <1>5 DEF PlugGap
  <2>2. /\ Keeps(d, c) /\ \A r : Moved(d, c, {}, r)
        /\ c.focus = d.focus /\ c.active = d.active
        /\ n \in Ids /\ ~ Exists(d, n) /\ Exists(c, n) /\ c.home[n] = s
    BY CreateMoves
  <2> HIDE DEF n, c
  <2>3. Core(c) /\ s \in Plugged(c) BY <2>2 DEF Keeps, Plugged
  <2>4. /\ Keeps(c, e) /\ \A r : Moved(c, e, {}, r)
        /\ e.focus = c.focus
        /\ \A t \in Screens : e.active[t] = IF t = s THEN n ELSE c.active[t]
    BY <2>1, <2>2, <2>3, ChangeWorkspaceMoves
  <2>5. Keeps(d, e) BY <2>2, <2>4, KeepsOn
  <2>6. \A r : Moved(d, e, {}, r) BY <2>2, <2>4, MovedNone
  <2> QED BY <1>1, <1>2, <2>2, <2>4, <2>5, <2>6
<1> QED BY <1>4, <1>5

(* moveWorkspaceToMonitor, of any workspace to any monitor: the gap it      *)
(* leaves is filled before it goes, so that it is shown once or not at all. *)
LEMMA MoveWorkspaceKeeps ==
  ASSUME Ids = Nat \ {0}, NEW d, Core(d), NEW w, Exists(d, w), NEW s \in Plugged(d),
         NEW e, e = MoveWorkspace(d, w, s)
  PROVE  Keeps(d, e) /\ Moved(d, e, {w}, s)
<1>1. CASE d.home[w] = s
  <2>1. e = d BY <1>1 DEF MoveWorkspace
  <2> QED BY <1>1, <2>1 DEF Keeps, Moved
<1>2. CASE d.home[w] # s
  <2> DEFINE old   == d.home[w]
             shown == old # None /\ d.active[old] = w
             gap   == IF shown THEN PlugGap(d, w, old) ELSE d
             moved == Rehome(gap, w, s)
  <2>1. e = IF shown /\ old = d.focus
            THEN [ChangeWorkspace(moved, s, w) EXCEPT !.focus = s]
            ELSE moved
    BY <1>2 DEF MoveWorkspace
  <2>2. /\ old \in Plugged(d) \union {None} /\ None \notin Plugged(d)
        /\ \A t \in Plugged(d) : d.active[t] = w => t = old
        /\ \A t \in Plugged(d) : d.active[t] \in Ids
    BY DeskFields, Distinct DEF Core, Placed, Exists
  <2>3. /\ Keeps(d, gap) /\ Moved(d, gap, {}, s) /\ gap.focus = d.focus
        /\ \A t \in Plugged(d) : gap.active[t] # w
    <3>1. CASE shown
      <4>1. gap = PlugGap(d, w, old) /\ old \in Plugged(d) /\ d.active[old] = w
        BY <3>1, <2>2
      <4> HIDE DEF gap, shown, old
      <4> QED BY <4>1, PlugGapKeeps
    <3>2. CASE ~ shown
      <4>1. gap = d BY <3>2
      <4>2. \A t \in Plugged(d) : d.active[t] # w BY <3>2, <2>2
      <4> HIDE DEF gap, shown, old
      <4> QED BY <4>1, <4>2 DEF Keeps, Moved
    <3> QED BY <3>1, <3>2
  <2>4. shown => w \in Ids BY <2>2
  <2> HIDE DEF gap, old, shown
  <2>5. Core(gap) /\ Exists(gap, w) /\ Plugged(gap) = Plugged(d)
    BY <2>3 DEF Keeps, Moved, Plugged
  <2>6. /\ Keeps(gap, moved) /\ Moved(gap, moved, {w}, s)
        /\ moved.focus = gap.focus /\ moved.active = gap.active
    BY <2>3, <2>5, RehomeKeeps
  <2>7. Keeps(d, moved) /\ Moved(d, moved, {w}, s)
    BY <2>3, <2>6, KeepsOn, MovedNone
  <2> HIDE DEF moved
  <2>8. CASE ~ (shown /\ old = d.focus)
    BY <2>1, <2>7, <2>8
  <2>9. CASE shown /\ old = d.focus
    <3> DEFINE c == ChangeWorkspace(moved, s, w)
    <3>1. e = [c EXCEPT !.focus = s] BY <2>1, <2>9
    <3>2. /\ Core(moved) /\ Exists(moved, w) /\ Plugged(moved) = Plugged(d)
          /\ moved.home[w] = s /\ w \in Ids
      BY <2>4, <2>7, <2>9 DEF Keeps, Moved, Plugged
    <3>3. Keeps(moved, c) /\ Moved(moved, c, {}, s)
      BY <3>2, ChangeWorkspaceMoves
    <3> HIDE DEF c
    <3>4. Core(c) /\ Plugged(c) = Plugged(d)
      BY <3>2, <3>3 DEF Keeps, Plugged
    <3>5. /\ Keeps(c, e)
          /\ e.last = c.last /\ e.spaces = c.spaces /\ e.home = c.home
          /\ e.seen = c.seen /\ e.at = c.at
      BY <3>1, <3>4, FocusKeeps
    <3>6. Moved(c, e, {}, s) BY <3>5 DEF Moved, Exists
    <3>7. Keeps(d, e) BY <2>7, <3>3, <3>5, KeepsOn
    <3>8. Moved(d, c, {w}, s) BY <2>7, <3>3, MovedNone
    <3>9. Moved(d, e, {w}, s) BY <3>6, <3>8, MovedNone
    <3> QED BY <3>7, <3>9
  <2> QED BY <2>8, <2>9
<1> QED BY <1>1, <1>2

(* MoveAll is the recursive function its definition writes.                 *)
LEMMA MoveAllBySteps ==
  ASSUME NEW d, NEW ws, Len(ws) \in Nat, NEW s
  PROVE  \E f : /\ f = [i \in 0..Len(ws) |->
                     IF i = 0 THEN d ELSE MoveWorkspace(f[i - 1], ws[i], s)]
                /\ MoveAll(d, ws, s) = f[Len(ws)]
<1> DEFINE G(f, n) == f = [i \in 0..n |->
                     IF i = 0 THEN d ELSE MoveWorkspace(f[i - 1], ws[i], s)]
<1>1. \E f : G(f, Len(ws))
  <2> DEFINE T == {n \in Nat : \E f : G(f, n)}
  <2>1. 0 \in T
    <3>1. G([i \in 0..0 |-> d], 0) OBVIOUS
    <3> QED BY <3>1
  <2>2. ASSUME NEW n \in Nat, n \in T PROVE n + 1 \in T
    <3>1. PICK f : G(f, n) BY <2>2
    <3> DEFINE g == [i \in 0..(n + 1) |->
                       IF i <= n THEN f[i] ELSE MoveWorkspace(f[n], ws[n + 1], s)]
    <3>2. \A i \in 0..n : f[i] = IF i = 0 THEN d ELSE MoveWorkspace(f[i - 1], ws[i], s)
      BY <3>1
    <3>3. \A i \in 0..(n + 1) :
            g[i] = IF i = 0 THEN d ELSE MoveWorkspace(g[i - 1], ws[i], s)
      <4> SUFFICES ASSUME NEW i \in 0..(n + 1)
                   PROVE  g[i] = IF i = 0 THEN d ELSE MoveWorkspace(g[i - 1], ws[i], s)
        OBVIOUS
      <4>1. CASE i = 0 BY <4>1, <3>2
      <4>2. CASE i \in 1..n BY <4>2, <3>2
      <4>3. CASE i = n + 1 BY <4>3, <3>2
      <4> QED BY <4>1, <4>2, <4>3
    <3>4. G(g, n + 1)
      <4>1. g = [i \in 0..(n + 1) |-> g[i]] OBVIOUS
      <4> HIDE DEF g
      <4> QED BY <3>3, <4>1
    <3> HIDE DEF G, g
    <3> QED BY <3>4
  <2> HIDE DEF T
  <2>3. Len(ws) \in T BY <2>1, <2>2, Climb
  <2> QED BY <2>3 DEF T
<1>2. MoveAll(d, ws, s) = (CHOOSE f : G(f, Len(ws)))[Len(ws)]
  BY DEF MoveAll
<1> HIDE DEF G
<1>3. G(CHOOSE f : G(f, Len(ws)), Len(ws)) BY <1>1
<1> QED BY <1>2, <1>3 DEF G

(* Workspaces that exist move one after the other: induction over their     *)
(* list.                                                                    *)
LEMMA MoveAllKeeps ==
  ASSUME Ids = Nat \ {0}, NEW d, Core(d), NEW ws \in Seq(Spaces),
         ToSet(ws) \subseteq ToSet(d.spaces), NEW s \in Plugged(d),
         NEW e, e = MoveAll(d, ws, s)
  PROVE  Keeps(d, e) /\ Moved(d, e, ToSet(ws), s)
<1>0. Len(ws) \in Nat OBVIOUS
<1>1. PICK f : /\ f = [i \in 0..Len(ws) |->
                     IF i = 0 THEN d ELSE MoveWorkspace(f[i - 1], ws[i], s)]
               /\ e = f[Len(ws)]
  BY <1>0, MoveAllBySteps
<1>2. /\ f[0] = d
      /\ \A i \in 0..Len(ws) : i < Len(ws) =>
           f[i + 1] = MoveWorkspace(f[i], ws[i + 1], s)
  <2>1. \A i \in 0..Len(ws) : f[i] =
                     IF i = 0 THEN d ELSE MoveWorkspace(f[i - 1], ws[i], s)
    BY <1>1
  <2> QED BY <1>0, <2>1
<1> DEFINE W(i) == {ws[j] : j \in 1..i}
           T == {i \in 0..Len(ws) : Keeps(d, f[i]) /\ Moved(d, f[i], W(i), s)}
<1>3. 0 \in T
  <2>1. W(0) = {} OBVIOUS
  <2> HIDE DEF W
  <2> QED BY <1>0, <1>2, <2>1 DEF Keeps, Moved
<1>4. ASSUME NEW i \in 0..Len(ws), i \in T, i < Len(ws) PROVE i + 1 \in T
  <2>1. i + 1 \in 0..Len(ws) /\ i + 1 \in 1..Len(ws) BY <1>0, <1>4
  <2>2. W(i + 1) = W(i) \union {ws[i + 1]} BY <2>1
  <2>3. Exists(d, ws[i + 1]) BY <2>1, SeqFacts DEF Exists
  <2> HIDE DEF W
  <2>4. Keeps(d, f[i]) /\ Moved(d, f[i], W(i), s) BY <1>4
  <2>5. Core(f[i]) /\ s \in Plugged(f[i]) /\ Exists(f[i], ws[i + 1])
    BY <2>3, <2>4 DEF Keeps, Moved, Plugged
  <2>6. f[i + 1] = MoveWorkspace(f[i], ws[i + 1], s) BY <1>2, <1>4
  <2>7. Keeps(f[i], f[i + 1]) /\ Moved(f[i], f[i + 1], {ws[i + 1]}, s)
    BY <2>5, <2>6, MoveWorkspaceKeeps
  <2>8. Keeps(d, f[i + 1]) BY <2>4, <2>7, KeepsOn
  <2>9. Moved(d, f[i + 1], W(i) \union {ws[i + 1]}, s) BY <2>4, <2>7, MovedOn
  <2>10. Moved(d, f[i + 1], W(i + 1), s) BY <2>2, <2>9
  <2> QED BY <2>1, <2>8, <2>10
<1>5. W(Len(ws)) = ToSet(ws)
  <2>1. \A v : v \in W(Len(ws)) <=> \E j \in 1..Len(ws) : ws[j] = v OBVIOUS
  <2>2. \A v : v \in ToSet(ws) <=> \E j \in 1..Len(ws) : ws[j] = v BY SeqFacts
  <2> HIDE DEF W
  <2> QED BY <2>1, <2>2
<1> HIDE DEF T, W
<1>6. Len(ws) \in T BY <1>0, <1>3, <1>4, Climb
<1> QED BY <1>1, <1>5, <1>6 DEF T

-----------------------------------------------------------------------------
(* Fullscreen windows                                                       *)

(* Nothing but the marks of fullscreen windows is different.                *)
Alike(d, e) ==
  /\ e \in Desk
  /\ e.monitors = d.monitors /\ e.focus = d.focus /\ e.active = d.active
  /\ e.special = d.special /\ e.spaces = d.spaces /\ e.home = d.home
  /\ e.last = d.last /\ e.visible = d.visible /\ e.seen = d.seen
  /\ e.at = d.at /\ e.on = d.on

(* Two functions that mark fullscreen windows after each other.             *)
LEMMA AlikeOn ==
  ASSUME NEW d, NEW e, NEW f, Alike(d, e), Alike(e, f)
  PROVE  Alike(d, f)
  BY DEF Alike

(* They keep the rest.                                                      *)
LEMMA AlikeKeeps ==
  ASSUME NEW d, Core(d), NEW e, Alike(d, e), Marked(d) => Marked(e)
  PROVE  Keeps(d, e)
<1>1. Plugged(e) = Plugged(d) /\ \A v : Exists(e, v) <=> Exists(d, v)
  BY DEF Plugged, Exists, Alike
<1>2. Placed(e) /\ Housed(e)
  BY <1>1 DEF Alike, Core, Placed, Housed
<1> QED BY <1>1, <1>2 DEF Alike, Keeps, Core, Owned

(* updateWindows recomputes the flag for the workspaces it is given.        *)
LEMMA UpdateWindowsKeeps ==
  ASSUME NEW d, Core(d), NEW ws \in SUBSET Spaces, NEW e, e = updateWindows(d, ws)
  PROVE  /\ Keeps(d, e) /\ Alike(d, e) /\ e.full = d.full
         /\ \A w : w \in e.hasFull <=>
              \/ w \in d.hasFull /\ w \notin ws
              \/ w \in ws /\ \E x \in d.full : x \in Windows /\ d.at[x] = w
<1>0. d \in Desk /\ d.full \subseteq Windows BY DeskFields DEF Core
<1> DEFINE hf == (d.hasFull \ ws) \union {w \in ws : On(d, w) \intersect d.full # {}}
<1>1. \A w : w \in hf <=> \/ w \in d.hasFull /\ w \notin ws
                          \/ w \in ws /\ \E x \in d.full : x \in Windows /\ d.at[x] = w
  BY DEF On
<1>2. hf \subseteq Spaces BY <1>0, DeskFields
<1>3. e = [d EXCEPT !.hasFull = hf] BY DEF updateWindows
<1> HIDE DEF hf
<1>4. e \in Desk BY <1>0, <1>2, <1>3 DEF Desk
<1>5. Alike(d, e) /\ e.full = d.full /\ e.hasFull = hf
  BY <1>0, <1>3, <1>4 DEF Desk, Alike
<1>6. Marked(d) => Marked(e)
  <2> SUFFICES ASSUME Marked(d) PROVE Marked(e) OBVIOUS
  <2>1. \A w \in Spaces : w \in e.hasFull <=> \E x \in e.full : e.at[x] = w
    BY <1>0, <1>1, <1>5 DEF Marked, Alike
  <2> QED BY <1>5, <2>1 DEF Marked, Alike
<1> QED BY <1>1, <1>5, <1>6, AlikeKeeps

(* setWindowFullscreenState: who enters fullscreen replaces whoever was     *)
(* there, and who is made to leave it has left it.                          *)
LEMMA SetFullscreenKeeps ==
  ASSUME NEW d, Core(d), NEW x \in Windows, NEW on \in BOOLEAN,
         NEW e, e = SetFullscreen(d, x, on)
  PROVE  /\ Keeps(d, e) /\ Alike(d, e)
         /\ Safe(d) /\ d.at[x] # None /\ ~ on /\ Marked(d) => x \notin e.full
<1>0. d \in Desk /\ d.full \subseteq Windows /\ d.hasFull \subseteq Spaces
      /\ d.at[x] \in Spaces \union {None}
  BY DeskFields DEF Core
<1> DEFINE w == d.at[x]
           other == IF w \in d.hasFull /\ x \notin d.full
                    THEN FullscreenWindow(d, w) ELSE {}
           ef == d.full \ other
           eh == IF other = {} THEN d.hasFull ELSE d.hasFull \ {w}
<1>1. CASE ~ Safe(d) \/ w = None
  <2>1. e = d BY <1>1 DEF SetFullscreen
  <2> QED BY <2>1, <1>0, <1>1 DEF Keeps, Alike
<1>2. CASE Safe(d) /\ w # None
  <2>1. /\ other \subseteq {y \in d.full : d.at[y] = w}
        /\ other # {} => x \notin d.full
        /\ Marked(d) => \A y \in d.full \ other : y # x => d.at[y] # w
        /\ w \in Spaces
    <3>1. CASE w \in d.hasFull /\ x \notin d.full
      <4> DEFINE full == On(d, w) \intersect d.full
      <4>1. other = IF full = {} THEN {} ELSE {CHOOSE y \in full : TRUE}
        BY <3>1 DEF FullscreenWindow
      <4>2. other \subseteq full /\ (full # {} => other # {})
        BY <4>1
      <4>3. \A y : y \in full <=> y \in d.full /\ d.at[y] = w BY <1>0 DEF On
      <4>4. other \subseteq {y \in d.full : d.at[y] = w} BY <4>2, <4>3
      <4> HIDE DEF full, other
      <4>5. Marked(d) => \A y \in d.full \ other : y # x => d.at[y] # w
        BY <4>2, <4>3 DEF Marked
      <4> QED BY <3>1, <4>4, <4>5, <1>0, <1>2
    <3>2. CASE ~ (w \in d.hasFull /\ x \notin d.full)
      <4>1. other = {} BY <3>2
      <4> HIDE DEF other
      <4> QED BY <4>1, <3>2, <1>0, <1>2 DEF Marked
    <3> QED BY <3>1, <3>2
  <2> DEFINE base == [d EXCEPT !.full = ef, !.hasFull = eh]
  <2>2. e = CASE on /\ x \notin d.full -> [base EXCEPT !.full = @ \union {x},
                                                 !.hasFull = @ \union {w}]
              [] ~on /\ x \in d.full   -> [base EXCEPT !.full = @ \ {x},
                                                 !.hasFull = @ \ {w}]
              [] OTHER -> base
    BY <1>2 DEF SetFullscreen
  <2>3. /\ ef \subseteq Windows /\ eh \subseteq Spaces
        /\ \A y : y \in ef <=> y \in d.full /\ y \notin other
        /\ other = {} => eh = d.hasFull
        /\ other # {} => eh = d.hasFull \ {w}
    BY <1>0
  <2> HIDE DEF other, ef, eh
  <2>4. \E nf \in SUBSET Windows, nh \in SUBSET Spaces :
          /\ e = [d EXCEPT !.full = nf, !.hasFull = nh]
          /\ Marked(d) =>
               /\ \A y \in nf : d.at[y] # None
               /\ \A v \in Spaces : v \in nh <=> \E y \in nf : d.at[y] = v
               /\ \A y, z \in nf : d.at[y] = d.at[z] => y = z
          /\ ~ on => x \notin nf
    <3>1. CASE on /\ x \notin d.full
      <4> DEFINE nf == ef \union {x}
                 nh == eh \union {w}
      <4>1. e = [base EXCEPT !.full = @ \union {x}, !.hasFull = @ \union {w}]
        BY <2>2, <3>1
      <4>2. e = [d EXCEPT !.full = nf, !.hasFull = nh]
        BY <4>1, <1>0 DEF Desk
      <4>3. Marked(d) =>
               /\ \A y \in nf : d.at[y] # None
               /\ \A v \in Spaces : v \in nh <=>
                    \E y \in nf : d.at[y] = v
               /\ \A y, z \in nf : d.at[y] = d.at[z] => y = z
        BY <1>0, <1>2, <2>1, <2>3, <3>1 DEF Marked
      <4>4. nf \in SUBSET Windows /\ nh \in SUBSET Spaces
        BY <2>1, <2>3
      <4>5. ~ on => x \notin nf BY <3>1
      <4> HIDE DEF nf, nh, base
      <4> QED BY <4>2, <4>3, <4>4, <4>5
    <3>2. CASE ~ on /\ x \in d.full
      <4> DEFINE nf == ef \ {x}
                 nh == eh \ {w}
      <4>1. e = [base EXCEPT !.full = @ \ {x}, !.hasFull = @ \ {w}]
        BY <2>2, <3>2
      <4>2. e = [d EXCEPT !.full = nf, !.hasFull = nh]
        BY <4>1, <1>0 DEF Desk
      <4>3. Marked(d) =>
               /\ \A y \in nf : d.at[y] # None
               /\ \A v \in Spaces : v \in nh <=> \E y \in nf : d.at[y] = v
               /\ \A y, z \in nf : d.at[y] = d.at[z] => y = z
        BY <1>0, <1>2, <2>1, <2>3, <3>2 DEF Marked
      <4>4. nf \in SUBSET Windows /\ nh \in SUBSET Spaces
        BY <2>1, <2>3
      <4>5. ~ on => x \notin nf BY <3>2
      <4> HIDE DEF nf, nh, base
      <4> QED BY <4>2, <4>3, <4>4, <4>5
    <3>3. CASE ~ (on /\ x \notin d.full) /\ ~ (~ on /\ x \in d.full)
      <4>1. e = base BY <2>2, <3>3
      <4>2. ~ on => x \notin ef BY <2>3, <3>3
      <4>3. Marked(d) =>
               /\ \A y \in ef : d.at[y] # None
               /\ \A v \in Spaces : v \in eh <=> \E y \in ef : d.at[y] = v
               /\ \A y, z \in ef : d.at[y] = d.at[z] => y = z
        <5>1. CASE other = {}
          <6>1. ef = d.full BY <2>3, <5>1
          <6> QED BY <6>1, <5>1, <2>3 DEF Marked
        <5>2. CASE other # {}
          BY <5>2, <1>0, <1>2, <2>1, <2>3 DEF Marked
        <5> QED BY <5>1, <5>2
      <4> QED BY <4>1, <4>2, <4>3, <2>3
    <3> QED BY <3>1, <3>2, <3>3
  <2>5. PICK nf \in SUBSET Windows, nh \in SUBSET Spaces :
          /\ e = [d EXCEPT !.full = nf, !.hasFull = nh]
          /\ Marked(d) =>
               /\ \A y \in nf : d.at[y] # None
               /\ \A v \in Spaces : v \in nh <=> \E y \in nf : d.at[y] = v
               /\ \A y, z \in nf : d.at[y] = d.at[z] => y = z
          /\ ~ on => x \notin nf
    BY <2>4
  <2>6. e \in Desk BY <2>5, <1>0 DEF Desk
  <2>7. Alike(d, e) /\ e.full = nf /\ e.hasFull = nh
    BY <2>5, <2>6, <1>0 DEF Desk, Alike
  <2>8. Marked(d) => Marked(e) BY <2>5, <2>7 DEF Marked, Alike
  <2> QED BY <2>5, <2>7, <2>8, AlikeKeeps
<1> QED BY <1>1, <1>2

(* A window that is focused under a fullscreen one.                         *)
LEMMA ContendsKeeps ==
  ASSUME NEW d, Core(d), NEW x \in Windows, NEW e \in Contends(d, x)
  PROVE  Keeps(d, e) /\ Alike(d, e)
<1>1. e = d \/ \E on \in BOOLEAN : e = SetFullscreen(d, x, on) BY DEF Contends
<1>2. d \in Desk BY DEF Core
<1> QED BY <1>1, <1>2, SetFullscreenKeeps DEF Keeps, Alike

(* Any window that is seen is focused.                                      *)
LEMMA FocusedKeeps ==
  ASSUME NEW d, Core(d), NEW e \in Focused(d)
  PROVE  Keeps(d, e) /\ Alike(d, e)
<1>1. e = d \/ \E x \in Windows : e \in Contends(d, x) BY DEF Focused
<1>2. d \in Desk BY DEF Core
<1> QED BY <1>1, <1>2, ContendsKeeps DEF Keeps, Alike

-----------------------------------------------------------------------------
(* Swaps, and the invariant between handlers                                *)

(* swapActiveWorkspaces: two monitors show each other's workspace; nothing  *)
(* becomes visible or hidden.                                               *)
LEMMA SwappedKeeps ==
  ASSUME NEW d, Core(d), NEW a \in Plugged(d), NEW b \in Plugged(d), a # b,
         NEW e, e = Swapped(d, a, b)
  PROVE  /\ Keeps(d, e) /\ e.focus = d.focus /\ e.at = d.at
         /\ \A v : Exists(d, v) => Exists(e, v)
         /\ \A s \in Plugged(d) : e.active[s] \in Ids
<1> DEFINE wa == d.active[a]
           wb == d.active[b]
<1>1. /\ d \in Desk /\ Plugged(d) \subseteq Screens /\ a \in Screens /\ b \in Screens
      /\ ToSet(d.spaces) \subseteq Spaces /\ Ids \subseteq Spaces
      /\ a # None /\ b # None
  BY DeskFields, Distinct DEF Core
<1>2. /\ wa \in Ids /\ wb \in Ids /\ wa # wb /\ Exists(d, wa) /\ Exists(d, wb)
      /\ d.home[wa] = a /\ d.home[wb] = b
  BY DEF Core, Placed
<1> DEFINE ho == [d.home EXCEPT ![wa] = b, ![wb] = a]
           ac == [d.active EXCEPT ![a] = wb, ![b] = wa]
           on == [x \in Windows |-> CASE d.at[x] = wa -> b
                                      [] d.at[x] = wb -> a
                                      [] OTHER -> d.on[x]]
<1>3. /\ \A v \in Spaces : ho[v] = IF v = wa THEN b ELSE IF v = wb THEN a ELSE d.home[v]
      /\ ho \in [Spaces -> Screens \union {None}]
  BY <1>1, <1>2, DeskFields
<1>4. /\ \A s \in Screens : ac[s] = IF s = a THEN wb ELSE IF s = b THEN wa ELSE d.active[s]
      /\ ac \in [Screens -> Ids \union {None}]
  BY <1>1, <1>2, DeskFields
<1>5. \A x \in Windows : on[x] = IF d.at[x] = wa THEN b
                                 ELSE IF d.at[x] = wb THEN a ELSE d.on[x]
  BY <1>2
<1>6. on \in [Windows -> Screens \union {None}]
  <2>1. \A x \in Windows : on[x] \in Screens \union {None} BY <1>1, <1>5, DeskFields
  <2>2. on = [x \in Windows |-> on[x]] OBVIOUS
  <2> HIDE DEF on
  <2> QED BY <2>1, <2>2
<1>7. e = [d EXCEPT !.home = ho, !.active = ac, !.on = on]
  BY <1>1 DEF Swapped, Desk
<1> HIDE DEF ho, ac, on, wa, wb
<1>8. e \in Desk BY <1>1, <1>3, <1>4, <1>6, <1>7 DEF Desk
<1>9. /\ e.monitors = d.monitors /\ e.focus = d.focus
      /\ e.special = d.special /\ e.visible = d.visible /\ e.spaces = d.spaces
      /\ e.at = d.at /\ e.full = d.full /\ e.hasFull = d.hasFull
      /\ e.home = ho /\ e.active = ac /\ e.on = on
  BY <1>1, <1>7 DEF Desk
<1>10. /\ Plugged(e) = Plugged(d)
       /\ \A v : Exists(e, v) <=> Exists(d, v)
       /\ \A v : Exists(d, v) => v \in Spaces
  BY <1>1, <1>9 DEF Plugged, Exists
<1>11. Placed(d) /\ Housed(d) BY DEF Core
<1>12. \A s \in Plugged(e) : /\ e.active[s] \in Ids
                             /\ Exists(e, e.active[s])
                             /\ e.home[e.active[s]] = s
  <2> TAKE s \in Plugged(e)
  <2>1. s \in Plugged(d) /\ s \in Screens BY <1>1, <1>10
  <2>2. CASE s = a BY <2>1, <2>2, <1>1, <1>2, <1>3, <1>4, <1>9, <1>10
  <2>3. CASE s = b BY <2>1, <2>3, <1>1, <1>2, <1>3, <1>4, <1>9, <1>10
  <2>4. CASE s # a /\ s # b
    <3>1. e.active[s] = d.active[s] BY <2>1, <2>4, <1>4, <1>9
    <3>2. /\ d.active[s] \in Ids /\ Exists(d, d.active[s])
          /\ d.home[d.active[s]] = s
      BY <2>1, <1>11 DEF Placed
    <3>3. d.active[s] # wa /\ d.active[s] # wb BY <3>2, <2>4, <1>2
    <3> QED BY <3>1, <3>2, <3>3, <1>3, <1>9, <1>10
  <2> QED BY <2>2, <2>3, <2>4
<1>13. \A w \in Ids : w \in e.visible <=> \E s \in Plugged(e) : e.active[s] = w
  <2> TAKE w \in Ids
  <2>1. w \in d.visible <=> \E s \in Plugged(d) : d.active[s] = w BY <1>11 DEF Placed
  <2>2. /\ e.active[a] = wb /\ e.active[b] = wa
        /\ \A s \in Plugged(d) : s # a /\ s # b => e.active[s] = d.active[s]
    BY <1>1, <1>4, <1>9
  <2>3. d.active[a] = wa /\ d.active[b] = wb BY DEF wa, wb
  <2> QED BY <2>1, <2>2, <2>3, <1>9, <1>10
<1>14. \A v \in ToSet(e.spaces) : e.home[v] \in Plugged(e) \union {None}
  BY <1>1, <1>3, <1>9, <1>10, <1>11 DEF Placed
<1>15. \A s \in Screens \ Plugged(e) : e.active[s] = None /\ e.special[s] = None
  BY <1>1, <1>4, <1>9, <1>10, <1>11 DEF Placed
<1>16. Placed(e) BY <1>9, <1>10, <1>11, <1>12, <1>13, <1>14, <1>15 DEF Placed
<1>17. Housed(e)
  <2>1. ASSUME NEW x \in Windows, e.at[x] \in Ids PROVE e.on[x] = e.home[e.at[x]]
    BY <2>1, <1>1, <1>3, <1>5, <1>9, <1>11 DEF Housed
  <2>2. ASSUME NEW x \in Windows PROVE e.on[x] \in Plugged(e) \union {None}
    BY <2>2, <1>5, <1>9, <1>10, <1>11 DEF Housed
  <2> QED BY <1>9, <1>10, <1>11, <2>1, <2>2 DEF Housed
<1>18. Owned(d) => Owned(e) BY <1>1, <1>3, <1>9 DEF Owned
<1> QED BY <1>8, <1>9, <1>10, <1>12, <1>16, <1>17, <1>18, MarkedSame DEF Keeps, Core

(* And a window may get the focus afterwards.                               *)
LEMMA SwapKeeps ==
  ASSUME NEW d, Core(d), NEW a \in Plugged(d), NEW b \in Plugged(d), a # b,
         NEW e \in Swap(d, a, b)
  PROVE  Keeps(d, e)
<1> DEFINE f == Swapped(d, a, b)
<1>1. /\ Keeps(d, f) /\ f.focus = d.focus /\ f.at = d.at
      /\ \A s \in Plugged(d) : f.active[s] \in Ids
  BY SwappedKeeps
<1>2. \/ e = f
      \/ \E x \in Windows : d.focus \in {a, b} /\ d.at[x] = f.active[d.focus] /\ e = FocusOn(f, x)
  BY DEF Swap
<1> HIDE DEF f
<1>3. CASE e = f BY <1>1, <1>3
<1>4. ASSUME NEW x \in Windows, d.focus \in {a, b}, d.at[x] = f.active[d.focus],
             e = FocusOn(f, x)
      PROVE  Keeps(d, e)
  <2>1. f.at[x] # None BY <1>1, <1>4, Distinct
  <2>2. Keeps(f, e) BY <2>1, <1>1, <1>4, FocusOnKeeps DEF Keeps
  <2> QED BY <1>1, <2>2, KeepsOn
<1> QED BY <1>2, <1>3, <1>4

(* The dispatcher workspace, while every workspace has a monitor: it is     *)
(* shown on its own one.                                                    *)
LEMMA ToWorkspaceKeeps ==
  ASSUME NEW d, Core(d), Owned(d), NEW w \in Spaces, NEW e \in ToWorkspace(d, w)
  PROVE  Keeps(d, e) /\ e.at = d.at
<1> DEFINE c == Created(d, w, d.focus)
           owner == c.home[w]
           g == [c EXCEPT !.focus = owner]
           shown == ChangeWorkspace(g, owner, w)
<1>0. d.focus \in Plugged(d) BY DEF Core, Placed
<1>1. CASE w = d.active[d.focus]
  <2>1. e = d BY <1>1 DEF ToWorkspace
  <2> QED BY <2>1 DEF Keeps
<1>2. /\ Keeps(d, c) /\ Exists(c, w) /\ c.focus = d.focus /\ c.at = d.at
  BY <1>0, CreatedKeeps
<1>3. Core(c) /\ Plugged(c) = Plugged(d) /\ Owned(c) BY <1>2 DEF Keeps, Plugged
<1>4. CASE w # d.active[d.focus] /\ w \in Specials
  <2>1. e = OpenSpecial(c, d.focus, w) BY <1>4 DEF ToWorkspace
  <2> HIDE DEF c
  <2>2. Keeps(c, e) /\ e.at = c.at BY <2>1, <1>0, <1>2, <1>3, <1>4, OpenSpecialKeeps
  <2> QED BY <1>2, <2>2, KeepsOn
<1>5. CASE w # d.active[d.focus] /\ w \notin Specials
  <2>1. \/ e = shown
        \/ \E x \in On(d, w) : e = FocusOn(shown, x)
    BY <1>5 DEF ToWorkspace
  <2> HIDE DEF c
  <2>2. owner \in Plugged(c) /\ w \in Ids
    BY <1>2, <1>3, <1>5, Distinct DEF Core, Placed, Owned, Exists
  <2> HIDE DEF owner
  <2>3. Keeps(c, g) /\ g.spaces = c.spaces /\ g.home = c.home /\ g.at = c.at
    BY <1>3, <2>2, FocusKeeps
  <2> HIDE DEF g
  <2>4. /\ Core(g) /\ owner \in Plugged(g) /\ Exists(g, w) /\ g.home[w] = owner
    BY <1>2, <2>2, <2>3 DEF Keeps, Plugged, Exists, owner
  <2>5. Keeps(g, shown) /\ shown.at = g.at
    BY <2>2, <2>4, ChangeWorkspaceMoves DEF Moved
  <2> HIDE DEF shown
  <2>6. Keeps(d, shown) /\ shown.at = d.at BY <1>2, <2>3, <2>5, KeepsOn
  <2>7. ASSUME NEW x \in On(d, w), e = FocusOn(shown, x) PROVE Keeps(d, e) /\ e.at = d.at
    <3>1. x \in Windows /\ shown.at[x] # None
      BY <2>7, <1>2, <2>3, <2>5, Distinct DEF On
    <3>2. Keeps(shown, e) /\ e.at = shown.at BY <3>1, <2>6, <2>7, FocusOnKeeps DEF Keeps
    <3> QED BY <2>6, <3>2, KeepsOn
  <2> QED BY <2>1, <2>6, <2>7
<1> QED BY <1>1, <1>4, <1>5

(* The inductive invariant, between handlers.  While a real monitor is      *)
(* plugged in every workspace has a monitor; in the unsafe state the        *)
(* headless output is the only one.                                         *)
Inv(d) == /\ Core(d) /\ Marked(d)
          /\ Safe(d) => Owned(d)
          /\ ~ Safe(d) => Plugged(d) = {Fallback}

(* It is kept by what keeps its parts.                                      *)
LEMMA KeepsInv ==
  ASSUME NEW d, Inv(d), NEW e, Keeps(d, e)
  PROVE  Inv(e)
<1>1. Plugged(e) = Plugged(d) /\ (Safe(e) <=> Safe(d)) BY DEF Keeps, Plugged, Safe
<1> QED BY <1>1 DEF Inv, Keeps

(* A handler that keeps the monitors keeps it.                              *)
Stays(d) == Inv(d) /\ d.monitors = desk.monitors

(* What keeps the parts of the invariant and the monitors.                  *)
LEMMA KeepsStays ==
  ASSUME NEW d, Stays(d), NEW e, Keeps(d, e)
  PROVE  Stays(e)
  BY KeepsInv DEF Stays, Keeps

(* The pointer moves the focus to a monitor that is plugged in.             *)
LEMMA PointedKeeps ==
  ASSUME NEW d, Core(d), NEW e \in Pointed(d)
  PROVE  Keeps(d, e)
<1>1. e = d \/ \E s \in Plugged(d) : e = [d EXCEPT !.focus = s] BY DEF Pointed
<1>2. ASSUME NEW s \in Plugged(d), e = [d EXCEPT !.focus = s] PROVE Keeps(d, e)
  BY <1>2, FocusKeeps
<1> QED BY <1>1, <1>2 DEF Keeps

(* What follows a handler that may move the focus.                          *)
LEMMA BecomesStays ==
  ASSUME NEW ds, \A d \in ds : Stays(d), Becomes(ds)
  PROVE  Stays(desk')
<1>1. PICK d \in ds : \E e \in Pointed(Reap(d)) : \E f \in Focused(e) : desk' = f
  BY DEF Becomes
<1>2. PICK e \in Pointed(Reap(d)) : \E f \in Focused(e) : desk' = f BY <1>1
<1> DEFINE r == Reap(d)
<1>3. Stays(d) /\ Core(d) BY DEF Stays, Inv
<1>4. Keeps(d, r) BY <1>3, ReapKeeps
<1>5. e \in Pointed(r) BY <1>2
<1> HIDE DEF r
<1>6. Keeps(r, e) BY <1>4, <1>5, PointedKeeps DEF Keeps
<1>7. Keeps(e, desk') BY <1>2, <1>6, FocusedKeeps DEF Keeps
<1> QED BY <1>3, <1>4, <1>6, <1>7, KeepsStays

-----------------------------------------------------------------------------
(* Windows move, come and go                                                *)

(* updateWindows, also where a flag is not right yet.                       *)
LEMMA UpdateWindowsFields ==
  ASSUME NEW d \in Desk, NEW ws \in SUBSET Spaces, NEW e, e = updateWindows(d, ws)
  PROVE  /\ Alike(d, e) /\ e.full = d.full
         /\ \A w : w \in e.hasFull <=>
              \/ w \in d.hasFull /\ w \notin ws
              \/ w \in ws /\ \E x \in d.full : d.at[x] = w
<1>0. d.full \subseteq Windows BY DeskFields
<1> DEFINE hf == (d.hasFull \ ws) \union {w \in ws : On(d, w) \intersect d.full # {}}
<1>1. \A w : w \in hf <=> \/ w \in d.hasFull /\ w \notin ws
                          \/ w \in ws /\ \E x \in d.full : d.at[x] = w
  BY <1>0 DEF On
<1>2. hf \subseteq Spaces BY <1>0, DeskFields
<1>3. e = [d EXCEPT !.hasFull = hf] BY DEF updateWindows
<1> HIDE DEF hf
<1>4. e \in Desk BY <1>0, <1>2, <1>3 DEF Desk
<1>5. Alike(d, e) /\ e.full = d.full /\ e.hasFull = hf
  BY <1>0, <1>3, <1>4 DEF Desk, Alike
<1> QED BY <1>1, <1>5

(* The window x on the workspace w, on its monitor.                         *)
Place(d, x, w) == [Leave(d, x, w) EXCEPT !.on[x] = d.home[w]]

(* A window that is not fullscreen goes to another workspace, with what     *)
(* that means for the special one it may leave empty.                       *)
LEMMA PlaceKeeps ==
  ASSUME NEW d, Core(d), NEW x \in Windows, d.at[x] # None, x \notin d.full,
         NEW w, Exists(d, w),
         NEW e, e = Place(d, x, w)
  PROVE  /\ Keeps(d, e)
         /\ \A y \in Windows : e.at[y] = IF y = x THEN w ELSE d.at[y]
         /\ e.on[x] = d.home[w] /\ e.home = d.home /\ e.spaces = d.spaces
         /\ e.focus = d.focus
<1> DEFINE old == d.at[x]
           p == [d EXCEPT !.at[x] = w]
           u == updateWindows(p, {old, w})
           l == Leave(d, x, w)
<1>1. /\ d \in Desk /\ Plugged(d) \subseteq Screens /\ w \in Spaces /\ old \in Spaces
      /\ ToSet(d.spaces) \subseteq Spaces /\ w # None
  BY DeskFields, Distinct DEF Core, Exists
<1>2. Placed(d) /\ Housed(d) BY DEF Core
<1> DEFINE nat == [d.at EXCEPT ![x] = w]
<1>3. /\ nat \in [Windows -> Spaces \union {None}]
      /\ \A y \in Windows : nat[y] = IF y = x THEN w ELSE d.at[y]
  BY <1>1, DeskFields
<1>4. /\ p \in Desk /\ p.at = nat
      /\ p.monitors = d.monitors /\ p.focus = d.focus /\ p.active = d.active
      /\ p.special = d.special /\ p.spaces = d.spaces /\ p.home = d.home
      /\ p.visible = d.visible /\ p.on = d.on /\ p.full = d.full /\ p.hasFull = d.hasFull
  <2>1. p = [d EXCEPT !.at = nat] BY <1>1 DEF Desk
  <2> HIDE DEF nat, p
  <2>2. p \in Desk BY <2>1, <1>1, <1>3 DEF Desk
  <2> QED BY <2>1, <2>2, <1>1 DEF Desk
<1>6. l = IF old \in Specials /\ On(u, old) = {} /\ u.home[old] # None
          THEN CloseSpecial(u, u.home[old]) ELSE u
  BY DEF Leave
<1> HIDE DEF p, nat, l
<1>7. /\ Alike(p, u) /\ u.full = p.full
      /\ \A v : v \in u.hasFull <=>
           \/ v \in p.hasFull /\ v \notin {old, w}
           \/ v \in {old, w} /\ \E y \in p.full : p.at[y] = v
  BY <1>1, <1>4, UpdateWindowsFields
<1>8. u \in Desk BY <1>7 DEF Alike
<1> HIDE DEF u, old
<1>9. /\ l \in Desk
      /\ l.monitors = d.monitors /\ l.focus = d.focus /\ l.active = d.active
      /\ l.spaces = d.spaces /\ l.home = d.home /\ l.at = nat /\ l.on = d.on
      /\ l.full = d.full /\ l.hasFull = u.hasFull
      /\ \A t \in Screens : l.special[t] \in {None, d.special[t]}
      /\ \A v \in Ids : v \in l.visible <=> v \in d.visible
  <2>1. CASE l = u BY <2>1, <1>4, <1>7, <1>8 DEF Alike
  <2>2. CASE l # u
    <3>1. /\ l = CloseSpecial(u, u.home[old]) /\ u.home[old] # None
      BY <2>2, <1>6
    <3>2. u.home[old] \in Screens BY <3>1, <1>1, <1>8, DeskFields
    <3>3. /\ l \in Desk
          /\ l.monitors = u.monitors /\ l.focus = u.focus
          /\ l.active = u.active /\ l.spaces = u.spaces
          /\ l.home = u.home /\ l.at = u.at /\ l.on = u.on
          /\ l.full = u.full /\ l.hasFull = u.hasFull
          /\ \A t \in Screens : l.special[t] = IF t = u.home[old] THEN None ELSE u.special[t]
          /\ l.visible = u.visible \ {u.special[u.home[old]]}
      BY <3>1, <3>2, <1>8, CloseSpecialFields
    <3>4. u.special[u.home[old]] \notin Ids
      BY <3>2, <1>8, DeskFields, Distinct
    <3> QED BY <3>3, <3>4, <1>4, <1>7 DEF Alike
  <2> QED BY <2>1, <2>2
<1> DEFINE non == [l.on EXCEPT ![x] = d.home[w]]
<1>10. /\ non \in [Windows -> Screens \union {None}]
       /\ \A y \in Windows : non[y] = IF y = x THEN d.home[w] ELSE d.on[y]
  <2>1. l.on \in [Windows -> Screens \union {None}] BY <1>9, DeskFields
  <2>2. d.home[w] \in Screens \union {None} BY <1>1, DeskFields
  <2> QED BY <2>1, <2>2, <1>9
<1>11. e = [l EXCEPT !.on = non] BY <1>9 DEF Desk, l, Place
<1> HIDE DEF non
<1>12. e \in Desk BY <1>9, <1>10, <1>11 DEF Desk
<1>13. /\ e.monitors = d.monitors /\ e.focus = d.focus /\ e.active = d.active
       /\ e.spaces = d.spaces /\ e.home = d.home /\ e.at = nat /\ e.on = non
       /\ e.full = d.full /\ e.hasFull = u.hasFull
       /\ \A t \in Screens : e.special[t] \in {None, d.special[t]}
       /\ \A v \in Ids : v \in e.visible <=> v \in d.visible
  BY <1>9, <1>11 DEF Desk
<1>14. Plugged(e) = Plugged(d) /\ \A v : Exists(e, v) <=> Exists(d, v)
  BY <1>13 DEF Plugged, Exists
<1>15. Placed(e)
  BY <1>1, <1>2, <1>13, <1>14 DEF Placed
<1>16. Housed(e)
  <2>1. d.home[w] \in Plugged(d) \union {None} BY <1>2 DEF Placed, Exists
  <2> QED BY <2>1, <1>2, <1>3, <1>10, <1>13, <1>14 DEF Housed
<1>17. Marked(d) => Marked(e)
  <2> SUFFICES ASSUME Marked(d) PROVE Marked(e) OBVIOUS
  <2>1. d.full \subseteq Windows BY <1>1, DeskFields
  <2>2. \A y \in d.full : nat[y] = d.at[y] BY <1>3, <2>1
  <2>3. \A v \in Spaces : v \in e.hasFull <=> \E y \in e.full : e.at[y] = v
    BY <2>2, <1>4, <1>7, <1>13 DEF Marked
  <2> QED BY <2>2, <2>3, <1>13 DEF Marked
<1>18. Keeps(d, e)
  BY <1>12, <1>13, <1>15, <1>16, <1>17 DEF Keeps, Core, Owned
<1> QED BY <1>3, <1>10, <1>13, <1>18

(* moveWindowToWorkspaceSafe: fullscreen is left before the window goes and *)
(* taken again where it arrives, so that both workspaces' flags are right.  *)
LEMMA MoveWindowKeeps ==
  ASSUME NEW d, Core(d), Marked(d), Safe(d), NEW x \in Windows, NEW w \in Spaces,
         d.at[x] # None, Exists(d, w) \/ d.on[x] # None,
         NEW e, e = MoveWindow(d, x, w)
  PROVE  /\ Keeps(d, e)
         /\ \A y \in Windows : e.at[y] = IF y = x THEN w ELSE d.at[y]
         /\ Exists(e, w) /\ e.on[x] = e.home[w] /\ e.focus = d.focus
         /\ \A v : Exists(d, v) => Exists(e, v) /\ e.home[v] = d.home[v]
<1> DEFINE full  == x \in d.full
           made  == Created(d, w, d.on[x])
           out   == IF full THEN SetFullscreen(made, x, FALSE) ELSE made
           moved == [Leave(out, x, w) EXCEPT !.on[x] = made.home[w]]
           again == IF full THEN SetFullscreen(moved, x, TRUE) ELSE moved
<1>1. e = updateWindows(again, {w}) BY DEF MoveWindow
<1>2. Exists(d, w) \/ d.on[x] \in Plugged(d) BY DEF Core, Housed
<1>3. /\ Keeps(d, made) /\ Exists(made, w)
      /\ made.focus = d.focus /\ made.at = d.at /\ made.full = d.full
      /\ \A v : Exists(d, v) => Exists(made, v) /\ made.home[v] = d.home[v]
  BY <1>2, CreatedKeeps
<1> HIDE DEF made
<1>4. Core(made) /\ Marked(made) /\ Safe(made) /\ made \in Desk
  BY <1>3 DEF Keeps, Safe, Plugged, Core
<1>5. Keeps(made, out) /\ Alike(made, out) /\ x \notin out.full
  <2>1. CASE full
    <3>1. out = SetFullscreen(made, x, FALSE) BY <2>1
    <3> HIDE DEF out
    <3> QED BY <3>1, <1>3, <1>4, SetFullscreenKeeps
  <2>2. CASE ~ full
    <3>1. out = made BY <2>2
    <3> HIDE DEF out
    <3> QED BY <3>1, <2>2, <1>3, <1>4 DEF Keeps, Alike
  <2> QED BY <2>1, <2>2
<1> HIDE DEF out, full
<1>6. /\ Core(out) /\ Exists(out, w) /\ out.at = d.at /\ out.home = made.home
      /\ out.spaces = made.spaces /\ out.focus = d.focus
  BY <1>3, <1>5 DEF Keeps, Alike, Exists
<1>7. moved = Place(out, x, w) BY <1>6 DEF Place
<1> HIDE DEF moved
<1>8. /\ Keeps(out, moved)
      /\ \A y \in Windows : moved.at[y] = IF y = x THEN w ELSE out.at[y]
      /\ moved.on[x] = out.home[w] /\ moved.home = out.home /\ moved.spaces = out.spaces
      /\ moved.focus = out.focus
  BY <1>5, <1>6, <1>7, PlaceKeeps
<1>9. Core(moved) /\ moved \in Desk BY <1>8 DEF Keeps, Core
<1>10. Keeps(moved, again) /\ Alike(moved, again)
  <2>1. CASE full
    <3>1. again = SetFullscreen(moved, x, TRUE) BY <2>1
    <3> HIDE DEF again
    <3> QED BY <3>1, <1>9, SetFullscreenKeeps
  <2>2. CASE ~ full
    <3>1. again = moved BY <2>2
    <3> HIDE DEF again
    <3> QED BY <3>1, <1>9 DEF Keeps, Alike
  <2> QED BY <2>1, <2>2
<1> HIDE DEF again
<1>11. Keeps(again, e) /\ Alike(again, e)
  BY <1>1, <1>10, UpdateWindowsKeeps DEF Keeps
<1>12. Keeps(d, e)
  BY <1>3, <1>5, <1>8, <1>10, <1>11, KeepsOn
<1>13. e.at = moved.at /\ e.on = moved.on /\ e.home = moved.home
       /\ e.spaces = moved.spaces /\ e.focus = moved.focus
  BY <1>10, <1>11 DEF Alike
<1> QED BY <1>3, <1>6, <1>8, <1>12, <1>13 DEF Exists

(* mapWindow: the new window is where the focus is.                         *)
LEMMA MapWindowStays ==
  ASSUME Stays(desk), NEW x \in Windows, MapWindow(x)
  PROVE  Stays(desk')
<1> DEFINE s == desk.focus
           w == IF desk.special[s] # None THEN desk.special[s] ELSE desk.active[s]
           d == [desk EXCEPT !.at[x] = w, !.on[x] = s]
<1>1. /\ desk.at[x] = None
      /\ \E f \in Opens(d, x) : desk' = updateWindows(f, {w})
  BY DEF MapWindow
<1>2. /\ desk \in Desk /\ Placed(desk) /\ Housed(desk) /\ s \in Plugged(desk)
      /\ s \in Screens /\ Plugged(desk) \subseteq Screens
      /\ ToSet(desk.spaces) \subseteq Spaces
  BY DeskFields DEF Stays, Inv, Core, Placed
<1>3. /\ Exists(desk, w) /\ w \in Spaces /\ w # None
      /\ w \in Ids => desk.home[w] = s
  <2>1. CASE desk.special[s] # None
    BY <2>1, <1>2, DeskFields, Distinct DEF Placed, Exists
  <2>2. CASE desk.special[s] = None
    BY <2>2, <1>2, Distinct DEF Placed, Exists
  <2> QED BY <2>1, <2>2
<1> HIDE DEF w, s
<1> DEFINE nat == [desk.at EXCEPT ![x] = w]
           non == [desk.on EXCEPT ![x] = s]
<1>4. /\ nat \in [Windows -> Spaces \union {None}]
      /\ \A y \in Windows : nat[y] = IF y = x THEN w ELSE desk.at[y]
      /\ non \in [Windows -> Screens \union {None}]
      /\ \A y \in Windows : non[y] = IF y = x THEN s ELSE desk.on[y]
  BY <1>2, <1>3, DeskFields
<1>5. d = [desk EXCEPT !.at = nat, !.on = non] BY <1>2 DEF Desk
<1> HIDE DEF nat, non, d
<1>6. d \in Desk BY <1>2, <1>4, <1>5 DEF Desk
<1>7. /\ d.at = nat /\ d.on = non
      /\ d.monitors = desk.monitors /\ d.focus = desk.focus /\ d.active = desk.active
      /\ d.special = desk.special /\ d.spaces = desk.spaces /\ d.home = desk.home
      /\ d.visible = desk.visible /\ d.full = desk.full /\ d.hasFull = desk.hasFull
  BY <1>2, <1>5 DEF Desk
<1>8. Plugged(d) = Plugged(desk) /\ \A v : Exists(d, v) <=> Exists(desk, v)
  BY <1>7 DEF Plugged, Exists
<1>9. Placed(d) BY <1>2, <1>7, <1>8 DEF Placed
<1>10. Housed(d) BY <1>2, <1>3, <1>4, <1>7, <1>8 DEF Housed
<1>11. Marked(desk) => Marked(d)
  <2> SUFFICES ASSUME Marked(desk) PROVE Marked(d) OBVIOUS
  <2>1. desk.full \subseteq Windows BY <1>2, DeskFields
  <2>2. \A y \in desk.full : nat[y] = desk.at[y] BY <1>1, <1>4, <2>1 DEF Marked
  <2> QED BY <2>2, <1>7 DEF Marked
<1>12. Keeps(desk, d)
  BY <1>6, <1>7, <1>9, <1>10, <1>11 DEF Keeps, Core, Owned
<1>13. PICK f \in Opens(d, x) : desk' = updateWindows(f, {w}) BY <1>1
<1>14. Keeps(d, f)
  <2>1. Core(d) BY <1>12 DEF Keeps
  <2>2. f \in Contends(d, x) \/ f = SetFullscreen(d, x, TRUE) BY <1>13 DEF Opens
  <2> QED BY <2>1, <2>2, ContendsKeeps, SetFullscreenKeeps
<1>15. Keeps(f, desk')
  BY <1>3, <1>13, <1>14, UpdateWindowsKeeps DEF Keeps
<1> QED BY <1>12, <1>14, <1>15, KeepsStays

(* The special workspace open on s closes, or nothing does.                 *)
LEMMA CloseOrNot ==
  ASSUME NEW d, Stays(d), NEW s, NEW c \in BOOLEAN, c => s \in Screens,
         NEW e, e = IF c THEN CloseSpecial(d, s) ELSE d
  PROVE  Stays(e)
<1>1. CASE c
  <2>1. e = CloseSpecial(d, s) /\ s \in Screens BY <1>1
  <2> QED BY <2>1, CloseSpecialKeeps, KeepsStays DEF Stays, Inv
<1>2. CASE ~ c BY <1>2
<1> QED BY <1>1, <1>2

(* unmapWindow: also when another window keeps fullscreen, or the special   *)
(* workspace it leaves is closed.                                           *)
LEMMA UnmapWindowStays ==
  ASSUME Stays(desk), NEW x \in Windows, UnmapWindow(x)
  PROVE  Stays(desk')
<1> DEFINE w == desk.at[x]
           s == desk.on[x]
           d == [desk EXCEPT !.at[x] = None, !.on[x] = None, !.full = @ \ {x}]
           u == updateWindows(d, {w})
           emptied == w \in Specials /\ On(d, w) = {}
           ds == {IF emptied /\ desk.special[s] = w THEN CloseSpecial(e, s)
                 ELSE e : e \in Retains(u, x \in desk.full)}
<1>1. desk.at[x] # None /\ (emptied => s # None) /\ Becomes(ds)
  BY DEF UnmapWindow, Mapped
<1>2. /\ desk \in Desk /\ Placed(desk) /\ Housed(desk)
      /\ Plugged(desk) \subseteq Screens /\ w \in Spaces
      /\ s \in Screens \union {None}
      /\ desk.full \subseteq Windows
  BY <1>1, DeskFields DEF Stays, Inv, Core
<1> DEFINE nat == [desk.at EXCEPT ![x] = None]
           non == [desk.on EXCEPT ![x] = None]
           nf == desk.full \ {x}
<1>3. /\ nat \in [Windows -> Spaces \union {None}]
      /\ \A y \in Windows : nat[y] = IF y = x THEN None ELSE desk.at[y]
      /\ non \in [Windows -> Screens \union {None}]
      /\ \A y \in Windows : non[y] = IF y = x THEN None ELSE desk.on[y]
      /\ nf \subseteq Windows
      /\ \A y : y \in nf <=> y \in desk.full /\ y # x
  BY <1>2, DeskFields
<1>4. d = [desk EXCEPT !.at = nat, !.on = non, !.full = nf] BY <1>2 DEF Desk
<1> HIDE DEF nat, non, nf, d
<1>5. d \in Desk BY <1>2, <1>3, <1>4 DEF Desk
<1>6. /\ d.at = nat /\ d.on = non /\ d.full = nf
      /\ d.monitors = desk.monitors /\ d.focus = desk.focus /\ d.active = desk.active
      /\ d.special = desk.special /\ d.spaces = desk.spaces /\ d.home = desk.home
      /\ d.visible = desk.visible /\ d.hasFull = desk.hasFull
  BY <1>2, <1>4 DEF Desk
<1>7. /\ Alike(d, u) /\ u.full = d.full
      /\ \A v : v \in u.hasFull <=>
           \/ v \in d.hasFull /\ v \notin {w}
           \/ v \in {w} /\ \E y \in d.full : d.at[y] = v
  BY <1>2, <1>5, UpdateWindowsFields
<1> HIDE DEF u
<1>8. Plugged(u) = Plugged(desk) /\ \A v : Exists(u, v) <=> Exists(desk, v)
  BY <1>6, <1>7 DEF Plugged, Exists, Alike
<1>9. Placed(u) BY <1>2, <1>6, <1>7, <1>8 DEF Placed, Alike
<1>10. Housed(u)
  BY <1>2, <1>3, <1>6, <1>7, <1>8, Distinct DEF Housed, Alike
<1>11. Marked(u)
  <2>1. Marked(desk) BY DEF Stays, Inv
  <2>2. \A y \in nf : nat[y] = desk.at[y] BY <1>2, <1>3
  <2>3. \A y \in desk.full : y # x => desk.at[y] # w \/ x \notin desk.full
    BY <2>1 DEF Marked
  <2>4. \A v \in Spaces : v \in u.hasFull <=> \E y \in u.full : u.at[y] = v
    <3> TAKE v \in Spaces
    <3>1. CASE v = w BY <3>1, <1>6, <1>7 DEF Alike
    <3>2. CASE v # w
      <4>1. v \in u.hasFull <=> \E y \in desk.full : desk.at[y] = v
        BY <3>2, <2>1, <1>6, <1>7 DEF Marked
      <4>2. \A y \in desk.full : desk.at[y] = v => y \in nf BY <3>2, <1>3
      <4> QED BY <4>1, <4>2, <2>2, <1>3, <1>6, <1>7 DEF Alike
    <3> QED BY <3>1, <3>2
  <2> QED BY <2>1, <2>2, <2>4, <1>3, <1>6, <1>7 DEF Marked, Alike
<1>12. Keeps(desk, u)
  BY <1>6, <1>7, <1>9, <1>10, <1>11 DEF Keeps, Core, Owned, Alike
<1>13. Stays(u) BY <1>12, KeepsStays
<1>14. \A e \in Retains(u, x \in desk.full) : Stays(e)
  <2> TAKE e \in Retains(u, x \in desk.full)
  <2>1. e = u \/ \E y \in Windows : e = SetFullscreen(u, y, TRUE)
    BY DEF Retains, Mapped
  <2>2. Core(u) BY <1>13 DEF Stays, Inv
  <2>3. \A y \in Windows : Keeps(u, SetFullscreen(u, y, TRUE))
    BY <2>2, SetFullscreenKeeps
  <2> QED BY <2>1, <2>3, <1>13, KeepsStays
<1> DEFINE c == emptied /\ desk.special[s] = w
<1>15. c => s \in Screens BY <1>1, <1>2
<1>16. \A f \in ds : \E e \in Retains(u, x \in desk.full) : f = IF c THEN CloseSpecial(e, s) ELSE e
  OBVIOUS
<1>17. c \in BOOLEAN OBVIOUS
<1> HIDE DEF c, s, emptied
<1>18. \A f \in ds : Stays(f)
  <2> SUFFICES ASSUME NEW f \in ds PROVE Stays(f) OBVIOUS
  <2>1. PICK e \in Retains(u, x \in desk.full) : f = IF c THEN CloseSpecial(e, s) ELSE e
    BY <1>16
  <2>2. Stays(e) BY <1>14
  <2> QED BY <2>1, <2>2, <1>15, <1>17, CloseOrNot
<1> HIDE DEF ds
<1> QED BY <1>1, <1>18, BecomesStays

-----------------------------------------------------------------------------
(* Dispatchers                                                              *)

(* The parts of the invariant that handlers start from.                     *)
LEMMA StaysFacts ==
  ASSUME NEW d, Stays(d)
  PROVE  /\ Core(d) /\ Marked(d) /\ (Safe(d) => Owned(d))
         /\ d.focus \in Plugged(d) /\ Plugged(d) \subseteq Screens
         /\ d \in Desk
  BY DeskFields DEF Stays, Inv, Core, Placed

(* A handler with one outcome before the focus follows.                     *)
LEMMA BecomesOne ==
  ASSUME NEW d, Stays(d), Becomes({d})
  PROVE  Stays(desk')
  BY BecomesStays

(* The dispatcher workspace keeps the invariant.                            *)
LEMMA WorkspaceStays ==
  ASSUME Stays(desk), NEW w \in Asked, Workspace(w)
  PROVE  Stays(desk')
<1>1. Core(desk) /\ Owned(desk) /\ w \in Spaces /\ Becomes(ToWorkspace(desk, w))
  BY StaysFacts, Distinct DEF Workspace
<1>2. \A d \in ToWorkspace(desk, w) : Stays(d)
  BY <1>1, ToWorkspaceKeeps, KeepsStays
<1> QED BY <1>1, <1>2, BecomesStays

(* The dispatcher focusworkspaceoncurrentmonitor keeps the invariant.       *)
LEMMA FocusWorkspaceOnCurrentMonitorStays ==
  ASSUME Ids = Nat \ {0}, Stays(desk), NEW w \in Asked, FocusWorkspaceOnCurrentMonitor(w)
  PROVE  Stays(desk')
<1> DEFINE here == desk.focus
           d    == Created(desk, w, here)
           old  == d.home[w]
           m    == MoveWorkspace(d, w, here)
<1>1. Core(desk) /\ Owned(desk) /\ w \in Spaces /\ here \in Plugged(desk)
  BY StaysFacts, Distinct DEF FocusWorkspaceOnCurrentMonitor
<1>2. IF old # here /\ d.active[old] = w THEN Becomes(Swap(d, old, here))
                                         ELSE Becomes(ToWorkspace(m, w))
  BY DEF FocusWorkspaceOnCurrentMonitor
<1>3. Keeps(desk, d) /\ Exists(d, w) BY <1>1, CreatedKeeps
<1> HIDE DEF d
<1>4. Core(d) /\ Owned(d) /\ here \in Plugged(d) /\ Stays(d)
  BY <1>1, <1>3, KeepsStays DEF Keeps, Plugged
<1>5. old \in Plugged(d) BY <1>3, <1>4 DEF Core, Placed, Owned, Exists
<1> HIDE DEF here, old
<1>6. CASE old # here /\ d.active[old] = w
  <2>1. \A e \in Swap(d, old, here) : Stays(e)
    BY <1>4, <1>5, <1>6, SwapKeeps, KeepsStays
  <2> QED BY <2>1, <1>2, <1>6, BecomesStays
<1>7. CASE ~ (old # here /\ d.active[old] = w)
  <2>1. Keeps(d, m) BY <1>3, <1>4, MoveWorkspaceKeeps
  <2> HIDE DEF m
  <2>2. Stays(m) /\ Core(m) /\ Owned(m) BY <2>1, <1>4, KeepsStays DEF Keeps
  <2>3. \A e \in ToWorkspace(m, w) : Stays(e)
    BY <2>2, <1>1, ToWorkspaceKeeps, KeepsStays
  <2> QED BY <2>3, <1>2, <1>7, BecomesStays
<1> QED BY <1>6, <1>7

(* The dispatcher togglespecialworkspace keeps the invariant.               *)
LEMMA ToggleSpecialWorkspaceStays ==
  ASSUME Stays(desk), NEW w \in Specials, ToggleSpecialWorkspace(w)
  PROVE  Stays(desk')
<1> DEFINE here == desk.focus
           c == Created(desk, w, here)
<1>1. /\ Core(desk) /\ w \in Spaces /\ here \in Plugged(desk) /\ here \in Screens
  BY StaysFacts, Distinct
<1>2. CASE desk.special[here] = w
  <2>1. Becomes({CloseSpecial(desk, here)}) BY <1>2 DEF ToggleSpecialWorkspace
  <2>2. Stays(CloseSpecial(desk, here)) BY <1>1, CloseSpecialKeeps, KeepsStays
  <2> QED BY <2>1, <2>2, BecomesOne
<1>3. CASE desk.special[here] # w
  <2>1. Becomes({OpenSpecial(c, here, w)}) BY <1>3 DEF ToggleSpecialWorkspace
  <2>2. Keeps(desk, c) /\ Exists(c, w) BY <1>1, CreatedKeeps
  <2> HIDE DEF c
  <2>3. Stays(c) /\ Core(c) /\ here \in Plugged(c)
    BY <1>1, <2>2, KeepsStays DEF Keeps, Plugged
  <2>4. Stays(OpenSpecial(c, here, w)) BY <2>2, <2>3, OpenSpecialKeeps, KeepsStays
  <2> QED BY <2>1, <2>4, BecomesOne
<1> QED BY <1>2, <1>3

(* The dispatcher moveworkspacetomonitor keeps the invariant.               *)
LEMMA MoveWorkspaceToMonitorStays ==
  ASSUME Ids = Nat \ {0}, Stays(desk), NEW w \in Spaces, NEW m \in Monitors,
         MoveWorkspaceToMonitor(w, m)
  PROVE  Stays(desk')
<1> DEFINE e == MoveWorkspace(desk, w, m)
<1>1. Core(desk) /\ Exists(desk, w) /\ m \in Plugged(desk) /\ desk' = Reap(e)
  BY StaysFacts DEF MoveWorkspaceToMonitor
<1>2. Keeps(desk, e) BY <1>1, MoveWorkspaceKeeps
<1> HIDE DEF e
<1>3. Keeps(e, desk') BY <1>1, <1>2, ReapKeeps DEF Keeps
<1> QED BY <1>2, <1>3, KeepsStays

(* The dispatcher swapactiveworkspaces keeps the invariant.                 *)
LEMMA SwapActiveWorkspacesStays ==
  ASSUME Stays(desk), NEW a, NEW b, SwapActiveWorkspaces(a, b)
  PROVE  Stays(desk')
<1>1. PICK d \in Swap(desk, a, b) : \E e \in Focused(Reap(d)) : desk' = e
  BY DEF SwapActiveWorkspaces
<1> DEFINE r == Reap(d)
<1>2. Keeps(desk, d)
  BY <1>1, StaysFacts, SwapKeeps DEF SwapActiveWorkspaces
<1>3. Keeps(d, r) BY <1>2, ReapKeeps DEF Keeps
<1>4. desk' \in Focused(r) BY <1>1
<1> HIDE DEF r
<1>5. Keeps(r, desk') BY <1>3, <1>4, FocusedKeeps DEF Keeps
<1> QED BY <1>2, <1>3, <1>5, KeepsStays

(* The dispatcher movetoworkspace keeps the invariant.                      *)
LEMMA MoveToWorkspaceStays ==
  ASSUME Stays(desk), NEW x \in Windows, NEW w \in Spaces, MoveToWorkspace(x, w)
  PROVE  Stays(desk')
<1> DEFINE old == desk.at[x]
           d   == MoveWindow(desk, x, w)
           s   == d.on[x]
           g   == [d EXCEPT !.focus = s]
           e   == IF Exists(desk, w) THEN SetFullscreen(g, x, x \in desk.full) ELSE d
           f   == IF old \in Specials THEN CloseSpecial(e, d.home[old]) ELSE e
           c   == ChangeWorkspace(f, s, w)
<1>1. /\ Core(desk) /\ Marked(desk) /\ Owned(desk) /\ Safe(desk)
      /\ old # None /\ old # w
      /\ Exists(desk, w) \/ desk.on[x] # None
      /\ old \in Spaces /\ Exists(desk, old)
  BY StaysFacts, DeskFields DEF MoveToWorkspace, MayMove, Core, Housed
<1>2. IF w \in Specials THEN Becomes({OpenSpecial(e, s, w)})
                        ELSE Becomes({FocusOn(c, x)})
  BY DEF MoveToWorkspace
<1>3. /\ Keeps(desk, d)
      /\ \A y \in Windows : d.at[y] = IF y = x THEN w ELSE desk.at[y]
      /\ Exists(d, w) /\ d.on[x] = d.home[w] /\ d.focus = desk.focus
      /\ \A v : Exists(desk, v) => Exists(d, v) /\ d.home[v] = desk.home[v]
  BY <1>1, MoveWindowKeeps
<1> HIDE DEF d
<1>4. /\ Stays(d) /\ Core(d) /\ Owned(d) /\ d.at[x] = w /\ Exists(d, old)
      /\ d.home[w] = s /\ s \in Plugged(d)
      /\ d.home[old] \in Plugged(d)
  BY <1>1, <1>3, KeepsStays DEF Keeps, Core, Placed, Owned, Exists
<1> HIDE DEF s, old
<1>5. /\ Keeps(d, g) /\ g.spaces = d.spaces /\ g.home = d.home /\ g.at = d.at
  BY <1>4, FocusKeeps
<1> HIDE DEF g
<1>6. Keeps(g, SetFullscreen(g, x, x \in desk.full)) /\ Alike(g, SetFullscreen(g, x, x \in desk.full))
  <2>1. Core(g) BY <1>5 DEF Keeps
  <2>2. \A on \in BOOLEAN : Keeps(g, SetFullscreen(g, x, on)) /\ Alike(g, SetFullscreen(g, x, on))
    BY <2>1, SetFullscreenKeeps
  <2>3. (x \in desk.full) \in BOOLEAN OBVIOUS
  <2> QED BY <2>2, <2>3, Zenon
<1>7. Keeps(d, e) /\ e.home = d.home /\ e.at = d.at /\ e.spaces = d.spaces
  <2>1. CASE Exists(desk, w)
    <3>1. e = SetFullscreen(g, x, x \in desk.full) BY <2>1
    <3> HIDE DEF e
    <3> QED BY <3>1, <1>5, <1>6, KeepsOn DEF Alike
  <2>2. CASE ~ Exists(desk, w)
    <3>1. e = d BY <2>2
    <3> HIDE DEF e
    <3> QED BY <3>1, <1>4 DEF Keeps
  <2> QED BY <2>1, <2>2
<1> HIDE DEF e
<1>8. /\ Stays(e) /\ Core(e) /\ Exists(e, w) /\ e.home[w] = s
      /\ s \in Plugged(e) /\ d.home[old] \in Plugged(e)
      /\ Plugged(e) \subseteq Screens
  BY <1>3, <1>4, <1>7, KeepsStays, DeskFields DEF Keeps, Plugged, Exists, Core
<1>9. CASE w \in Specials
  <2>1. Becomes({OpenSpecial(e, s, w)}) BY <1>2, <1>9
  <2>2. Stays(OpenSpecial(e, s, w)) BY <1>8, <1>9, OpenSpecialKeeps, KeepsStays
  <2> QED BY <2>1, <2>2, BecomesOne
<1>10. CASE w \notin Specials
  <2>1. Becomes({FocusOn(c, x)}) BY <1>2, <1>10
  <2>2. w \in Ids BY <1>10, Distinct
  <2>3. Keeps(e, f) /\ f.home = e.home /\ f.at = e.at /\ f.spaces = e.spaces
    <3>1. CASE old \in Specials
      <4>1. f = CloseSpecial(e, d.home[old]) /\ d.home[old] \in Screens BY <3>1, <1>8
      <4> HIDE DEF f
      <4> QED BY <4>1, <1>8, CloseSpecialKeeps, CloseSpecialFields DEF Core
    <3>2. CASE old \notin Specials
      <4>1. f = e BY <3>2
      <4> HIDE DEF f
      <4> QED BY <4>1, <1>8 DEF Keeps
    <3> QED BY <3>1, <3>2
  <2> HIDE DEF f
  <2>4. Stays(f) /\ Core(f) /\ Exists(f, w) /\ f.home[w] = s /\ s \in Plugged(f)
    BY <1>8, <2>3, KeepsStays DEF Keeps, Plugged, Exists
  <2>5. Keeps(f, c) /\ c.at = f.at
    BY <2>2, <2>4, ChangeWorkspaceMoves DEF Moved
  <2> HIDE DEF c
  <2>6. Stays(c) /\ Core(c) /\ c.at[x] # None
    BY <2>3, <2>4, <2>5, <1>4, <1>7, KeepsStays, Distinct DEF Keeps
  <2>7. Stays(FocusOn(c, x)) BY <2>6, FocusOnKeeps, KeepsStays
  <2> QED BY <2>1, <2>7, BecomesOne
<1> QED BY <1>9, <1>10

(* The dispatcher movetoworkspacesilent keeps the invariant.                *)
LEMMA MoveToWorkspaceSilentStays ==
  ASSUME Stays(desk), NEW x \in Windows, NEW w \in Spaces, MoveToWorkspaceSilent(x, w)
  PROVE  Stays(desk')
<1>1. /\ Core(desk) /\ Marked(desk) /\ Safe(desk)
      /\ desk.at[x] # None
      /\ Exists(desk, w) \/ desk.on[x] # None
      /\ Becomes({MoveWindow(desk, x, w)})
  BY StaysFacts DEF MoveToWorkspaceSilent, MayMove
<1>2. Stays(MoveWindow(desk, x, w)) BY <1>1, MoveWindowKeeps, KeepsStays
<1> QED BY <1>1, <1>2, BecomesOne

(* The dispatcher focusmonitor keeps the invariant.                         *)
LEMMA FocusMonitorStays ==
  ASSUME Stays(desk), NEW m \in Monitors, FocusMonitor(m)
  PROVE  Stays(desk')
<1> DEFINE d == [desk EXCEPT !.focus = m]
<1>1. Core(desk) /\ m \in Plugged(desk) /\ desk' \in Focused(d)
  BY StaysFacts DEF FocusMonitor
<1>2. Keeps(desk, d) BY <1>1, FocusKeeps
<1> HIDE DEF d
<1>3. Keeps(d, desk') BY <1>1, <1>2, FocusedKeeps DEF Keeps
<1> QED BY <1>2, <1>3, KeepsStays

(* The dispatcher focuswindow keeps the invariant.                          *)
LEMMA FocusWindowStays ==
  ASSUME Stays(desk), NEW x \in Windows, FocusWindow(x)
  PROVE  Stays(desk')
<1> DEFINE w == desk.at[x]
           here == w \in {desk.active[desk.focus], desk.special[desk.focus]}
           first == IF here THEN {desk} ELSE ToWorkspace(desk, w)
<1>1. Core(desk) /\ Owned(desk) /\ w # None /\ w \in Spaces
      /\ Becomes({FocusOn(d, x) : d \in first})
  BY StaysFacts, DeskFields DEF FocusWindow, Mapped
<1>2. ASSUME NEW d \in first PROVE Stays(FocusOn(d, x))
  <2>1. Keeps(desk, d) /\ d.at = desk.at BY <1>1, <1>2, ToWorkspaceKeeps DEF Keeps
  <2>2. d.at[x] # None BY <1>1, <2>1, Distinct
  <2>3. Core(d) /\ Stays(d) BY <2>1, KeepsStays DEF Keeps
  <2> QED BY <2>2, <2>3, FocusOnKeeps, KeepsStays
<1>3. \A e \in {FocusOn(d, x) : d \in first} : Stays(e) BY <1>2
<1> QED BY <1>1, <1>3, BecomesStays

(* The dispatcher fullscreen and fullscreenstate keeps the invariant.       *)
LEMMA FullscreenActiveStays ==
  ASSUME Stays(desk), NEW x \in Windows, NEW on \in BOOLEAN, FullscreenActive(x, on)
  PROVE  Stays(desk')
  BY StaysFacts, SetFullscreenKeeps, KeepsStays DEF FullscreenActive

(* A client asks for fullscreen on an output keeps the invariant.           *)
LEMMA SetFullscreenOnStays ==
  ASSUME Stays(desk), NEW x \in Windows, NEW m \in Monitors, SetFullscreenOn(x, m)
  PROVE  Stays(desk')
<1> DEFINE w == desk.active[m]
           d == IF desk.at[x] = w THEN desk ELSE MoveWindow(desk, x, w)
           g == [d EXCEPT !.focus = m]
<1>1. /\ Core(desk) /\ Marked(desk) /\ Safe(desk) /\ desk.at[x] # None
      /\ m \in Plugged(desk) /\ Exists(desk, w) /\ w \in Spaces
      /\ Becomes({SetFullscreen(g, x, TRUE)})
  BY StaysFacts, Distinct DEF SetFullscreenOn, Mapped, Core, Placed
<1>2. Keeps(desk, d)
  <2>1. CASE desk.at[x] = w BY <2>1, <1>1 DEF Keeps
  <2>2. CASE desk.at[x] # w
    <3>1. d = MoveWindow(desk, x, w) BY <2>2
    <3> HIDE DEF d, w
    <3> QED BY <3>1, <1>1, MoveWindowKeeps
  <2> QED BY <2>1, <2>2
<1> HIDE DEF d
<1>3. Core(d) /\ m \in Plugged(d) /\ Stays(d)
  BY <1>1, <1>2, KeepsStays DEF Keeps, Plugged
<1>4. Keeps(d, g) BY <1>3, FocusKeeps
<1> HIDE DEF g
<1>5. Stays(g) /\ Core(g) BY <1>3, <1>4, KeepsStays DEF Keeps
<1>6. Stays(SetFullscreen(g, x, TRUE)) BY <1>5, SetFullscreenKeeps, KeepsStays
<1> QED BY <1>1, <1>6, BecomesOne

-----------------------------------------------------------------------------
(* A monitor is plugged in                                                  *)

(* d with the monitor s beside the others: everything else is kept.         *)
Beside(d, e, s) == /\ Core(e) /\ Plugged(e) = Plugged(d) \union {s}
                   /\ Owned(d) => Owned(e)
                   /\ Marked(d) => Marked(e)

(* What the functions that follow keep.                                     *)
LEMMA BesideKeeps ==
  ASSUME NEW d, NEW e, NEW f, NEW s, Beside(d, e, s), Keeps(e, f)
  PROVE  Beside(d, f, s)
  BY DEF Beside, Keeps, Plugged

(* The new monitor gets a workspace that did not exist.                     *)
LEMMA SetupDefaultWSKeeps ==
  ASSUME Ids = Nat \ {0}, NEW d, Core(d), NEW s \in Screens, s \notin Plugged(d),
         NEW e, e = SetupDefaultWS([d EXCEPT !.monitors = Append(@, s)], s)
  PROVE  Beside(d, e, s) /\ Moved(d, e, {}, s)
<1> DEFINE p == [d EXCEPT !.monitors = Append(@, s)]
           n == FreeId(p)
           c == Create(p, n, s)
<1>1. /\ d \in Desk /\ d.monitors \in Seq(Screens) /\ ToSet(d.spaces) \subseteq Spaces
      /\ Plugged(d) \subseteq Screens /\ s # None /\ None \notin Spaces
      /\ d.spaces \in Seq(Spaces) /\ d.visible \subseteq Spaces
  BY DeskFields, Distinct DEF Core
<1>2. /\ Append(d.monitors, s) \in Seq(Screens)
      /\ ToSet(Append(d.monitors, s)) = ToSet(d.monitors) \union {s}
  BY <1>1, AppendFacts
<1>3. p \in Desk BY <1>1, <1>2 DEF Desk
<1>4. /\ p.monitors = Append(d.monitors, s)
      /\ p.focus = d.focus /\ p.active = d.active /\ p.special = d.special
      /\ p.spaces = d.spaces /\ p.home = d.home /\ p.last = d.last
      /\ p.visible = d.visible /\ p.seen = d.seen /\ p.at = d.at /\ p.on = d.on
      /\ p.full = d.full /\ p.hasFull = d.hasFull
  BY <1>1 DEF Desk
<1>5. e = ChangeWorkspace(c, s, n) BY DEF SetupDefaultWS
<1> HIDE DEF p
<1>6. n \in Ids /\ n \in Spaces /\ n # None /\ ~ Exists(d, n)
  BY <1>1, <1>4, FreeIdFacts, Distinct DEF Exists
<1> HIDE DEF n
<1>7. /\ c \in Desk
      /\ c.monitors = p.monitors /\ c.focus = p.focus /\ c.active = p.active
      /\ c.special = p.special /\ c.last = p.last /\ c.visible = p.visible
      /\ c.seen = p.seen /\ c.at = p.at /\ c.on = p.on
      /\ c.full = p.full /\ c.hasFull = p.hasFull
      /\ ToSet(c.spaces) = ToSet(p.spaces) \union {n}
      /\ \A v \in Spaces : c.home[v] = IF v = n THEN s ELSE p.home[v]
  BY <1>3, <1>6, CreateFields
<1> HIDE DEF c
<1>8. Placed(d) /\ Housed(d) /\ d.active[s] = None /\ d.special[s] = None
  BY DEF Core, Placed
<1>9. c.active[s] # n BY <1>4, <1>6, <1>7, <1>8
<1>10. /\ e \in Desk
       /\ e.monitors = c.monitors /\ e.focus = c.focus
       /\ e.special = c.special /\ e.last = c.last /\ e.spaces = c.spaces
       /\ e.home = c.home
       /\ e.seen = c.seen /\ e.at = c.at /\ e.on = c.on
       /\ e.full = c.full /\ e.hasFull = c.hasFull
       /\ \A t \in Screens : e.active[t] = IF t = s THEN n ELSE c.active[t]
       /\ e.visible = (c.visible \ {c.active[s]}) \union {n}
  <2>1. c \in Desk /\ n \in Ids /\ e = ChangeWorkspace(c, s, n) BY <1>5, <1>6, <1>7
  <2>2. c.active[s] # n => e.visible = (c.visible \ {c.active[s]}) \union {n}
    BY <2>1, ChangeWorkspaceFields
  <2>3. \A t \in Screens : e.active[t] = IF t = s THEN n ELSE c.active[t]
    BY <2>1, ChangeWorkspaceFields
  <2>4. /\ e \in Desk
        /\ e.monitors = c.monitors /\ e.focus = c.focus
        /\ e.special = c.special /\ e.last = c.last /\ e.spaces = c.spaces
        /\ e.home = c.home
        /\ e.seen = c.seen /\ e.at = c.at /\ e.on = c.on
        /\ e.full = c.full /\ e.hasFull = c.hasFull
    BY <2>1, ChangeWorkspaceFields
  <2> QED BY <2>2, <2>3, <2>4, <1>9
<1>11. /\ e.focus = d.focus /\ e.special = d.special /\ e.last = d.last
       /\ e.seen = d.seen /\ e.at = d.at /\ e.on = d.on
       /\ e.full = d.full /\ e.hasFull = d.hasFull
       /\ Plugged(e) = Plugged(d) \union {s}
       /\ \A v : Exists(e, v) <=> Exists(d, v) \/ v = n
       /\ \A v : Exists(d, v) => e.home[v] = d.home[v]
       /\ e.home[n] = s
       /\ \A t \in Screens : e.active[t] = IF t = s THEN n ELSE d.active[t]
       /\ e.visible = d.visible \union {n}
  <2>1. /\ e.focus = d.focus /\ e.special = d.special /\ e.last = d.last
        /\ e.seen = d.seen /\ e.at = d.at /\ e.on = d.on
        /\ e.full = d.full /\ e.hasFull = d.hasFull
    BY <1>4, <1>7, <1>10
  <2>2. Plugged(e) = Plugged(d) \union {s}
    BY <1>2, <1>4, <1>7, <1>10 DEF Plugged
  <2>3. ToSet(e.spaces) = ToSet(d.spaces) \union {n}
    BY <1>4, <1>7, <1>10
  <2>4. \A v \in Spaces : e.home[v] = IF v = n THEN s ELSE d.home[v]
    BY <1>4, <1>7, <1>10
  <2>5. \A t \in Screens : e.active[t] = IF t = s THEN n ELSE d.active[t]
    <3>1. c.active = d.active BY <1>4, <1>7
    <3> QED BY <3>1, <1>10
  <2>6. e.visible = d.visible \union {n}
    <3>1. None \notin d.visible BY <1>1
    <3>2. c.active[s] = None /\ c.visible = d.visible BY <1>4, <1>7, <1>8
    <3> QED BY <3>1, <3>2, <1>10
  <2>7. \A v : Exists(d, v) => v \in Spaces /\ v # n BY <1>1, <1>6 DEF Exists
  <2> QED BY <2>1, <2>2, <2>3, <2>4, <2>5, <2>6, <2>7, <1>6 DEF Exists
<1>12. \A t \in Plugged(e) : /\ e.active[t] \in Ids
                             /\ Exists(e, e.active[t])
                             /\ e.home[e.active[t]] = t
  <2> TAKE t \in Plugged(e)
  <2>1. CASE t = s BY <2>1, <1>6, <1>11
  <2>2. CASE t # s
    <3>1. t \in Plugged(d) /\ t \in Screens BY <2>2, <1>1, <1>11
    <3>2. d.active[t] \in Ids /\ Exists(d, d.active[t]) /\ d.home[d.active[t]] = t
      BY <3>1, <1>8 DEF Placed
    <3>3. e.active[t] = d.active[t] BY <1>11, <2>2, <3>1
    <3>4. Exists(e, d.active[t]) /\ e.home[d.active[t]] = d.home[d.active[t]]
      BY <1>11, <3>2
    <3> QED BY <3>2, <3>3, <3>4
  <2> QED BY <2>1, <2>2
<1>13. \A v \in Ids : v \in e.visible <=> \E t \in Plugged(e) : e.active[t] = v
  <2> TAKE v \in Ids
  <2>1. v \in d.visible <=> \E t \in Plugged(d) : d.active[t] = v BY <1>8 DEF Placed
  <2>2. e.active[s] = n /\ \A t \in Plugged(d) : e.active[t] = d.active[t]
    BY <1>1, <1>11
  <2> QED BY <2>1, <2>2, <1>11
<1>14. \A t \in Screens \ Plugged(e) : e.active[t] = None /\ e.special[t] = None
  BY <1>8, <1>11 DEF Placed
<1>15. \A v \in ToSet(e.spaces) : e.home[v] \in Plugged(e) \union {None}
  BY <1>8, <1>11 DEF Placed, Exists
<1>16. \A t \in Screens : e.special[t] # None => Exists(e, e.special[t])
  BY <1>8, <1>11 DEF Placed
<1>17. e.focus \in Plugged(e) BY <1>8, <1>11 DEF Placed
<1>18. Placed(e) BY <1>12, <1>13, <1>14, <1>15, <1>16, <1>17 DEF Placed
<1>19. Housed(e)
  <2>1. ASSUME NEW x \in Windows, e.at[x] \in Ids PROVE e.on[x] = e.home[e.at[x]]
    <3>1. d.at[x] \in Ids /\ d.at[x] # None BY <2>1, <1>11, Distinct
    <3>2. Exists(d, d.at[x]) /\ d.on[x] = d.home[d.at[x]]
      BY <3>1, <1>8 DEF Housed
    <3>3. e.at = d.at /\ e.on = d.on BY <1>11
    <3>4. e.home[d.at[x]] = d.home[d.at[x]] BY <1>11, <3>2
    <3> QED BY <3>2, <3>3, <3>4
  <2> QED BY <1>8, <1>11, <2>1 DEF Housed
<1>20. Owned(d) => Owned(e) BY <1>1, <1>11 DEF Owned, Exists
<1>21. Moved(d, e, {}, s) BY <1>6, <1>11 DEF Moved
<1> QED BY <1>10, <1>11, <1>18, <1>19, <1>20, <1>21, MarkedSame DEF Core, Beside

(* m_lastMonitor alone changes.                                             *)
LEMMA LastKeeps ==
  ASSUME NEW d, Core(d), NEW la \in [Spaces -> Screens \union {None}],
         NEW e, e = [d EXCEPT !.last = la]
  PROVE  /\ Keeps(d, e)
         /\ e.active = d.active /\ e.spaces = d.spaces /\ e.home = d.home
         /\ e.seen = d.seen /\ e.at = d.at /\ e.focus = d.focus
<1>1. d \in Desk BY DEF Core
<1>2. /\ e \in Desk /\ e.focus = d.focus /\ e.monitors = d.monitors
      /\ e.active = d.active /\ e.special = d.special
      /\ e.spaces = d.spaces /\ e.home = d.home /\ e.seen = d.seen
      /\ e.at = d.at /\ e.on = d.on /\ e.full = d.full
      /\ e.hasFull = d.hasFull /\ e.visible = d.visible
  BY <1>1 DEF Desk
<1>3. Plugged(e) = Plugged(d) /\ \A v : Exists(e, v) <=> Exists(d, v)
  BY <1>2 DEF Plugged, Exists
<1>4. Placed(e) /\ Housed(e) BY <1>2, <1>3 DEF Core, Placed, Housed
<1> QED BY <1>2, <1>4, MarkedSame DEF Keeps, Core, Owned

(* The workspaces that were moved away from s are on it again.              *)
LEMMA MoveBackKeeps ==
  ASSUME Ids = Nat \ {0}, NEW d, Core(d), NEW s \in Plugged(d),
         NEW e, e = MoveBack(d, s)
  PROVE  /\ Keeps(d, e) /\ e.at = d.at /\ e.seen = d.seen
         /\ \A v : Exists(d, v) /\ d.last[v] = s => Exists(e, v) /\ e.home[v] = s
<1> DEFINE S == {w \in Spaces : d.last[w] = s \/ Len(d.monitors) = 1}
           back == Those(d.spaces, S)
           m == MoveAll(d, back, s)
<1>1. /\ d \in Desk /\ ToSet(d.spaces) \subseteq Spaces /\ d.spaces \in Seq(Spaces)
  BY DeskFields DEF Core
<1>2. /\ back \in Seq(Spaces) /\ ToSet(back) \subseteq ToSet(d.spaces)
      /\ \A v : Exists(d, v) /\ d.last[v] = s => v \in ToSet(back)
  BY <1>1, ThoseFacts DEF Exists
<1> DEFINE la == [w \in Spaces |-> IF w \in ToSet(back) THEN None ELSE m.last[w]]
<1>3. e = [m EXCEPT !.last = la] BY DEF MoveBack
<1> HIDE DEF back
<1>4. Keeps(d, m) /\ Moved(d, m, ToSet(back), s) BY <1>2, MoveAllKeeps
<1> HIDE DEF m
<1>5. la \in [Spaces -> Screens \union {None}]
  <2>1. m \in Desk BY <1>4 DEF Keeps, Core
  <2> QED BY <2>1, DeskFields
<1> HIDE DEF la
<1>6. /\ Keeps(m, e) /\ e.spaces = m.spaces /\ e.home = m.home
      /\ e.seen = m.seen /\ e.at = m.at
  BY <1>3, <1>4, <1>5, LastKeeps DEF Keeps
<1> QED BY <1>2, <1>4, <1>6, KeepsOn DEF Moved, Exists

(* The workspace the monitor showed when it was unplugged is shown on it    *)
(* again.                                                                   *)
LEMMA RestoreSeenKeeps ==
  ASSUME Ids = Nat \ {0}, NEW d, Core(d), NEW s \in Plugged(d),
         NEW e, e = RestoreSeen(d, s)
  PROVE  /\ Keeps(d, e) /\ e.at = d.at
         /\ \A v : Exists(d, v) /\ d.home[v] = s => Exists(e, v) /\ e.home[v] = s
         /\ \A v : Exists(d, v) /\ d.seen[s] = v => e.active[s] = v
<1> DEFINE w == d.seen[s]
           m == MoveWorkspace(d, w, s)
<1>1. /\ d \in Desk /\ s \in Screens /\ w \in Ids \union {None}
      /\ ToSet(d.spaces) \subseteq Spaces
  BY DeskFields DEF Core
<1>2. CASE w = None \/ ~ Exists(d, w)
  <2>1. e = d BY <1>2 DEF RestoreSeen
  <2>2. \A v : Exists(d, v) => v # w BY <1>1, <1>2, Distinct DEF Exists
  <2> QED BY <2>1, <2>2 DEF Keeps
<1>3. CASE w # None /\ Exists(d, w)
  <2>1. e = ChangeWorkspace(m, s, w) /\ w \in Ids BY <1>1, <1>3 DEF RestoreSeen
  <2>2. Keeps(d, m) /\ Moved(d, m, {w}, s) BY <1>3, MoveWorkspaceKeeps
  <2> HIDE DEF m
  <2>3. Core(m) /\ s \in Plugged(m) /\ Exists(m, w) /\ m.home[w] = s
    BY <1>3, <2>2 DEF Keeps, Plugged, Moved
  <2> HIDE DEF w
  <2>4. /\ Keeps(m, e) /\ Moved(m, e, {}, s)
        /\ \A t \in Screens : e.active[t] = IF t = s THEN w ELSE m.active[t]
    BY <2>1, <2>3, ChangeWorkspaceMoves
  <2>5. Keeps(d, e) /\ Moved(d, e, {w}, s) BY <2>2, <2>4, KeepsOn, MovedNone
  <2> QED BY <1>1, <2>4, <2>5 DEF Moved, w
<1> QED BY <1>2, <1>3

(* What a monitor finds when it is plugged in.                              *)
LEMMA OnConnectKeeps ==
  ASSUME Ids = Nat \ {0}, NEW d, Core(d), NEW s \in Screens, s \notin Plugged(d),
         NEW e, e = OnConnect(d, s)
  PROVE  /\ Beside(d, e, s) /\ e.at = d.at
         /\ \A x \in Windows : d.at[x] # None =>
              /\ d.at[x] = d.seen[s] => e.active[s] = d.at[x]
              /\ d.last[d.at[x]] = s => e.home[d.at[x]] = s
<1> DEFINE a == SetupDefaultWS([d EXCEPT !.monitors = Append(@, s)], s)
           b == MoveBack(a, s)
           c == Reap(b)
           f == RestoreSeen(c, s)
<1>1. e = Reap(f) BY DEF OnConnect
<1>2. Beside(d, a, s) /\ Moved(d, a, {}, s) BY SetupDefaultWSKeeps
<1> HIDE DEF a
<1>3. Core(a) /\ s \in Plugged(a) BY <1>2 DEF Beside
<1>4. /\ Keeps(a, b) /\ b.at = a.at /\ b.seen = a.seen
      /\ \A v : Exists(a, v) /\ a.last[v] = s => Exists(b, v) /\ b.home[v] = s
  BY <1>3, MoveBackKeeps
<1> HIDE DEF b
<1>5. Core(b) /\ b \in Desk /\ s \in Plugged(b) BY <1>3, <1>4 DEF Keeps, Core, Plugged
<1>6. Keeps(b, c) /\ c.at = b.at /\ c.seen = b.seen
      /\ \A w \in Spaces : Alive(b, w) => c.home[w] = b.home[w]
  BY <1>5, ReapKeeps, ReapFields
<1> HIDE DEF c
<1>7. Core(c) /\ s \in Plugged(c) BY <1>5, <1>6 DEF Keeps, Plugged
<1>8. /\ Keeps(c, f) /\ f.at = c.at
      /\ \A v : Exists(c, v) /\ c.home[v] = s => Exists(f, v) /\ f.home[v] = s
      /\ \A v : Exists(c, v) /\ c.seen[s] = v => f.active[s] = v
  BY <1>7, RestoreSeenKeeps
<1> HIDE DEF f
<1>9. Core(f) /\ f \in Desk BY <1>8 DEF Keeps, Core
<1>10. Keeps(f, e) /\ e.at = f.at /\ e.active = f.active
       /\ \A w \in Spaces : Alive(f, w) => e.home[w] = f.home[w]
  BY <1>1, <1>9, ReapKeeps, ReapFields
<1>11. Beside(d, e, s) BY <1>2, <1>4, <1>6, <1>8, <1>10, BesideKeeps
<1>12. a.at = d.at /\ a.seen = d.seen /\ a.last = d.last BY <1>2 DEF Moved
<1>13. ASSUME NEW x \in Windows, d.at[x] # None
       PROVE  /\ d.at[x] = d.seen[s] => e.active[s] = d.at[x]
              /\ d.last[d.at[x]] = s => e.home[d.at[x]] = s
  <2> DEFINE w == d.at[x]
  <2>1. w \in Spaces BY <1>13, DeskFields DEF Core
  <2>2. a.at[x] = w /\ b.at[x] = w /\ c.at[x] = w /\ f.at[x] = w
    BY <1>4, <1>6, <1>8, <1>12
  <2>3. Exists(a, w) /\ Exists(c, w)
    BY <1>3, <1>7, <1>13, <2>2 DEF Core, Housed
  <2>4. Alive(b, w) /\ Alive(f, w) BY <2>2 DEF Alive, On
  <2> HIDE DEF w
  <2>5. w = d.seen[s] => e.active[s] = w
    BY <1>4, <1>6, <1>8, <1>10, <1>12, <2>3
  <2>6. d.last[w] = s => e.home[w] = s
    BY <1>4, <1>6, <1>8, <1>10, <1>12, <2>1, <2>3, <2>4
  <2> QED BY <2>5, <2>6 DEF w
<1> QED BY <1>10, <1>11, <1>12, <1>13, <1>4, <1>6, <1>8

-----------------------------------------------------------------------------
(* A monitor is unplugged                                                   *)

(* m_seenMonitorWorkspaceMap alone changes.                                 *)
LEMMA SeenKeeps ==
  ASSUME NEW d, Core(d), NEW s \in Plugged(d),
         NEW e, e = [d EXCEPT !.seen[s] = d.active[s]]
  PROVE  /\ Keeps(d, e)
         /\ e.monitors = d.monitors /\ e.spaces = d.spaces /\ e.home = d.home
         /\ e.at = d.at
<1>1. d \in Desk /\ s \in Screens /\ d.active[s] \in Ids
  BY DeskFields DEF Core, Placed
<1> DEFINE se == [d.seen EXCEPT ![s] = d.active[s]]
<1>2. se \in [Screens -> Ids \union {None}] BY <1>1, DeskFields
<1>3. e = [d EXCEPT !.seen = se] OBVIOUS
<1> HIDE DEF se
<1>4. /\ e \in Desk /\ e.focus = d.focus /\ e.monitors = d.monitors
      /\ e.active = d.active /\ e.special = d.special
      /\ e.spaces = d.spaces /\ e.home = d.home
      /\ e.at = d.at /\ e.on = d.on /\ e.full = d.full
      /\ e.hasFull = d.hasFull /\ e.visible = d.visible
  BY <1>1, <1>2, <1>3 DEF Desk
<1>5. Plugged(e) = Plugged(d) /\ \A v : Exists(e, v) <=> Exists(d, v)
  BY <1>4 DEF Plugged, Exists
<1>6. Placed(e) /\ Housed(e) BY <1>4, <1>5 DEF Core, Placed, Housed
<1> QED BY <1>4, <1>6, MarkedSame DEF Keeps, Core, Owned

(* Whatever s has, and whatever has no monitor, goes to backup.             *)
LEMMA EvacuateKeeps ==
  ASSUME Ids = Nat \ {0}, NEW d, Core(d), NEW s, NEW b \in Plugged(d),
         NEW e, e = Evacuate(d, s, b), s \in Plugged(d), b # s
  PROVE  /\ Keeps(d, e) /\ e.at = d.at
         /\ \A v : Exists(d, v) => Exists(e, v) /\ e.home[v] \notin {s, None}
         /\ \A v : Exists(e, v) => Exists(d, v) \/ v \in Ids
<1> DEFINE ws == Those(d.spaces, {w \in Spaces : d.home[w] \in {s, None}})
           la == [w \in Spaces |-> IF w \in ToSet(ws) THEN s ELSE d.last[w]]
           n == [d EXCEPT !.last = la]
<1>1. /\ d \in Desk /\ ToSet(d.spaces) \subseteq Spaces /\ d.spaces \in Seq(Spaces)
      /\ Plugged(d) \subseteq Screens /\ s \in Screens /\ b # None
  BY DeskFields, Distinct DEF Core
<1>2. /\ ws \in Seq(Spaces) /\ ToSet(ws) \subseteq ToSet(d.spaces)
      /\ \A v : Exists(d, v) => (v \in ToSet(ws) <=> d.home[v] \in {s, None})
  BY <1>1, ThoseFacts DEF Exists
<1>3. e = MoveAll(n, ws, b) BY DEF Evacuate
<1> HIDE DEF ws
<1>4. la \in [Spaces -> Screens \union {None}] BY <1>1, DeskFields
<1> HIDE DEF la
<1>5. Keeps(d, n) /\ n.spaces = d.spaces /\ n.home = d.home /\ n.at = d.at
  BY <1>4, LastKeeps
<1> HIDE DEF n
<1>6. Core(n) /\ b \in Plugged(n) /\ ToSet(ws) \subseteq ToSet(n.spaces)
  BY <1>2, <1>5 DEF Keeps, Plugged
<1>7. Keeps(n, e) /\ Moved(n, e, ToSet(ws), b) BY <1>2, <1>3, <1>6, MoveAllKeeps
<1>8. Keeps(d, e) BY <1>5, <1>7, KeepsOn
<1>9. ASSUME NEW v, Exists(d, v) PROVE Exists(e, v) /\ e.home[v] \notin {s, None}
  <2>1. Exists(n, v) /\ n.home[v] = d.home[v] BY <1>5, <1>9 DEF Exists
  <2>2. Exists(e, v) /\ e.home[v] = IF v \in ToSet(ws) THEN b ELSE d.home[v]
    BY <1>7, <2>1 DEF Moved
  <2> QED BY <2>2, <1>1, <1>2, <1>9
<1>10. \A v : Exists(e, v) => Exists(d, v) \/ v \in Ids
  BY <1>5, <1>7 DEF Moved, Exists
<1> QED BY <1>5, <1>7, <1>8, <1>9, <1>10 DEF Moved

(* What is left of the desk without the monitor s.                          *)
Without(d, s, b) ==
  [d EXCEPT
       !.visible  = @ \ {d.active[s]},
       !.active[s] = None, !.special[s] = None,
       !.focus    = IF @ = s THEN b ELSE @,
       !.monitors = Those(@, Screens \ {s}),
       !.home     = [w \in Spaces |-> IF @[w] = s THEN None ELSE @[w]],
       !.on       = [x \in Windows |-> IF @[x] = s THEN None ELSE @[x]]]

(* The fields of the desk that is left without s.                           *)
LEMMA WithoutFields ==
  ASSUME NEW d \in Desk, NEW s \in Screens, NEW b \in Screens,
         NEW e, e = Without(d, s, b)
  PROVE  /\ e \in Desk
         /\ e.spaces = d.spaces /\ e.at = d.at
         /\ e.full = d.full /\ e.hasFull = d.hasFull
         /\ Plugged(e) = Plugged(d) \ {s}
         /\ e.focus = IF d.focus = s THEN b ELSE d.focus
         /\ e.visible = d.visible \ {d.active[s]}
         /\ e.active[s] = None /\ e.special[s] = None
         /\ \A t \in Screens \ {s} : e.active[t] = d.active[t] /\ e.special[t] = d.special[t]
         /\ \A w \in Spaces : e.home[w] = IF d.home[w] = s THEN None ELSE d.home[w]
         /\ \A x \in Windows : e.on[x] = IF d.on[x] = s THEN None ELSE d.on[x]
<1> DEFINE vi == d.visible \ {d.active[s]}
           ac == [d.active EXCEPT ![s] = None]
           sp == [d.special EXCEPT ![s] = None]
           fo == IF d.focus = s THEN b ELSE d.focus
           mo == Those(d.monitors, Screens \ {s})
           ho == [w \in Spaces |-> IF d.home[w] = s THEN None ELSE d.home[w]]
           on == [x \in Windows |-> IF d.on[x] = s THEN None ELSE d.on[x]]
<1>1. e = [d EXCEPT !.visible = vi, !.active = ac, !.special = sp, !.focus = fo,
                    !.monitors = mo, !.home = ho, !.on = on]
  BY DEF Without, Desk
<1>2. vi = d.visible \ {d.active[s]} /\ vi \subseteq Spaces BY DeskFields
<1>3. /\ ac \in [Screens -> Ids \union {None}]
      /\ \A t \in Screens : ac[t] = IF t = s THEN None ELSE d.active[t]
  BY DeskFields
<1>4. /\ sp \in [Screens -> Specials \union {None}]
      /\ \A t \in Screens : sp[t] = IF t = s THEN None ELSE d.special[t]
  BY DeskFields
<1>5. fo \in Screens /\ fo = IF d.focus = s THEN b ELSE d.focus BY DeskFields
<1>6. mo \in Seq(Screens) /\ ToSet(mo) = ToSet(d.monitors) \ {s}
  <2>1. d.monitors \in Seq(Screens) /\ Plugged(d) \subseteq Screens BY DeskFields
  <2>2. mo \in Seq(Screens) /\ ToSet(mo) = ToSet(d.monitors) \intersect (Screens \ {s})
    BY <2>1, ThoseFacts
  <2> QED BY <2>1, <2>2 DEF Plugged
<1>7. /\ ho \in [Spaces -> Screens \union {None}]
      /\ \A w \in Spaces : ho[w] = IF d.home[w] = s THEN None ELSE d.home[w]
  BY DeskFields
<1>8. /\ on \in [Windows -> Screens \union {None}]
      /\ \A x \in Windows : on[x] = IF d.on[x] = s THEN None ELSE d.on[x]
  BY DeskFields
<1> HIDE DEF vi, ac, sp, fo, mo, ho, on
<1>9. e \in Desk
  <2>1. /\ vi \in SUBSET Spaces /\ ac \in [Screens -> Ids \union {None}]
        /\ sp \in [Screens -> Specials \union {None}]
        /\ fo \in Screens /\ mo \in Seq(Screens)
        /\ ho \in [Spaces -> Screens \union {None}]
        /\ on \in [Windows -> Screens \union {None}]
    BY <1>2, <1>3, <1>4, <1>5, <1>6, <1>7, <1>8
  <2> QED BY <1>1, <2>1 DEF Desk
<1>10. /\ e.spaces = d.spaces /\ e.at = d.at
       /\ e.full = d.full /\ e.hasFull = d.hasFull
       /\ e.visible = vi /\ e.active = ac /\ e.special = sp /\ e.focus = fo
       /\ e.monitors = mo /\ e.home = ho /\ e.on = on
  BY <1>1 DEF Desk
<1>11. Plugged(e) = Plugged(d) \ {s} BY <1>6, <1>10 DEF Plugged
<1> QED BY <1>2, <1>3, <1>4, <1>5, <1>7, <1>8, <1>9, <1>10, <1>11

(* Another monitor is left, and has the focus if s had it; what s had of    *)
(* workspaces and windows has none.                                         *)
LEMMA WithoutKeeps ==
  ASSUME NEW d, Core(d), NEW s \in Plugged(d), NEW b \in Plugged(d), b # s,
         NEW e, e = Without(d, s, b)
  PROVE  /\ Core(e) /\ Plugged(e) = Plugged(d) \ {s} /\ e.at = d.at
         /\ e.spaces = d.spaces
         /\ Marked(d) => Marked(e)
         /\ \A v : Exists(d, v) =>
              e.home[v] = IF d.home[v] = s THEN None ELSE d.home[v]
<1>1. /\ d \in Desk /\ Plugged(d) \subseteq Screens /\ s \in Screens /\ b \in Screens
      /\ ToSet(d.spaces) \subseteq Spaces /\ s # None
  BY DeskFields, Distinct DEF Core
<1>2. /\ e \in Desk
      /\ e.spaces = d.spaces /\ e.at = d.at
      /\ e.full = d.full /\ e.hasFull = d.hasFull
      /\ Plugged(e) = Plugged(d) \ {s}
      /\ e.focus = IF d.focus = s THEN b ELSE d.focus
      /\ e.visible = d.visible \ {d.active[s]}
      /\ e.active[s] = None /\ e.special[s] = None
      /\ \A t \in Screens \ {s} : e.active[t] = d.active[t] /\ e.special[t] = d.special[t]
      /\ \A w \in Spaces : e.home[w] = IF d.home[w] = s THEN None ELSE d.home[w]
      /\ \A x \in Windows : e.on[x] = IF d.on[x] = s THEN None ELSE d.on[x]
  <2>1. d \in Desk /\ s \in Screens /\ b \in Screens BY <1>1
  <2>2. /\ e \in Desk
        /\ e.spaces = d.spaces /\ e.at = d.at
        /\ e.full = d.full /\ e.hasFull = d.hasFull
        /\ Plugged(e) = Plugged(d) \ {s}
        /\ e.focus = IF d.focus = s THEN b ELSE d.focus
        /\ e.visible = d.visible \ {d.active[s]}
    BY <2>1, WithoutFields
  <2>3. /\ e.active[s] = None /\ e.special[s] = None
        /\ \A t \in Screens \ {s} : e.active[t] = d.active[t] /\ e.special[t] = d.special[t]
    BY <2>1, WithoutFields, Z3
  <2>4. \A w \in Spaces : e.home[w] = IF d.home[w] = s THEN None ELSE d.home[w]
    BY <2>1, WithoutFields
  <2>5. \A x \in Windows : e.on[x] = IF d.on[x] = s THEN None ELSE d.on[x]
    BY <2>1, WithoutFields
  <2> QED BY <2>2, <2>3, <2>4, <2>5
<1>3. \A v : Exists(d, v) =>
         e.home[v] = IF d.home[v] = s THEN None ELSE d.home[v]
  BY <1>1, <1>2 DEF Exists
<1>4. \A v : Exists(e, v) <=> Exists(d, v) BY <1>2 DEF Exists
<1>5. Placed(d) /\ Housed(d) BY DEF Core
<1>6. ASSUME NEW t \in Plugged(e)
      PROVE  /\ t \in Plugged(d) /\ t \in Screens /\ t # s
             /\ e.active[t] = d.active[t] /\ e.active[t] # d.active[s]
             /\ e.active[t] \in Ids /\ Exists(e, e.active[t])
             /\ e.home[e.active[t]] = t
  <2>1. t \in Plugged(d) /\ t \in Screens /\ t # s BY <1>1, <1>2
  <2>2. /\ d.active[t] \in Ids /\ Exists(d, d.active[t])
        /\ d.home[d.active[t]] = t /\ d.home[d.active[s]] = s
    BY <2>1, <1>5 DEF Placed
  <2>3. e.active[t] = d.active[t] BY <2>1, <1>2
  <2>4. e.home[d.active[t]] = t BY <2>1, <2>2, <1>3
  <2> QED BY <2>1, <2>2, <2>3, <2>4, <1>4
<1>7. \A v \in Ids : v \in e.visible <=> \E t \in Plugged(e) : e.active[t] = v
  <2> TAKE v \in Ids
  <2>1. v \in d.visible <=> \E t \in Plugged(d) : d.active[t] = v BY <1>5 DEF Placed
  <2>2. v \in e.visible <=> v \in d.visible /\ v # d.active[s] BY <1>2
  <2>3. ASSUME NEW t \in Plugged(d), d.active[t] = v, v # d.active[s]
        PROVE  t \in Plugged(e) /\ e.active[t] = v
    BY <2>3, <1>1, <1>2
  <2> QED BY <2>1, <2>2, <2>3, <1>6
<1>8. \A t \in Screens \ Plugged(e) : e.active[t] = None /\ e.special[t] = None
  <2> TAKE t \in Screens \ Plugged(e)
  <2>1. CASE t = s BY <2>1, <1>2
  <2>2. CASE t # s
    <3>1. t \in Screens \ Plugged(d) BY <2>2, <1>2
    <3>2. d.active[t] = None /\ d.special[t] = None BY <3>1, <1>5 DEF Placed
    <3> QED BY <3>2, <2>2, <1>2
  <2> QED BY <2>1, <2>2
<1>9. \A t \in Screens : e.special[t] # None => Exists(e, e.special[t])
  <2> TAKE t \in Screens
  <2>1. e.special[t] = None \/ e.special[t] = d.special[t] BY <1>2
  <2>2. d.special[t] # None => Exists(d, d.special[t]) BY <1>5 DEF Placed
  <2> QED BY <2>1, <2>2, <1>4
<1>10. \A v \in ToSet(e.spaces) : e.home[v] \in Plugged(e) \union {None}
  <2> TAKE v \in ToSet(e.spaces)
  <2>1. Exists(d, v) /\ d.home[v] \in Plugged(d) \union {None}
    BY <1>2, <1>5 DEF Placed, Exists
  <2>2. e.home[v] = IF d.home[v] = s THEN None ELSE d.home[v] BY <2>1, <1>3
  <2> QED BY <2>1, <2>2, <1>2
<1>11. e.focus \in Plugged(e)
  <2>1. d.focus \in Plugged(d) BY <1>5 DEF Placed
  <2> QED BY <2>1, <1>2
<1>12. Placed(e) BY <1>6, <1>7, <1>8, <1>9, <1>10, <1>11 DEF Placed
<1>13. Housed(e)
  <2>1. ASSUME NEW x \in Windows
        PROVE  /\ e.at[x] # None => Exists(e, e.at[x])
               /\ e.on[x] \in Plugged(e) \union {None}
    BY <2>1, <1>2, <1>4, <1>5 DEF Housed
  <2>2. ASSUME NEW x \in Windows, e.at[x] \in Ids PROVE e.on[x] = e.home[e.at[x]]
    <3>1. d.at[x] \in Ids /\ d.at[x] # None /\ e.at = d.at BY <2>2, <1>2, Distinct
    <3>2. Exists(d, d.at[x]) /\ d.on[x] = d.home[d.at[x]] BY <3>1, <1>5 DEF Housed
    <3>3. e.home[d.at[x]] = IF d.home[d.at[x]] = s THEN None ELSE d.home[d.at[x]]
      BY <3>2, <1>3
    <3>4. e.on[x] = IF d.on[x] = s THEN None ELSE d.on[x] BY <1>2
    <3> QED BY <3>1, <3>2, <3>3, <3>4
  <2> QED BY <2>1, <2>2 DEF Housed
<1>14. Marked(d) => Marked(e) BY <1>2, MarkedSame
<1> QED BY <1>2, <1>3, <1>12, <1>13, <1>14 DEF Core

(* Once the workspaces that nothing holds are gone, those that are left     *)
(* have a monitor, if those of s, and those without one, were moved first.  *)
LEMMA EvacuatedOwned ==
  ASSUME NEW d, Core(d), NEW l, Core(l), NEW s, l.at = d.at,
         \A v : Exists(d, v) => l.home[v] \notin {s, None},
         \A v : Exists(l, v) => Exists(d, v) \/ v \in Ids,
         NEW r, Core(r), r.at = l.at, r.spaces = l.spaces,
         \A v : Exists(l, v) => r.home[v] = IF l.home[v] = s THEN None ELSE l.home[v],
         \A v : Exists(d, v) => Exists(l, v),
         NEW e, e = Reap(r)
  PROVE  Owned(e)
<1>1. r \in Desk /\ ToSet(r.spaces) \subseteq Spaces /\ None \notin Screens
      /\ None \notin Spaces /\ Plugged(r) \subseteq Screens
  BY DeskFields, Distinct DEF Core
<1>2. /\ \A w : w \in ToSet(e.spaces) <=> w \in ToSet(r.spaces) /\ Alive(r, w)
      /\ \A w \in Spaces : e.home[w] = IF Alive(r, w) THEN r.home[w] ELSE None
  BY <1>1, ReapFields
<1> SUFFICES ASSUME NEW w \in ToSet(e.spaces) PROVE e.home[w] # None BY DEF Owned
<1>3. w \in Spaces /\ w # None /\ Alive(r, w) /\ e.home[w] = r.home[w] /\ Exists(l, w)
  BY <1>1, <1>2 DEF Exists
<1>4. CASE Exists(d, w) BY <1>3, <1>4
<1>5. CASE ~ Exists(d, w)
  <2>1. w \in Ids /\ w \notin Specials BY <1>3, <1>5, Distinct
  <2>2. On(r, w) = {}
    <3>1. \A x \in Windows : d.at[x] # w BY <1>3, <1>5 DEF Core, Housed
    <3> QED BY <3>1 DEF On
  <2>3. \A t \in Screens : r.special[t] # w BY <1>1, <1>3, <2>1, DeskFields
  <2>4. PICK t \in Screens : r.active[t] = w BY <1>3, <2>2, <2>3 DEF Alive
  <2>5. t \in Plugged(r) /\ r.home[w] = t BY <1>3, <2>4 DEF Core, Placed
  <2> QED BY <1>1, <1>3, <2>5
<1> QED BY <1>4, <1>5

(* onDisconnect of any monitor.  With another one left, every workspace has *)
(* a monitor afterwards; else the headless output is what is left.          *)
LEMMA OnDisconnectKeeps ==
  ASSUME Ids = Nat \ {0}, NEW d, Core(d), NEW s \in Plugged(d),
         s # Fallback \/ Plugged(d) # {s},
         NEW e, e = OnDisconnect(d, s)
  PROVE  /\ Core(e) /\ e.at = d.at /\ (Marked(d) => Marked(e))
         /\ Plugged(d) # {s} => Plugged(e) = Plugged(d) \ {s} /\ Owned(e)
         /\ Plugged(d) = {s} => Plugged(e) = {Fallback}
<1> DEFINE others  == Those(d.monitors, Screens \ {s})
           backup  == IF others = <<>> THEN Fallback ELSE Head(others)
           noted   == [d EXCEPT !.seen[s] = d.active[s]]
           left    == IF others = <<>> THEN EnterUnsafeState(noted)
                      ELSE Evacuate(noted, s, backup)
           r       == Without(left, s, backup)
<1>1. /\ d \in Desk /\ d.monitors \in Seq(Screens) /\ Plugged(d) \subseteq Screens
      /\ Fallback \in Screens
  BY DeskFields DEF Core, Screens
<1>2. e = Reap(r) BY DEF OnDisconnect, Without
<1>3. others \in Seq(Screens) /\ ToSet(others) = Plugged(d) \ {s}
  BY <1>1, ThoseFacts DEF Plugged
<1>4. Keeps(d, noted) /\ noted.spaces = d.spaces /\ noted.home = d.home
      /\ noted.at = d.at
  BY SeenKeeps
<1> HIDE DEF others, noted
<1>5. Core(noted) /\ Plugged(noted) = Plugged(d) BY <1>4 DEF Keeps, Plugged
<1>6. CASE others = <<>>
  <2> DEFINE u == OnConnect(noted, Fallback)
  <2>0. Plugged(d) \ {s} = {} BY <1>3, <1>6, SeqFacts
  <2>1. Plugged(d) = {s} /\ s # Fallback /\ backup = Fallback
    BY <2>0, <1>6
  <2>2. Beside(noted, u, Fallback) /\ u.at = noted.at
    BY <1>1, <1>5, <2>1, OnConnectKeeps
  <2>3. left = [u EXCEPT !.focus = Fallback] BY <1>6 DEF EnterUnsafeState
  <2> HIDE DEF u, left, backup
  <2>4. Core(u) /\ Plugged(u) = {s, Fallback} /\ (Marked(d) => Marked(u))
    BY <1>4, <1>5, <2>1, <2>2 DEF Beside, Keeps
  <2>5. Keeps(u, left) /\ left.at = u.at BY <2>3, <2>4, FocusKeeps
  <2>6. Core(left) /\ Plugged(left) = {s, Fallback} /\ (Marked(d) => Marked(left))
    BY <2>4, <2>5 DEF Keeps, Plugged
  <2>7. /\ Core(r) /\ Plugged(r) = {Fallback} /\ r.at = left.at
        /\ Marked(d) => Marked(r)
    BY <2>1, <2>6, WithoutKeeps
  <2> HIDE DEF r
  <2>8. Keeps(r, e) /\ e.at = r.at
    <3>1. r \in Desk BY <2>7 DEF Core
    <3> QED BY <3>1, <1>2, <2>7, ReapKeeps, ReapFields
  <2>9. /\ Core(e) /\ Plugged(e) = {Fallback} /\ (Marked(d) => Marked(e))
    BY <2>7, <2>8 DEF Keeps, Plugged
  <2> QED BY <1>4, <2>1, <2>2, <2>5, <2>7, <2>8, <2>9
<1>7. CASE others # <<>>
  <2>1. backup \in Plugged(d) \ {s} BY <1>3, <1>7, SeqFacts
  <2>2. left = Evacuate(noted, s, backup) BY <1>7
  <2> HIDE DEF left, backup
  <2>3. /\ Keeps(noted, left) /\ left.at = noted.at
        /\ \A v : Exists(noted, v) =>
             Exists(left, v) /\ left.home[v] \notin {s, None}
        /\ \A v : Exists(left, v) => Exists(noted, v) \/ v \in Ids
    BY <1>5, <2>1, <2>2, EvacuateKeeps
  <2>4. /\ Core(left) /\ Plugged(left) = Plugged(d)
        /\ Marked(d) => Marked(left)
    BY <1>4, <1>5, <2>3 DEF Keeps, Plugged
  <2>5. /\ Core(r) /\ Plugged(r) = Plugged(d) \ {s} /\ r.at = left.at
        /\ r.spaces = left.spaces
        /\ Marked(d) => Marked(r)
        /\ \A v : Exists(left, v) =>
             r.home[v] = IF left.home[v] = s THEN None ELSE left.home[v]
    BY <2>1, <2>4, WithoutKeeps
  <2> HIDE DEF r
  <2>6. Keeps(r, e) /\ e.at = r.at
    <3>1. r \in Desk BY <2>5 DEF Core
    <3> QED BY <3>1, <1>2, <2>5, ReapKeeps, ReapFields
  <2>7. \A v : Exists(noted, v) => Exists(left, v) BY <2>3
  <2>8. Owned(e)
    <3>1. \A v : Exists(noted, v) => left.home[v] \notin {s, None} BY <2>3
    <3> QED BY <3>1, <1>2, <1>5, <2>3, <2>4, <2>5, <2>7, EvacuatedOwned
  <2>9. Core(e) /\ Plugged(e) = Plugged(d) \ {s} /\ (Marked(d) => Marked(e))
    BY <2>5, <2>6 DEF Keeps, Plugged
  <2>10. Plugged(d) # {s} BY <2>1
  <2> QED BY <1>4, <2>3, <2>5, <2>6, <2>8, <2>9, <2>10
<1> QED BY <1>6, <1>7

(* A monitor is plugged in, also as the first one in the unsafe state;      *)
(* beside others, it has its windows back.                                  *)
LEMMA ConnectInv ==
  ASSUME Ids = Nat \ {0}, Inv(desk), NEW m \in Monitors, Connect(m)
  PROVE  /\ Inv(desk') /\ Plugged(desk') \subseteq Plugged(desk) \union {m}
         /\ Safe(desk) => \A x \in Mapped(desk) :
              /\ desk.at[x] = desk.seen[m] => desk'.active[m] = desk'.at[x]
              /\ desk.last[desk.at[x]] = m => desk'.home[desk'.at[x]] = m
<1> DEFINE d == OnConnect(desk, m)
<1>1. Core(desk) /\ Marked(desk) /\ (Safe(desk) => Owned(desk))
      /\ (~ Safe(desk) => Plugged(desk) = {Fallback})
  BY DEF Inv
<1>2. m \notin Plugged(desk) /\ m \in Screens /\ m # Fallback
  BY ConstantsAssumption DEF Connect, Screens
<1>3. IF Safe(desk) THEN desk' = d \/ desk' = [d EXCEPT !.focus = m]
                    ELSE desk' = OnDisconnect(d, Fallback)
  BY DEF Connect, LeaveUnsafeState
<1>4. /\ Beside(desk, d, m) /\ d.at = desk.at
      /\ \A x \in Windows : desk.at[x] # None =>
           /\ desk.at[x] = desk.seen[m] => d.active[m] = desk.at[x]
           /\ desk.last[desk.at[x]] = m => d.home[desk.at[x]] = m
  BY <1>1, <1>2, OnConnectKeeps
<1> HIDE DEF d
<1>5. Core(d) /\ Marked(d) /\ Plugged(d) = Plugged(desk) \union {m}
  BY <1>1, <1>4 DEF Beside
<1>6. CASE Safe(desk)
  <2>1. Keeps(d, desk') /\ desk'.active = d.active /\ desk'.home = d.home
        /\ desk'.at = d.at
    <3>1. CASE desk' = d BY <3>1, <1>5 DEF Keeps
    <3>2. CASE desk' = [d EXCEPT !.focus = m] BY <3>2, <1>5, FocusKeeps
    <3> QED BY <3>1, <3>2, <1>3, <1>6
  <2>2. Inv(d)
    <3>1. Owned(d) /\ Safe(d) BY <1>1, <1>2, <1>4, <1>5, <1>6 DEF Beside, Safe
    <3> QED BY <3>1, <1>5 DEF Inv
  <2>3. Inv(desk') BY <2>1, <2>2, KeepsInv
  <2>4. Plugged(desk') = Plugged(d) BY <2>1 DEF Keeps, Plugged
  <2> QED BY <1>4, <1>5, <2>1, <2>3, <2>4 DEF Mapped
<1>7. CASE ~ Safe(desk)
  <2>1. Plugged(d) = {Fallback, m} BY <1>1, <1>5, <1>7
  <2>2. desk' = OnDisconnect(d, Fallback) BY <1>3, <1>7
  <2>3. /\ Core(desk') /\ Marked(desk') /\ Plugged(desk') = {m} /\ Owned(desk')
    <3>1. Fallback \in Plugged(d) /\ Plugged(d) # {Fallback}
          /\ Plugged(d) \ {Fallback} = {m}
      BY <2>1, <1>2
    <3> QED BY <3>1, <2>2, <1>5, OnDisconnectKeeps
  <2>4. Inv(desk') BY <2>3, <1>2 DEF Inv, Safe
  <2> QED BY <2>3, <2>4, <1>7
<1> QED BY <1>6, <1>7

(* A monitor is unplugged, also as the last one.                            *)
LEMMA DisconnectInv ==
  ASSUME Ids = Nat \ {0}, Inv(desk), NEW m \in Monitors, Disconnect(m)
  PROVE  Inv(desk') /\ Plugged(desk') \subseteq Plugged(desk) \union {Fallback}
<1>1. Core(desk) /\ Marked(desk) /\ (~ Safe(desk) => Plugged(desk) = {Fallback})
  BY DEF Inv
<1>2. m \in Plugged(desk) /\ m # Fallback /\ desk' = OnDisconnect(desk, m)
  BY ConstantsAssumption DEF Disconnect
<1>3. /\ Core(desk') /\ Marked(desk')
      /\ Plugged(desk) # {m} => Plugged(desk') = Plugged(desk) \ {m} /\ Owned(desk')
      /\ Plugged(desk) = {m} => Plugged(desk') = {Fallback}
  BY <1>1, <1>2, OnDisconnectKeeps
<1>4. Safe(desk) BY <1>1, <1>2
<1> QED BY <1>2, <1>3, <1>4 DEF Inv, Safe

-----------------------------------------------------------------------------
(* The specification                                                        *)

(* The invariant of the specification.                                      *)
IInv == Inv(desk) /\ unplugs \in 0..MaxUnplugs

(* It holds at first, with one monitor that shows workspace 1.              *)
LEMMA InitInv == Init => IInv
<1> SUFFICES ASSUME Init PROVE IInv OBVIOUS
<1>1. PICK m \in Monitors :
  desk = [ monitors |-> <<m>>, focus |-> m,
           active  |-> [s \in Screens |-> IF s = m THEN 1 ELSE None],
           special |-> [s \in Screens |-> None],
           spaces  |-> <<1>>,
           home    |-> [w \in Spaces |-> IF w = 1 THEN m ELSE None],
           last    |-> [w \in Spaces |-> None],
           visible |-> {1},
           seen    |-> [s \in Screens |-> None],
           at      |-> [x \in Windows |-> None],
           on      |-> [x \in Windows |-> None],
           full    |-> {},  hasFull |-> {} ]
  BY DEF Init
<1>2. m \in Screens /\ 1 \in Ids /\ 1 \in Spaces /\ m # Fallback /\ m # None
      /\ None \notin Spaces
  BY Distinct, ConstantsAssumption DEF Screens
<1>3. desk \in Desk BY <1>1, <1>2 DEF Desk
<1>4. Plugged(desk) = {m} /\ \A w : Exists(desk, w) <=> w = 1
  BY <1>1, <1>2 DEF Plugged, Exists, ToSet
<1>5. Placed(desk)
  <2>1. \A s \in Plugged(desk) : /\ desk.active[s] \in Ids
                                 /\ Exists(desk, desk.active[s])
                                 /\ desk.home[desk.active[s]] = s
    BY <1>1, <1>2, <1>4
  <2>2. \A s \in Screens \ Plugged(desk) : desk.active[s] = None /\ desk.special[s] = None
    BY <1>1, <1>4
  <2>3. \A w \in Ids : w \in desk.visible <=> \E s \in Plugged(desk) : desk.active[s] = w
    BY <1>1, <1>2, <1>4
  <2>4. \A s \in Screens : desk.special[s] = None BY <1>1
  <2>5. \A w \in ToSet(desk.spaces) : desk.home[w] \in Plugged(desk) \union {None}
    BY <1>1, <1>2, <1>4 DEF Exists
  <2>6. desk.focus \in Plugged(desk) BY <1>1, <1>4
  <2> QED BY <2>1, <2>2, <2>3, <2>4, <2>5, <2>6 DEF Placed
<1>6. Housed(desk) BY <1>1, <1>2, Distinct DEF Housed
<1>7. Marked(desk) BY <1>1 DEF Marked
<1>8. Safe(desk) /\ Owned(desk)
  BY <1>1, <1>2, <1>4 DEF Safe, Owned, Exists
<1>9. unplugs \in 0..MaxUnplugs BY ConstantsAssumption DEF Init
<1> QED BY <1>3, <1>5, <1>6, <1>7, <1>8, <1>9 DEF IInv, Inv, Core

(* No dispatcher and no window plugs a monitor in or out.                   *)
LEMMA OrderStays ==
  ASSUME Ids = Nat \ {0}, Inv(desk), Order
  PROVE  Stays(desk') /\ unplugs' = unplugs
<1>1. Stays(desk) BY DEF Stays
<1>2. Dispatch /\ unplugs' = unplugs BY DEF Order
<1> SUFFICES Stays(desk') BY <1>2
<1>3. Asked \subseteq Spaces /\ Specials \subseteq Spaces BY Distinct
<1>4. CASE \E w \in Asked : Workspace(w) BY <1>1, <1>4, WorkspaceStays
<1>5. CASE \E w \in Asked : FocusWorkspaceOnCurrentMonitor(w)
  BY <1>1, <1>5, FocusWorkspaceOnCurrentMonitorStays
<1>6. CASE \E w \in Specials : ToggleSpecialWorkspace(w)
  BY <1>1, <1>6, ToggleSpecialWorkspaceStays
<1>7. CASE \E w \in Spaces, m \in Monitors : MoveWorkspaceToMonitor(w, m)
  BY <1>1, <1>7, MoveWorkspaceToMonitorStays
<1>8. CASE \E a, b \in Monitors : SwapActiveWorkspaces(a, b)
  BY <1>1, <1>8, SwapActiveWorkspacesStays
<1>9. CASE \E x \in Windows, w \in Asked \union Specials : MoveToWorkspace(x, w)
  BY <1>1, <1>3, <1>9, MoveToWorkspaceStays
<1>10. CASE \E x \in Windows, w \in Asked \union Specials : MoveToWorkspaceSilent(x, w)
  BY <1>1, <1>3, <1>10, MoveToWorkspaceSilentStays
<1>11. CASE \E m \in Monitors : FocusMonitor(m) BY <1>1, <1>11, FocusMonitorStays
<1>12. CASE \E x \in Windows : FocusWindow(x) BY <1>1, <1>12, FocusWindowStays
<1>13. CASE \E x \in Windows, on \in BOOLEAN : FullscreenActive(x, on)
  BY <1>1, <1>13, FullscreenActiveStays
<1>14. CASE \E x \in Windows, m \in Monitors : SetFullscreenOn(x, m)
  BY <1>1, <1>14, SetFullscreenOnStays
<1> QED BY <1>2, <1>4, <1>5, <1>6, <1>7, <1>8, <1>9, <1>10, <1>11, <1>12, <1>13,
           <1>14 DEF Dispatch

(* Each step keeps it.                                                      *)
LEMMA NextInv ==
  ASSUME Ids = Nat \ {0}, IInv, [Next]_vars
  PROVE  IInv'
<1>0. Inv(desk) /\ unplugs \in 0..MaxUnplugs /\ MaxUnplugs \in Nat /\ Stays(desk)
  BY ConstantsAssumption DEF IInv, Stays
<1>1. CASE Order BY <1>0, <1>1, OrderStays DEF IInv, Stays
<1>2. ASSUME NEW x \in Windows, Appear(x) PROVE IInv'
  BY <1>0, <1>2, MapWindowStays DEF IInv, Stays, Appear
<1>3. ASSUME NEW x \in Windows, Vanish(x) PROVE IInv'
  BY <1>0, <1>3, UnmapWindowStays DEF IInv, Stays, Vanish
<1>4. ASSUME NEW m \in Monitors, Plug(m) PROVE IInv'
  BY <1>0, <1>4, ConnectInv DEF IInv, Plug
<1>5. ASSUME NEW m \in Monitors, Disconnect(m) PROVE IInv'
  <2>1. Inv(desk') BY <1>0, <1>5, DisconnectInv
  <2>2. unplugs' \in 0..MaxUnplugs BY <1>0, <1>5 DEF Disconnect
  <2> QED BY <2>1, <2>2 DEF IInv
<1>6. CASE UNCHANGED vars BY <1>0, <1>6 DEF IInv, vars
<1> QED BY <1>1, <1>2, <1>3, <1>4, <1>5, <1>6 DEF Next

(* It is an invariant, for any monitors, windows, special workspaces and    *)
(* bounds, with IDs that never run out: findAvailableDefaultWS counts up    *)
(* from 1, and the finite set of the runs is a bound of theirs only.        *)
LEMMA Invariance == ASSUME Ids = Nat \ {0} PROVE Spec => []IInv
<1>1. IInv /\ [Next]_vars => IInv' BY NextInv
<1> QED BY <1>1, InitInv, PTL DEF Spec

(* It has the properties the runs check.                                    *)
LEMMA InvImplies ==
  ASSUME IInv
  PROVE  TypeOK /\ ShowsItsOwn /\ VisibleShown /\ NothingLost /\ FullscreenAgrees
<1>1. /\ desk \in Desk /\ Placed(desk) /\ Housed(desk) /\ Marked(desk)
      /\ Safe(desk) => Owned(desk)
      /\ unplugs \in 0..MaxUnplugs
      /\ Plugged(desk) \subseteq Screens /\ desk.full \subseteq Windows
      /\ desk.visible \subseteq Spaces
  BY DeskFields DEF IInv, Inv, Core
<1>2. TypeOK BY <1>1 DEF TypeOK
<1>3. ShowsItsOwn BY <1>1 DEF ShowsItsOwn, Placed
<1>4. VisibleShown
  <2>1. \A w : w \in desk.visible \ Specials <=> w \in Ids /\ w \in desk.visible
    BY <1>1, Distinct
  <2>2. \A w : w \in {desk.active[s] : s \in Plugged(desk)} <=>
                 w \in Ids /\ \E s \in Plugged(desk) : desk.active[s] = w
    BY <1>1 DEF Placed
  <2>3. \A w \in Ids : w \in desk.visible <=> \E s \in Plugged(desk) : desk.active[s] = w
    BY <1>1 DEF Placed
  <2>4. \A w : w \in desk.visible \ Specials <=> w \in {desk.active[s] : s \in Plugged(desk)}
    BY <2>1, <2>2, <2>3
  <2> QED BY <2>4 DEF VisibleShown
<1>5. NothingLost
  <2> SUFFICES ASSUME Safe(desk), NEW x \in Mapped(desk)
               PROVE  /\ Exists(desk, desk.at[x])
                      /\ desk.home[desk.at[x]] \in Plugged(desk)
                      /\ desk.at[x] \in Ids => desk.on[x] = desk.home[desk.at[x]]
    BY DEF NothingLost
  <2>1. x \in Windows /\ desk.at[x] # None BY DEF Mapped
  <2>2. Exists(desk, desk.at[x]) BY <2>1, <1>1 DEF Housed
  <2>3. desk.home[desk.at[x]] # None BY <2>2, <1>1 DEF Owned, Exists
  <2> QED BY <2>1, <2>2, <2>3, <1>1 DEF Housed, Placed, Exists
<1>6. FullscreenAgrees
  <2>1. \A w \in Spaces : On(desk, w) \intersect desk.full # {} <=>
                            \E x \in desk.full : desk.at[x] = w
    BY <1>1 DEF On
  <2> QED BY <2>1, <1>1 DEF FullscreenAgrees, Marked
<1> QED BY <1>2, <1>3, <1>4, <1>5, <1>6

(* The desk keeps its type, and never are more monitors unplugged than may  *)
(* be.                                                                      *)
THEOREM TypeCorrect == ASSUME Ids = Nat \ {0} PROVE Spec => []TypeOK
  BY Invariance, InvImplies, PTL

(* Whatever is moved, swapped, plugged in or unplugged, the focused monitor *)
(* is plugged in, and every monitor shows a workspace that exists and is    *)
(* its own, so that no two show the same one.                               *)
THEOREM EachShowsItsOwn == ASSUME Ids = Nat \ {0} PROVE Spec => []ShowsItsOwn
  BY Invariance, InvImplies, PTL

(* A normal workspace is marked visible exactly while a monitor shows it.   *)
THEOREM VisibleIsShown == ASSUME Ids = Nat \ {0} PROVE Spec => []VisibleShown
  BY Invariance, InvImplies, PTL

(* While a real monitor is plugged in, every window is on a workspace that  *)
(* exists and has a plugged-in monitor, and the window of a normal one is   *)
(* on that monitor.                                                         *)
THEOREM NoWindowLost == ASSUME Ids = Nat \ {0} PROVE Spec => []NothingLost
  BY Invariance, InvImplies, PTL

(* m_hasFullscreenWindow is right for every workspace, and no two windows   *)
(* of one are fullscreen.                                                   *)
THEOREM FullscreenInStep == ASSUME Ids = Nat \ {0} PROVE Spec => []FullscreenAgrees
  BY Invariance, InvImplies, PTL

(* Only plugging a monitor in makes it plugged in; onConnect gives it its   *)
(* windows back.                                                            *)
LEMMA PlugStep ==
  ASSUME Ids = Nat \ {0}, IInv, Next, NEW m \in Monitors, Plugs(m), Safe(desk)
  PROVE  \A x \in Mapped(desk) :
           /\ desk.at[x] = desk.seen[m] => desk'.active[m] = desk'.at[x]
           /\ desk.last[desk.at[x]] = m => desk'.home[desk'.at[x]] = m
<1>0. Inv(desk) /\ Stays(desk) /\ m # Fallback
  BY ConstantsAssumption DEF IInv, Stays
<1>1. m \notin Plugged(desk) /\ m \in Plugged(desk') BY DEF Plugs
<1>2. ~ Stays(desk') BY <1>1 DEF Stays, Plugged
<1>3. CASE Order BY <1>0, <1>2, <1>3, OrderStays
<1>4. ASSUME NEW x \in Windows, Appear(x) PROVE FALSE
  BY <1>0, <1>2, <1>4, MapWindowStays DEF Appear
<1>5. ASSUME NEW x \in Windows, Vanish(x) PROVE FALSE
  BY <1>0, <1>2, <1>5, UnmapWindowStays DEF Vanish
<1>6. ASSUME NEW n \in Monitors, Disconnect(n) PROVE FALSE
  BY <1>0, <1>1, <1>6, DisconnectInv
<1>7. ASSUME NEW n \in Monitors, Plug(n)
      PROVE  \A x \in Mapped(desk) :
               /\ desk.at[x] = desk.seen[m] => desk'.active[m] = desk'.at[x]
               /\ desk.last[desk.at[x]] = m => desk'.home[desk'.at[x]] = m
  <2>1. Connect(n) BY <1>7 DEF Plug
  <2>2. n = m BY <2>1, <1>0, <1>1, ConnectInv
  <2> QED BY <2>1, <2>2, <1>0, ConnectInv
<1> QED BY <1>3, <1>4, <1>5, <1>6, <1>7 DEF Next

(* A monitor that is plugged in beside others has the windows back that     *)
(* were on it when it was unplugged, however many monitors came and went    *)
(* meanwhile.                                                               *)
THEOREM WindowsComeBack == ASSUME Ids = Nat \ {0} PROVE Spec => ComesBack
<1>1. IInv /\ [Next]_vars =>
        [\A m \in Monitors : Plugs(m) /\ Safe(desk) =>
           \A x \in Mapped(desk) :
             /\ desk.at[x] = desk.seen[m] => desk'.active[m] = desk'.at[x]
             /\ desk.last[desk.at[x]] = m => desk'.home[desk'.at[x]] = m]_vars
  BY PlugStep
<1> QED BY <1>1, Invariance, PTL DEF Spec, ComesBack
=============================================================================
