------------------------- MODULE SessionRefreshProofs -------------------------
(* Theorems about SessionRefresh, for any calls, on every kind of device.   *)
EXTENDS SessionRefresh, FiniteSetTheorems, SequenceTheorems, WellFoundedInduction, TLAPS

\* What the constants have to be.
SessionConstants ==
    /\ IsFiniteSet(Calls)
    /\ First \notin Calls /\ None \notin Names
    /\ None \notin Sessions /\ None \notin Pairs
    /\ \A rows \in SUBSET RowNames : rows # None

\* The pair p has been made.
Made(p) == pair[p] # None

\* A session begins with a pair of its name, a pair is of a session, and what a refresh has taken is
\* no longer active.  A session has one active refresh token at most.
RowsAgree ==
    /\ \A c \in Calls : ~Made(c) => session[c] = None
    /\ \A p \in Names : Made(p) => session[pair[p].session] # None
    /\ \A p \in Names : Made(p) /\ pair[p].from # None =>
          Made(pair[p].from) /\ pair[pair[p].from].refresh # "ACTIVE"
    /\ stored # None => Made(stored)
    /\ \A p, q \in Names :
          /\ Made(p) /\ Made(q) /\ pair[p].session = pair[q].session
          /\ pair[p].refresh = "ACTIVE" /\ pair[q].refresh = "ACTIVE"
          => p = q

\* A row that is locked is there, and as it was when it was found.
Lockable(row) ==
    /\ row[1] = "session" => session[row[2]] # None
    /\ row[1] = "refresh" => Made(row[2]) /\ pair[row[2]].refresh = "ACTIVE"
    /\ row[1] = "access" => Made(row[2]) /\ pair[row[2]].access = "ACTIVE"

\* A row is locked by one call at a time.
Exclusive == \A c, d \in Calls : c # d => call[c].held \cap call[d].held = {}

\* The statements that are left after the first and after the second.
Later(s) == <<<<"session", s>>, <<"access", s>>>>
AtLast(s) == <<<<"access", s>>>>

\* A sweep locks the session of each refresh token after the token.
Ordered(todo) ==
    \A i \in DOMAIN todo : todo[i][1] = "refresh" =>
        \E j \in DOMAIN todo : j > i /\ todo[j] = <<"session", todo[i][2]>>

\* The session s is locked by the call c, or is going to be.
Covered(c, s) ==
    \/ <<"session", s>> \in call[c].held
    \/ \E i \in DOMAIN call[c].todo : call[c].todo[i] = <<"session", s>>

\* What a statement has found.
Found(c) ==
    LET statement == Head(call[c].todo)
    IN  /\ call[c].todo # <<>>
        /\ statement[1] = "session" => statement \in call[c].snap
        /\ \A row \in call[c].snap :
              /\ row[1] = statement[1]
              /\ row[1] = "session" => row = statement
              /\ row[1] # "session" => Made(row[2]) /\ pair[row[2]].session = statement[2]

\* The statements of one session, and what is locked before each of them.
SweepsOne(c) ==
    LET s == call[c].session
    IN  /\ call[c].held \subseteq ({"refresh", "access"} \X Names) \cup {<<"session", s>>}
        /\ \/ call[c].todo = Statements(s) /\ call[c].held = {}
           \/ call[c].todo = Later(s) /\ call[c].held \subseteq {"refresh"} \X Names
           \/ /\ call[c].todo = AtLast(s) /\ <<"session", s>> \in call[c].held
              /\ call[c].held \subseteq {"refresh", "session"} \X Names
           \/ call[c].todo = <<>> /\ <<"session", s>> \in call[c].held

\* What a call knows that ends sessions: the rows are there, and a session is locked after its
\* refresh tokens.
SweepKnows(c) ==
    /\ \A i \in DOMAIN call[c].todo : session[call[c].todo[i][2]] # None
    /\ Ordered(call[c].todo)
    /\ \A row \in call[c].held : row[1] = "refresh" => Covered(c, pair[row[2]].session)
    /\ call[c].snap # None => Found(c)
    /\ call[c].op # "recover" => SweepsOne(c)

\* The steps of a call before it makes its pair.
Before == {"idle", "credential", "issue", "find", "active", "consume", "rotate", "list"}
OfToken == {"find", "active", "consume", "rotate", "principal"}

\* What a call knows of its token, its session and its locks, step by step.
CallKnows(c) ==
    /\ call[c].at = "idle" => call[c] = Idle
    /\ call[c].at \notin {"rotate", "sweep"} => call[c].held = {}
    /\ call[c].at # "sweep" => call[c].snap = None /\ call[c].todo = <<>>
    /\ call[c].at = "rotate" => call[c].held = {<<"refresh", call[c].token>>}
    /\ \A row \in call[c].held : Lockable(row)
    /\ call[c].at \in OfToken \cup {"credential", "issue"} => call[c].op # "recover"
    /\ call[c].at \in OfToken \/ (call[c].at = "sweep" /\ call[c].op # "recover") =>
          /\ call[c].token \in Names /\ Made(call[c].token)
          /\ pair[call[c].token].session = call[c].session
    /\ call[c].at \in Before \/ (call[c].at = "sweep" /\ call[c].why # "principal") => ~Made(c)
    /\ call[c].at = "principal" \/ (call[c].at = "sweep" /\ call[c].why = "principal") =>
          Made(c) /\ pair[c].session = call[c].session
    /\ call[c].code = "TOKENS" => call[c].at \in {"answered", "saving", "done"} /\ Made(c)
    /\ call[c].at = "saving" => call[c].code = "TOKENS"
    /\ call[c].at = "list" => call[c].op = "recover" /\ call[c].why = "recover"
    /\ call[c].at = "sweep" => SweepKnows(c)

\* The inductive invariant, whatever the client and the kinds of calls.
SessionInv ==
    /\ TypeOK
    /\ RowsAgree
    /\ SingleUse
    /\ Exclusive
    /\ \A c \in Calls : CallKnows(c)

\* The access tokens of a session are found after the session is locked, which keeps others from
\* making one.
FindsAccess(c) ==
    call[c].at = "sweep" =>
        LET s == call[c].session
        IN  /\ call[c].todo = AtLast(s) /\ call[c].snap # None => {"access"} \X ActiveAccess(s) \subseteq call[c].snap
            /\ call[c].todo = <<>> => {"access"} \X ActiveAccess(s) \subseteq call[c].held

\* The inductive invariant without recoveries, whose statements come in another order.
AccessInv ==
    /\ \A c \in Calls : call[c].op # "recover" /\ FindsAccess(c)
    /\ AccessEndsWithSession

\* A pair whose refresh token can be used, unless its session has ended.
Usable(p) == pair[p].refresh = "ACTIVE" \/ ~Active(pair[p].session)

\* The device waits for the call c.
Under(c) == call[c].op # "recover" /\ call[c].at \notin {"idle", "done"}

\* The device makes one call at a time.
OneAtATime == \A c, d \in Calls : Under(c) /\ Under(d) => c = d

\* Why a call ends a session.
Why(op) ==
    CASE op = "signout" -> {"signout"}
      [] op = "refresh" -> {"expire", "reuse", "principal"}
      [] op = "recover" -> {"recover"}
      [] OTHER -> {}

\* What a call of the device knows of its tokens and of the session it ends.
MobileKnows(c) ==
    /\ call[c].at \in {"find", "active"} => Usable(call[c].token)
    /\ call[c].at = "principal" => Usable(c)
    /\ call[c].at = "answered" =>
          /\ call[c].code = "TOKENS" => Usable(c)
          /\ call[c].op = "signin" => call[c].code = "TOKENS"
          /\ call[c].op = "refresh" => call[c].code \notin {"NONE", "OK"}
          /\ call[c].op = "recover" => call[c].code # "TOKENS"
    /\ call[c].at = "sweep" => call[c].why \in Why(call[c].op)
    /\ call[c].at = "sweep" /\ call[c].why = "reuse" => ~Active(call[c].session)
    /\ call[c].at \in {"active", "consume", "rotate", "principal"} => call[c].op = "refresh"
    /\ call[c].at = "find" => call[c].op # "signin"
    /\ call[c].at # "idle" => call[c].op # "NONE"
    /\ call[c].at # "saving"

\* The inductive invariant of a device that stores its pair before it goes on.
MobileInv ==
    /\ OneAtATime
    /\ stored # None /\ (\A c \in Calls : ~Under(c)) => Usable(stored)
    /\ \A c \in Calls : MobileKnows(c)
    /\ RotationIsInvisible


-----------------------------------------------------------------------------
(* The statements of several sessions.                                     *)

\* A set of numbers has a least one.
LEMMA LeastIndex == ASSUME NEW S \in SUBSET Nat, S # {} PROVE \E n \in S : \A m \in S : n <= m
  <1>1. PICK n \in S : \A m \in S : ~(<<m, n>> \in OpToRel(<, Nat))
    BY WFMin, NatLessThanWellFounded, Zenon
  <1>2. ASSUME NEW m \in S PROVE n <= m
    <2>1. ~(m < n)
      BY <1>1 DEF OpToRel
    <2> QED
      BY <2>1
  <1> QED
    BY <1>2

\* A sequence of more than one element has a tail.
LEMMA MoreThanOne == ASSUME NEW R, NEW s \in Seq(R), Len(s) > 1 PROVE Tail(s) # <<>>
  <1>1. s # <<>>
    BY EmptySeq
  <1>2. Len(Tail(s)) = Len(s) - 1 /\ Tail(s) \in Seq(R)
    BY <1>1, HeadTailProperties
  <1>3. Len(Tail(s)) # 0
    BY <1>2
  <1> QED
    BY <1>2, <1>3, EmptySeq

\* The statements of one session after those of the others.
LEMMA OrderedTogether ==
    ASSUME NEW R, NEW s \in Seq(R), NEW t \in Seq(R), Ordered(s), Ordered(t) PROVE Ordered(s \o t)
  <1>1. /\ s \o t \in Seq(R) /\ Len(s \o t) = Len(s) + Len(t) /\ Len(s) \in Nat /\ Len(t) \in Nat
        /\ DOMAIN s = 1 .. Len(s) /\ DOMAIN t = 1 .. Len(t) /\ DOMAIN (s \o t) = 1 .. Len(s) + Len(t)
        /\ \A i \in 1 .. Len(s) : (s \o t)[i] = s[i]
        /\ \A i \in 1 .. Len(t) : (s \o t)[Len(s) + i] = t[i]
    OBVIOUS
  <1> SUFFICES ASSUME NEW i \in DOMAIN (s \o t), (s \o t)[i][1] = "refresh"
               PROVE  \E j \in DOMAIN (s \o t) : j > i /\ (s \o t)[j] = <<"session", (s \o t)[i][2]>>
    BY DEF Ordered
  <1>2. CASE i \in 1 .. Len(s)
    <2>1. PICK j \in DOMAIN s : j > i /\ s[j] = <<"session", s[i][2]>>
      BY <1>1, <1>2 DEF Ordered
    <2> QED
      BY <1>1, <1>2, <2>1
  <1>3. CASE i \notin 1 .. Len(s)
    <2>1. PICK k \in 1 .. Len(t) : i = Len(s) + k
      <3>1. i - Len(s) \in 1 .. Len(t) /\ i = Len(s) + (i - Len(s))
        BY <1>1, <1>3
      <3> QED
        BY <3>1
    <2>2. PICK j \in DOMAIN t : j > k /\ t[j] = <<"session", t[k][2]>>
      BY <1>1, <2>1 DEF Ordered
    <2>3. Len(s) + j \in DOMAIN (s \o t) /\ Len(s) + j > i /\ (s \o t)[Len(s) + j] = t[j]
      BY <1>1, <2>1, <2>2
    <2> QED
      BY <1>1, <2>1, <2>2, <2>3
  <1> QED
    BY <1>2, <1>3

\* The function that FlattenSeq is defined with.
Flattens(f, s, n) == f = [i \in 1 .. n |-> IF i = 1 THEN s[i] ELSE f[i - 1] \o s[i]]

\* There is a function that flattens the sequences of s up to n, by the least n for which there is none.
LEMMA FlattensSome == ASSUME NEW s, NEW n \in Nat PROVE \E f : Flattens(f, s, n)
  <1> DEFINE Bad == {m \in Nat : ~\E f : Flattens(f, s, m)}
  <1> SUFFICES ASSUME Bad # {} PROVE FALSE
    OBVIOUS
  <1>0. Bad \in SUBSET Nat
    OBVIOUS
  <1>1. PICK m \in Bad : \A k \in Bad : m <= k
    BY <1>0, LeastIndex
  <1>2. m # 0
    <2>1. Flattens([i \in 1 .. 0 |-> s[i]], s, 0)
      BY DEF Flattens
    <2> QED
      BY <1>1, <2>1
  <1>3. m - 1 \in Nat /\ m - 1 \notin Bad /\ m \in Nat
    BY <1>1, <1>2
  <1>4. PICK g : Flattens(g, s, m - 1)
    BY <1>3
  <1> DEFINE f == [i \in 1 .. m |-> IF i = 1 THEN s[i] ELSE g[i - 1] \o s[i]]
  <1>5. ASSUME NEW i \in 1 .. m - 1 PROVE g[i] = f[i]
    <2>1. g[i] = IF i = 1 THEN s[i] ELSE g[i - 1] \o s[i]
      BY <1>4, <1>5, Zenon DEF Flattens
    <2>2. i \in 1 .. m
      BY <1>3, <1>5
    <2>3. f[i] = IF i = 1 THEN s[i] ELSE g[i - 1] \o s[i]
      BY <2>2, Zenon
    <2> QED
      BY <2>1, <2>3
  <1>6. ASSUME NEW i \in 1 .. m PROVE f[i] = IF i = 1 THEN s[i] ELSE f[i - 1] \o s[i]
    <2>1. CASE i = 1
      BY <1>3, <2>1
    <2>2. CASE i # 1
      <3>1. i - 1 \in 1 .. m - 1
        BY <1>3, <2>2
      <3>2. f[i] = g[i - 1] \o s[i]
        BY <1>3, <2>2
      <3> HIDE DEF f
      <3> QED
        BY <1>5, <2>2, <3>1, <3>2
    <2> QED
      BY <2>1, <2>2
  <1>7. Flattens(f, s, m)
    <2>1. DOMAIN f = 1 .. m /\ f = [i \in DOMAIN f |-> f[i]]
      OBVIOUS
    <2> HIDE DEF f
    <2> QED
      BY <1>6, <2>1 DEF Flattens
  <1> HIDE DEF f
  <1> QED
    BY <1>1, <1>7

\* The statements of several sessions are ordered when those of each session are.
LEMMA Flattening ==
    ASSUME NEW R, NEW n \in Nat, NEW s \in [1 .. n -> Seq(R)], \A i \in 1 .. n : Ordered(s[i])
    PROVE  FlattenSeq(s) \in Seq(R) /\ Ordered(FlattenSeq(s))
  <1>1. Len(s) = n
    OBVIOUS
  <1>2. CASE n = 0
    <2>1. FlattenSeq(s) = s /\ s = <<>>
      BY <1>1, <1>2 DEF FlattenSeq
    <2> QED
      BY <2>1 DEF Ordered
  <1>3. CASE n # 0
    <2> DEFINE f == CHOOSE f : Flattens(f, s, n)
    <2>1. FlattenSeq(s) = f[n]
      BY <1>1, <1>3, Zenon DEF FlattenSeq, Flattens
    <2>2. Flattens(f, s, n)
      BY FlattensSome
    <2> HIDE DEF f
    <2>3. \A i \in 1 .. n : f[i] = IF i = 1 THEN s[i] ELSE f[i - 1] \o s[i]
      BY <2>2, Zenon DEF Flattens
    <2>4. \A i \in 1 .. n : s[i] \in Seq(R)
      OBVIOUS
    <2> DEFINE Good(i) == f[i] \in Seq(R) /\ Ordered(f[i])
    <2> DEFINE Bad == {m \in 1 .. n : ~Good(m)}
    <2>5. Bad = {}
      <3> SUFFICES ASSUME Bad # {} PROVE FALSE
        OBVIOUS
      <3>1. Bad \in SUBSET Nat
        OBVIOUS
      <3>2. PICK m \in Bad : \A k \in Bad : m <= k
        BY <3>1, LeastIndex
      <3>3. m \in 1 .. n /\ ~Good(m)
        BY <3>2
      <3>4. m # 1
        <4>1. ASSUME m = 1 PROVE FALSE
          <5>1. f[m] = s[m]
            BY <2>3, <3>3, <4>1
          <5> QED
            BY <2>4, <3>3, <5>1
        <4> QED
          BY <4>1
      <3>5. m - 1 \in 1 .. n /\ m - 1 \notin Bad
        <4>1. m - 1 \in 1 .. n /\ m - 1 < m
          BY <3>3, <3>4
        <4>2. ASSUME m - 1 \in Bad PROVE FALSE
          <5>1. m <= m - 1
            BY <3>2, <4>2
          <5> QED
            BY <3>3, <5>1
        <4> QED
          BY <4>1, <4>2
      <3>6. Good(m - 1)
        BY <3>5
      <3>7. f[m] = f[m - 1] \o s[m]
        BY <2>3, <3>3, <3>4
      <3>8. f[m - 1] \in Seq(R) /\ s[m] \in Seq(R) /\ Ordered(f[m - 1]) /\ Ordered(s[m])
        BY <2>4, <3>3, <3>6
      <3>9. f[m - 1] \o s[m] \in Seq(R) /\ Ordered(f[m - 1] \o s[m])
        BY <3>8, OrderedTogether
      <3> QED
        BY <3>3, <3>7, <3>9
    <2>6. n \in 1 .. n
      BY <1>3
    <2> QED
      BY <2>1, <2>5, <2>6
  <1> QED
    BY <1>2, <1>3

-----------------------------------------------------------------------------
(* What the steps have in common.                                          *)

\* A row has a name that is that of a pair or of a session.
LEMMA RowsOfCalls ==
    ASSUME TypeOK, NEW c \in Calls
    PROVE  /\ call[c] \in CallRecords
           /\ \A row \in call[c].held : row \in RowNames /\ row[2] \in Names
           /\ \A i \in DOMAIN call[c].todo : call[c].todo[i] \in RowNames /\ call[c].todo[i][2] \in Names
           /\ call[c].snap # None => \A row \in call[c].snap : row \in RowNames /\ row[2] \in Names
  <1>1. call[c] \in CallRecords
    BY DEF TypeOK
  <1>2. call[c].held \in SUBSET RowNames /\ call[c].todo \in Seq(RowNames) /\ call[c].snap \in (SUBSET RowNames) \cup {None}
    BY <1>1 DEF CallRecords
  <1>3. \A row \in RowNames : row[2] \in Names
    BY DEF RowNames
  <1>4. \A i \in DOMAIN call[c].todo : call[c].todo[i] \in RowNames
    BY <1>2
  <1>5. \A row \in call[c].held : row \in RowNames
    BY <1>2
  <1>6. call[c].snap # None => \A row \in call[c].snap : row \in RowNames
    BY <1>2
  <1> QED
    BY <1>1, <1>3, <1>4, <1>5, <1>6, Zenon

\* What a call knows stays so while its rows are there.
LEMMA OthersKnow ==
    ASSUME SessionInv, NEW c \in Calls, CallKnows(c), call'[c] = call[c],
           \A p \in Names : Made(p) => pair'[p] # None /\ pair'[p].session = pair[p].session,
           pair'[c] # None => Made(c),
           \A s \in Names : session[s] # None => session'[s] # None,
           \A row \in call[c].held : Lockable(row)'
    PROVE  CallKnows(c)'
  <1>1. TypeOK /\ c \in Names
    BY DEF SessionInv, Names
  <1> USE <1>1, RowsOfCalls
  <1>2. ASSUME call[c].at = "sweep" PROVE SweepKnows(c)'
    <2>1. SweepKnows(c)
      BY <1>2 DEF CallKnows
    <2>2. \A row \in call[c].held : row[1] = "refresh" => Made(row[2])
      BY DEF CallKnows, Lockable
    <2>3. \A i \in DOMAIN call'[c].todo : session'[call'[c].todo[i][2]] # None
      BY <2>1 DEF SweepKnows
    <2>4. Ordered(call'[c].todo)
      BY <2>1 DEF SweepKnows
    <2>5. \A row \in call'[c].held : row[1] = "refresh" => Covered(c, pair[row[2]].session)'
      BY <2>1, <2>2 DEF SweepKnows, Covered
    <2>6. call'[c].snap # None => Found(c)'
      BY <2>1 DEF SweepKnows, Found, Made
    <2>7. call'[c].op # "recover" => SweepsOne(c)'
      BY <2>1 DEF SweepKnows, SweepsOne
    <2> QED
      BY <2>3, <2>4, <2>5, <2>6, <2>7 DEF SweepKnows, Ordered
  <1>3. call[c].token \in Names /\ Made(call[c].token) /\ pair[call[c].token].session = call[c].session =>
          Made(call[c].token)' /\ pair'[call'[c].token].session = call'[c].session
    BY DEF Made
  <1>4. Made(c) => Made(c)' /\ pair'[c].session = pair[c].session
    BY DEF Made
  <1>5. Made(c)' => Made(c)
    BY DEF Made
  <1> QED
    BY <1>2, <1>3, <1>4, <1>5 DEF CallKnows, Made

\* A call moves on, with what it did to the rows.
LEMMA CallMoves ==
    ASSUME SessionInv, NEW c \in Calls, NEW q \in CallRecords, call' = [call EXCEPT ![c] = q],
           session' \in [Names -> Sessions \cup {None}], pair' \in [Names -> Pairs \cup {None}],
           securityEpoch' \in {0, 1}, stored' \in Names \cup {None},
           RowsAgree', SingleUse',
           \A d \in Calls \ {c} : q.held \cap call[d].held = {},
           \A p \in Names : Made(p) => pair'[p] # None /\ pair'[p].session = pair[p].session,
           \A p \in Names \ {c} : pair'[p] # None => Made(p),
           \A s \in Names : session[s] # None => session'[s] # None,
           \A d \in Calls \ {c} : \A row \in call[d].held : Lockable(row)',
           CallKnows(c)'
    PROVE  SessionInv'
  <1>1. call \in [Calls -> CallRecords]
    BY DEF SessionInv, TypeOK
  <1>2. call'[c] = q /\ \A d \in Calls \ {c} : call'[d] = call[d]
    BY <1>1
  <1>3. TypeOK'
    BY <1>1 DEF TypeOK
  <1>4. Exclusive'
    BY <1>2 DEF SessionInv, Exclusive
  <1>5. ASSUME NEW d \in Calls \ {c} PROVE CallKnows(d)'
    BY <1>2, OthersKnow DEF SessionInv, Names
  <1> QED
    BY <1>3, <1>4, <1>5 DEF SessionInv

\* A call moves on and leaves the rows as they are.
LEMMA QuietMoves ==
    ASSUME SessionInv, NEW c \in Calls, NEW q \in CallRecords, call' = [call EXCEPT ![c] = q],
           UNCHANGED <<session, pair, securityEpoch, stored>>,
           \A d \in Calls \ {c} : q.held \cap call[d].held = {},
           CallKnows(c)'
    PROVE  SessionInv'
  <1>1. RowsAgree' /\ SingleUse'
    BY DEF SessionInv, RowsAgree, SingleUse, Made
  <1>2. \A d \in Calls : \A row \in call[d].held : Lockable(row)'
    BY DEF SessionInv, CallKnows, Lockable, Made
  <1> QED
    BY <1>1, <1>2, CallMoves DEF SessionInv, TypeOK, Made

-----------------------------------------------------------------------------
(* Steps that change no rows.                                              *)

\* A call begins.
LEMMA BeginStep == ASSUME SessionConstants, SessionInv, NEW c \in Calls, Begin(c) PROVE SessionInv'
  <1>1. PICK op \in Ops \ {"recover"} :
          /\ stored # None <=> op # "signin"
          /\ call' = [call EXCEPT ![c] = [Idle EXCEPT
                !.at = CASE op = "signin" -> "credential"
                         [] op \in {"signout", "switch"} /\ ~Authenticated -> "answered"
                         [] OTHER -> "find",
                !.code = IF op \in {"signout", "switch"} /\ ~Authenticated THEN "REFUSED" ELSE "NONE",
                !.op = op,
                !.token = stored,
                !.session = IF stored = None THEN None ELSE pair[stored].session,
                !.epoch = securityEpoch]]
    BY DEF Begin, MayBegin
  <1>2. PICK at : at = CASE op = "signin" -> "credential"
                         [] op \in {"signout", "switch"} /\ ~Authenticated -> "answered"
                         [] OTHER -> "find"
    OBVIOUS
  <1>3. PICK code : code = IF op \in {"signout", "switch"} /\ ~Authenticated THEN "REFUSED" ELSE "NONE"
    OBVIOUS
  <1>4. PICK s : s = IF stored = None THEN None ELSE pair[stored].session
    OBVIOUS
  <1>5. /\ at \in {"credential", "answered", "find"} /\ at \in Steps
        /\ at = "find" => stored # None
        /\ code \in {"NONE", "REFUSED"}
    BY <1>1, <1>2, <1>3 DEF Steps
  <1>6. stored # None => stored \in Names /\ Made(stored) /\ pair[stored].session \in Names
    BY DEF SessionInv, TypeOK, RowsAgree, Made, Pairs
  <1>7. s \in Names \cup {None} /\ stored \in Names \cup {None} /\ securityEpoch \in {0, 1}
    BY <1>4, <1>6 DEF SessionInv, TypeOK
  <1>8. PICK q : q = [Idle EXCEPT !.at = at, !.code = code, !.op = op, !.token = stored, !.session = s,
                                  !.epoch = securityEpoch]
    OBVIOUS
  <1>9. /\ q \in CallRecords
        /\ q.at = at /\ q.code = code /\ q.op = op /\ q.token = stored /\ q.session = s
        /\ q.held = {} /\ q.todo = <<>> /\ q.snap = None
    <2>1. op \in Ops /\ <<>> \in Seq(RowNames) /\ {} \in SUBSET RowNames
      BY <1>1
    <2> QED
      BY <1>5, <1>7, <1>8, <2>1 DEF Idle, CallRecords, Reasons
  <1>10. call' = [call EXCEPT ![c] = q] /\ UNCHANGED <<session, pair, securityEpoch, stored>>
    BY <1>1, <1>2, <1>3, <1>4, <1>8 DEF Begin
  <1>11. call'[c] = q
    BY <1>10 DEF SessionInv, TypeOK
  <1>12. ~Made(c)
    BY DEF SessionInv, CallKnows, Begin, Before
  <1>13. CallKnows(c)'
    BY <1>1, <1>4, <1>5, <1>6, <1>9, <1>10, <1>11, <1>12 DEF CallKnows, Made, Before, OfToken
  <1> QED
    BY <1>9, <1>10, <1>13, QuietMoves

\* A sign-in reads the epoch of the user.
LEMMA CredentialStep == ASSUME SessionConstants, SessionInv, NEW c \in Calls, Credential(c) PROVE SessionInv'
  <1> DEFINE q == [call[c] EXCEPT !.at = "issue", !.epoch = securityEpoch]
  <1>1. call[c] \in CallRecords /\ CallKnows(c) /\ call[c].at = "credential" /\ securityEpoch \in {0, 1}
    BY DEF SessionInv, TypeOK, Credential
  <1>2. q \in CallRecords /\ call' = [call EXCEPT ![c] = q] /\ UNCHANGED <<session, pair, securityEpoch, stored>>
    BY <1>1 DEF CallRecords, Steps, Credential, SessionInv, TypeOK
  <1>3. /\ q.at = "issue" /\ q.held = call[c].held /\ q.snap = call[c].snap /\ q.todo = call[c].todo /\ q.op = call[c].op
        /\ q.code = call[c].code
    BY <1>1 DEF CallRecords
  <1> HIDE DEF q
  <1>4. call'[c] = q
    BY <1>2 DEF SessionInv, TypeOK
  <1>5. CallKnows(c)'
    BY <1>1, <1>2, <1>3, <1>4 DEF CallKnows, Made, Before, OfToken
  <1>6. q.held = {}
    BY <1>1, <1>3 DEF CallKnows
  <1> QED
    BY <1>2, <1>5, <1>6, QuietMoves

\* A call goes to its next step.
LEMMA GotoMoves ==
    ASSUME SessionInv, NEW c \in Calls, NEW step \in {"active", "consume"}, Goto(c, step),
           call[c].at \in {"find", "active"}, UNCHANGED <<session, pair, securityEpoch, stored>>
    PROVE  SessionInv'
  <1> DEFINE q == [call[c] EXCEPT !.at = step]
  <1>1. call[c] \in CallRecords /\ CallKnows(c)
    BY DEF SessionInv, TypeOK
  <1>2. q \in CallRecords /\ call' = [call EXCEPT ![c] = q]
    BY <1>1 DEF CallRecords, Steps, Goto, SessionInv, TypeOK
  <1>3. /\ q.at = step /\ q.held = call[c].held /\ q.snap = call[c].snap /\ q.todo = call[c].todo /\ q.op = call[c].op
        /\ q.code = call[c].code /\ q.token = call[c].token /\ q.session = call[c].session
    BY <1>1 DEF CallRecords
  <1> HIDE DEF q
  <1>4. call'[c] = q
    BY <1>2 DEF SessionInv, TypeOK
  <1>5. CallKnows(c)'
    BY <1>1, <1>2, <1>3, <1>4 DEF CallKnows, Made, Before, OfToken
  <1>6. q.held = {}
    BY <1>1, <1>3 DEF CallKnows
  <1> QED
    BY <1>2, <1>5, <1>6, QuietMoves

\* A call that has its tokens, if that is what it is told, ends its transaction.
LEMMA AnswerKnows ==
    ASSUME SessionInv, NEW c \in Calls, NEW code \in {"OK", "TOKENS", "REFUSED", "REUSE", "INVALID_REFRESH_TOKEN"},
           Answer(c, code), code = "TOKENS" => Made(c)'
    PROVE  /\ CallKnows(c)'
           /\ \E q \in CallRecords : call' = [call EXCEPT ![c] = q] /\ q.held = {}
  <1> DEFINE q == [call[c] EXCEPT !.at = "answered", !.code = code, !.held = {}, !.todo = <<>>, !.snap = None]
  <1>1. call[c] \in CallRecords
    BY DEF SessionInv, TypeOK
  <1>2. <<>> \in Seq(RowNames) /\ {} \in SUBSET RowNames
    OBVIOUS
  <1>3. q \in CallRecords /\ call' = [call EXCEPT ![c] = q]
    <2>1. "answered" \in Steps
      BY DEF Steps
    <2>2. q \in CallRecords
      BY <1>1, <1>2, <2>1 DEF CallRecords
    <2>3. call' = [call EXCEPT ![c] = q]
      BY DEF Answer, SessionInv, TypeOK
    <2> QED
      BY <2>2, <2>3
  <1>4. /\ q.at = "answered" /\ q.held = {} /\ q.snap = None /\ q.todo = <<>> /\ q.code = code
    BY <1>1 DEF CallRecords
  <1> HIDE DEF q
  <1>5. call'[c] = q
    BY <1>3 DEF SessionInv, TypeOK
  <1>6. CallKnows(c)'
    BY <1>4, <1>5 DEF CallKnows, Before, OfToken
  <1> QED
    BY <1>3, <1>4, <1>6

\* A call is answered.
LEMMA AnswerMoves ==
    ASSUME SessionInv, NEW c \in Calls, NEW code \in {"OK", "TOKENS", "REFUSED", "REUSE", "INVALID_REFRESH_TOKEN"},
           Answer(c, code), code = "TOKENS" => Made(c), UNCHANGED <<session, pair, securityEpoch, stored>>
    PROVE  SessionInv'
  <1>1. code = "TOKENS" => Made(c)'
    BY DEF Made
  <1>2. CallKnows(c)' /\ \E q \in CallRecords : call' = [call EXCEPT ![c] = q] /\ q.held = {}
    BY <1>1, AnswerKnows
  <1> QED
    BY <1>2, QuietMoves

\* A call begins to end the session of its token.
LEMMA SweepMoves ==
    ASSUME SessionInv, NEW c \in Calls, NEW why \in Reasons, SweepFor(c, why),
           call[c].at \in {"find", "active", "principal"}, call[c].at = "principal" <=> why = "principal",
           UNCHANGED <<session, pair, securityEpoch, stored>>
    PROVE  SessionInv'
  <1> DEFINE s == call[c].session
             q == [call[c] EXCEPT !.at = "sweep", !.why = why, !.todo = Statements(s)]
  <1>1. call[c] \in CallRecords /\ CallKnows(c)
    BY DEF SessionInv, TypeOK
  <1>2. call[c].token \in Names /\ Made(call[c].token) /\ pair[call[c].token].session = s /\ call[c].op # "recover"
    BY <1>1 DEF CallKnows, OfToken
  <1>3. s \in Names /\ session[s] # None
    BY <1>2 DEF SessionInv, TypeOK, RowsAgree, Made, Pairs
  <1>4. /\ Statements(s) \in Seq(RowNames) /\ Len(Statements(s)) = 3 /\ DOMAIN Statements(s) = 1 .. 3
        /\ Statements(s)[1] = <<"refresh", s>> /\ Statements(s)[2] = <<"session", s>> /\ Statements(s)[3] = <<"access", s>>
    BY <1>3 DEF Statements, RowNames
  <1>5. q \in CallRecords /\ call' = [call EXCEPT ![c] = q]
    BY <1>1, <1>4 DEF CallRecords, Steps, SweepFor, SessionInv, TypeOK
  <1>6. /\ q.at = "sweep" /\ q.held = call[c].held /\ q.snap = call[c].snap /\ q.todo = Statements(s) /\ q.op = call[c].op
        /\ q.code = call[c].code /\ q.token = call[c].token /\ q.session = s /\ q.why = why
    BY <1>1 DEF CallRecords
  <1> HIDE DEF q
  <1>7. call'[c] = q
    BY <1>5 DEF SessionInv, TypeOK
  <1>8. q.held = {} /\ q.snap = None
    BY <1>1, <1>6 DEF CallKnows
  <1>9. SweepKnows(c)'
    <2>1. \A i \in DOMAIN Statements(s) : Statements(s)[i][2] = s
      BY <1>4
    <2>2. Ordered(Statements(s))
      <3>1. \A i \in 1 .. 3 : Statements(s)[i][1] = "refresh" => i = 1
        BY <1>4
      <3>2. 2 \in 1 .. 3 /\ 2 > 1
        OBVIOUS
      <3> QED
        BY <1>4, <3>1, <3>2 DEF Ordered
    <2> HIDE DEF s
    <2> QED
      BY <1>3, <1>6, <1>7, <1>8, <2>1, <2>2 DEF SweepKnows, SweepsOne, Ordered
  <1>10. CallKnows(c)'
    BY <1>1, <1>2, <1>6, <1>7, <1>8, <1>9 DEF CallKnows, Made, Before, OfToken
  <1> QED
    BY <1>5, <1>8, <1>10, QuietMoves

\* The steps of calls that write no row.
LEMMA RefreshingQuiet ==
    ASSUME SessionInv, NEW c \in Calls,
           FindRefresh(c) \/ FindActive(c) \/ Consume(c) \/ Principal(c) \/ FindSignOut(c) \/ FindSwitch(c)
    PROVE  SessionInv'
  <1>1. CallKnows(c) /\ call[c] \in CallRecords
    BY DEF SessionInv, TypeOK
  <1>2. CASE FindRefresh(c)
    <2>1. call[c].at = "find" /\ UNCHANGED <<session, pair, securityEpoch, stored>>
      BY <1>2 DEF FindRefresh
    <2>2. \/ Answer(c, "REFUSED")
          \/ SweepFor(c, "expire")
          \/ Goto(c, "active")
      BY <1>2 DEF FindRefresh
    <2> QED
      BY <2>1, <2>2, AnswerMoves, SweepMoves, GotoMoves DEF Reasons
  <1>3. CASE FindActive(c)
    <2>1. call[c].at = "active" /\ UNCHANGED <<session, pair, securityEpoch, stored>>
      BY <1>3 DEF FindActive
    <2>2. Goto(c, "consume") \/ SweepFor(c, "reuse")
      BY <1>3 DEF FindActive
    <2> QED
      BY <2>1, <2>2, SweepMoves, GotoMoves DEF Reasons
  <1>4. CASE Consume(c)
    <2>1. CASE ~Consumable(c)
      BY <1>4, <2>1, AnswerMoves DEF Consume
    <2>2. CASE Consumable(c)
      <3>0. PICK token \in Names : token = call[c].token
        BY <1>1, <1>4 DEF CallKnows, OfToken, Consume
      <3> DEFINE q == [call[c] EXCEPT !.at = "rotate", !.held = {<<"refresh", token>>}]
      <3>1. /\ call[c].at = "consume" /\ UNCHANGED <<session, pair, securityEpoch, stored>>
            /\ Granted(c)
            /\ call' = [call EXCEPT ![c].at = "rotate", ![c].held = {<<"refresh", token>>}]
        BY <1>4, <2>2, <3>0 DEF Consume
      <3>2. token \in Names /\ Made(token) /\ pair[token].session = call[c].session
        BY <1>1, <3>0, <3>1 DEF CallKnows, OfToken
      <3>3. {<<"refresh", token>>} \in SUBSET RowNames
        BY <3>2 DEF RowNames
      <3>4. q \in CallRecords
        BY <1>1, <3>3 DEF CallRecords, Steps
      <3>5. call' = [call EXCEPT ![c] = q]
        BY <3>1 DEF SessionInv, TypeOK
      <3>6. /\ q.at = "rotate" /\ q.held = {<<"refresh", token>>} /\ q.snap = call[c].snap /\ q.todo = call[c].todo
            /\ q.op = call[c].op /\ q.code = call[c].code /\ q.token = token /\ q.session = call[c].session
        BY <1>1, <3>0 DEF CallRecords
      <3>7. \A d \in Calls \ {c} : q.held \cap call[d].held = {}
        <4>1. Wanted(c) = {<<"refresh", token>>}
          BY <3>0, <3>1 DEF Wanted
        <4>2. \A d \in Calls : d # c => Wanted(c) \cap call[d].held = {}
          BY <3>1 DEF Granted, Waits
        <4> QED
          BY <3>6, <4>1, <4>2
      <3> HIDE DEF q
      <3>8. call'[c] = q
        BY <3>5 DEF SessionInv, TypeOK
      <3>9. Lockable(<<"refresh", token>>)'
        <4>1. pair'[token] # None /\ pair'[token].refresh = "ACTIVE"
          BY <2>2, <3>0, <3>1, <3>2 DEF Made, Consumable
        <4> QED
          BY <4>1 DEF Lockable, Made
      <3>10. CallKnows(c)'
        BY <1>1, <3>1, <3>2, <3>6, <3>8, <3>9 DEF CallKnows, Made, Before, OfToken
      <3> QED
        BY <3>1, <3>4, <3>5, <3>7, <3>10, QuietMoves
    <2> QED
      BY <2>1, <2>2
  <1>5. CASE Principal(c)
    <2>1. call[c].at = "principal" /\ UNCHANGED <<session, pair, securityEpoch, stored>>
      BY <1>5 DEF Principal
    <2>2. Answer(c, "TOKENS") \/ SweepFor(c, "principal")
      BY <1>5 DEF Principal
    <2>3. Made(c)
      BY <1>1, <2>1 DEF CallKnows
    <2> QED
      BY <2>1, <2>2, <2>3, SweepMoves, AnswerMoves DEF Reasons
  <1>6. CASE FindSignOut(c)
    BY <1>6, SweepMoves DEF FindSignOut, Reasons
  <1>7. CASE FindSwitch(c)
    <2>1. call[c].at = "find" /\ UNCHANGED <<session, pair, securityEpoch, stored>>
      BY <1>7 DEF FindSwitch
    <2>2. SweepFor(c, "switch") \/ Answer(c, "REFUSED")
      BY <1>7 DEF FindSwitch
    <2> QED
      BY <2>1, <2>2, SweepMoves, AnswerMoves DEF Reasons
  <1> QED
    BY <1>2, <1>3, <1>4, <1>5, <1>6, <1>7

\* A recovery begins.
LEMMA BeginRecoveryStep == ASSUME SessionInv, NEW c \in Calls, BeginRecovery(c) PROVE SessionInv'
  <1> DEFINE q == [call[c] EXCEPT !.at = "list", !.op = "recover", !.why = "recover"]
  <1>1. call[c] \in CallRecords /\ CallKnows(c) /\ call[c].at = "idle" /\ "recover" \in Ops
    BY DEF SessionInv, TypeOK, BeginRecovery
  <1>2. q \in CallRecords
    BY <1>1 DEF CallRecords, Steps, Reasons
  <1>3. call' = [call EXCEPT ![c] = q] /\ UNCHANGED <<session, pair, securityEpoch, stored>>
    BY DEF BeginRecovery, SessionInv, TypeOK
  <1>4. /\ q.at = "list" /\ q.held = call[c].held /\ q.snap = call[c].snap /\ q.todo = call[c].todo
        /\ q.code = call[c].code /\ q.op = "recover" /\ q.why = "recover"
    BY <1>1 DEF CallRecords
  <1> HIDE DEF q
  <1>5. call'[c] = q
    BY <1>3 DEF SessionInv, TypeOK
  <1>6. q.held = {}
    BY <1>1, <1>4 DEF CallKnows
  <1>7. CallKnows(c)'
    BY <1>1, <1>3, <1>4, <1>5, <1>6 DEF CallKnows, Made, Before, OfToken
  <1> QED
    BY <1>2, <1>3, <1>6, <1>7, QuietMoves

\* The statements of a recovery lock the session of each refresh token after the token.
LEMMA RecoveryIsOrdered ==
    ASSUME NEW s, NEW R, {"refresh", "session", "access"} \X {s} \subseteq R
    PROVE  RecoveryStatements(s) \in Seq(R) /\ Ordered(RecoveryStatements(s))
  <1>1. /\ <<"refresh", s>> \in R /\ <<"access", s>> \in R /\ <<"session", s>> \in R
    OBVIOUS
  <1>2. /\ RecoveryStatements(s) \in Seq(R) /\ DOMAIN RecoveryStatements(s) = 1 .. 3
        /\ RecoveryStatements(s)[1] = <<"refresh", s>> /\ RecoveryStatements(s)[2] = <<"access", s>>
        /\ RecoveryStatements(s)[3] = <<"session", s>>
    BY <1>1 DEF RecoveryStatements
  <1>3. \A i \in 1 .. 3 : RecoveryStatements(s)[i][1] = "refresh" => i = 1
    BY <1>2
  <1>4. 3 \in 1 .. 3 /\ 3 > 1
    OBVIOUS
  <1> QED
    BY <1>2, <1>3, <1>4 DEF Ordered

\* A recovery lists the sessions that are active, in some order.
LEMMA ListStep == ASSUME SessionConstants, SessionInv, NEW c \in Calls, ListSessions(c) PROVE SessionInv'
  <1> DEFINE S == {s \in Names : session[s] # None /\ Active(s)}
  <1>1. PICK order \in SetToSeqs(S) :
           call' = [call EXCEPT ![c].at = "sweep",
                                ![c].todo = FlattenSeq([i \in DOMAIN order |-> RecoveryStatements(order[i])])]
    BY DEF ListSessions
  <1>2. PICK n \in Nat : n = Cardinality(S)
    <2>1. IsFiniteSet(Names)
      BY FS_AddElement DEF SessionConstants, Names
    <2>2. IsFiniteSet(S)
      BY <2>1, FS_Subset
    <2> QED
      BY <2>2, FS_CardinalityType
  <1>3. order \in [1 .. n -> S]
    BY <1>1, <1>2, Zenon DEF SetToSeqs
  <1>4. PICK f : f = [i \in DOMAIN order |-> RecoveryStatements(order[i])]
    OBVIOUS
  <1>5. PICK R : R = {row \in RowNames : session[row[2]] # None}
    OBVIOUS
  <1>6. f \in [1 .. n -> Seq(R)] /\ \A i \in 1 .. n : Ordered(f[i])
    <2>1. ASSUME NEW i \in 1 .. n PROVE f[i] \in Seq(R) /\ Ordered(f[i])
      <3>1. order[i] \in Names /\ session[order[i]] # None
        BY <1>3
      <3>2. {"refresh", "session", "access"} \X {order[i]} \subseteq R
        BY <1>5, <3>1 DEF RowNames
      <3>3. f[i] = RecoveryStatements(order[i])
        BY <1>3, <1>4
      <3> QED
        BY <3>2, <3>3, RecoveryIsOrdered
    <2>2. DOMAIN f = 1 .. n /\ f = [i \in 1 .. n |-> f[i]]
      BY <1>3, <1>4
    <2> QED
      BY <2>1, <2>2
  <1>7. PICK todo : todo = FlattenSeq(f)
    OBVIOUS
  <1>8. todo \in Seq(R) /\ Ordered(todo)
    BY <1>6, <1>7, Flattening
  <1>9. todo \in Seq(RowNames) /\ \A i \in DOMAIN todo : session[todo[i][2]] # None
    BY <1>5, <1>8
  <1>10. call[c] \in CallRecords /\ CallKnows(c) /\ call[c].at = "list" /\ UNCHANGED <<session, pair, securityEpoch, stored>>
    BY DEF SessionInv, TypeOK, ListSessions
  <1>11. call[c].op = "recover" /\ call[c].why = "recover"
    BY <1>10 DEF CallKnows
  <1> DEFINE q == [call[c] EXCEPT !.at = "sweep", !.todo = todo]
  <1>12. q \in CallRecords
    BY <1>9, <1>10 DEF CallRecords, Steps
  <1>13. call' = [call EXCEPT ![c] = q]
    BY <1>1, <1>4, <1>7 DEF SessionInv, TypeOK
  <1>14. /\ q.at = "sweep" /\ q.held = call[c].held /\ q.snap = call[c].snap /\ q.todo = todo
         /\ q.op = call[c].op /\ q.why = call[c].why /\ q.code = call[c].code /\ q.token = call[c].token
    BY <1>10 DEF CallRecords
  <1> HIDE DEF q
  <1>15. call'[c] = q
    BY <1>13 DEF SessionInv, TypeOK
  <1>16. q.held = {} /\ q.snap = None
    BY <1>10, <1>14 DEF CallKnows
  <1>17. SweepKnows(c)'
    BY <1>8, <1>9, <1>10, <1>11, <1>14, <1>15, <1>16 DEF SweepKnows, Ordered
  <1>18. CallKnows(c)'
    BY <1>10, <1>11, <1>14, <1>15, <1>16, <1>17 DEF CallKnows, Made, Before, OfToken
  <1> QED
    BY <1>10, <1>12, <1>13, <1>16, <1>18, QuietMoves

\* A statement finds its rows.
LEMMA SnapshotStep == ASSUME SessionInv, NEW c \in Calls, Snapshot(c) PROVE SessionInv'
  <1>1. /\ call[c] \in CallRecords /\ CallKnows(c) /\ UNCHANGED <<session, pair, securityEpoch, stored>>
        /\ call[c].at = "sweep" /\ call[c].snap = None /\ call[c].todo # <<>> /\ SweepKnows(c)
    BY DEF SessionInv, TypeOK, Snapshot, CallKnows
  <1>2. PICK table \in {"refresh", "session", "access"}, s \in Names : Head(call[c].todo) = <<table, s>>
    <2>1. Head(call[c].todo) \in RowNames
      BY <1>1 DEF CallRecords
    <2> QED
      BY <2>1 DEF RowNames
  <1>3. PICK snap : snap = Matching(table, s)
    OBVIOUS
  <1>4. /\ \A row \in snap : /\ row \in RowNames /\ row[1] = table
                             /\ table = "session" => row = <<table, s>>
                             /\ table # "session" => Made(row[2]) /\ pair[row[2]].session = s
        /\ table = "session" => <<table, s>> \in snap
    BY <1>3 DEF Matching, ActiveRefresh, ActiveAccess, Family, RowNames, Made
  <1> DEFINE q == [call[c] EXCEPT !.snap = snap]
  <1>5. q \in CallRecords
    <2>1. snap \in SUBSET RowNames
      BY <1>4
    <2> QED
      BY <1>1, <2>1 DEF CallRecords
  <1>6. call' = [call EXCEPT ![c] = q]
    <2>1. Head(call[c].todo)[1] = table /\ Head(call[c].todo)[2] = s
      BY <1>2
    <2> QED
      BY <1>3, <2>1 DEF Snapshot, SessionInv, TypeOK
  <1>7. /\ q.at = "sweep" /\ q.held = call[c].held /\ q.snap = snap /\ q.todo = call[c].todo /\ q.session = call[c].session
        /\ q.op = call[c].op /\ q.why = call[c].why /\ q.code = call[c].code /\ q.token = call[c].token
    BY <1>1 DEF CallRecords
  <1> HIDE DEF q
  <1>8. call'[c] = q
    BY <1>6 DEF SessionInv, TypeOK
  <1>9. SweepKnows(c)'
    <2>1. Found(c)'
      BY <1>1, <1>2, <1>4, <1>7, <1>8 DEF Found, Made
    <2>2. /\ \A i \in DOMAIN call'[c].todo : session'[call'[c].todo[i][2]] # None
          /\ Ordered(call'[c].todo)
      BY <1>1, <1>7, <1>8 DEF SweepKnows
    <2>3. \A row \in call'[c].held : row[1] = "refresh" => Covered(c, pair[row[2]].session)'
      BY <1>1, <1>7, <1>8 DEF SweepKnows, Covered
    <2>4. call'[c].op # "recover" => SweepsOne(c)'
      BY <1>1, <1>7, <1>8 DEF SweepKnows, SweepsOne
    <2> QED
      BY <2>1, <2>2, <2>3, <2>4 DEF SweepKnows, Ordered
  <1>10. CallKnows(c)'
    BY <1>1, <1>7, <1>8, <1>9 DEF CallKnows, Made, Before, OfToken, Lockable
  <1>11. \A d \in Calls \ {c} : q.held \cap call[d].held = {}
    BY <1>7 DEF SessionInv, Exclusive
  <1> QED
    BY <1>1, <1>5, <1>6, <1>10, <1>11, QuietMoves

\* The statements after the first one.
LEMMA TailOrdered ==
    ASSUME NEW R, NEW s \in Seq(R), s # <<>>
    PROVE  /\ Tail(s) \in Seq(R) /\ Head(s) = s[1] /\ 1 \in DOMAIN s
           /\ \A i \in DOMAIN Tail(s) : i + 1 \in DOMAIN s /\ Tail(s)[i] = s[i + 1] /\ i + 1 > 1
           /\ \A j \in DOMAIN s : j > 1 => j - 1 \in DOMAIN Tail(s) /\ Tail(s)[j - 1] = s[j]
           /\ Ordered(s) => Ordered(Tail(s))
  <1>1. Tail(s) \in Seq(R) /\ Head(s) = s[1] /\ 1 \in DOMAIN s
    OBVIOUS
  <1>2. \A i \in DOMAIN Tail(s) : i + 1 \in DOMAIN s /\ Tail(s)[i] = s[i + 1] /\ i + 1 > 1
    OBVIOUS
  <1>3. \A j \in DOMAIN s : j > 1 => j - 1 \in DOMAIN Tail(s) /\ Tail(s)[j - 1] = s[j]
    OBVIOUS
  <1>4. ASSUME Ordered(s) PROVE Ordered(Tail(s))
    <2> SUFFICES ASSUME NEW i \in DOMAIN Tail(s), Tail(s)[i][1] = "refresh"
                 PROVE  \E j \in DOMAIN Tail(s) : j > i /\ Tail(s)[j] = <<"session", Tail(s)[i][2]>>
      BY DEF Ordered
    <2>1. i + 1 \in DOMAIN s /\ Tail(s)[i] = s[i + 1] /\ i \in Nat
      BY <1>1, <1>2
    <2>2. PICK k \in DOMAIN s : k > i + 1 /\ s[k] = <<"session", s[i + 1][2]>>
      BY <1>4, <2>1 DEF Ordered
    <2>3. k \in Nat /\ k > 1
      BY <2>1, <2>2
    <2>4. k - 1 \in DOMAIN Tail(s) /\ Tail(s)[k - 1] = s[k] /\ k - 1 > i
      BY <1>3, <2>1, <2>2, <2>3
    <2> QED
      BY <2>1, <2>2, <2>4
  <1> QED
    BY <1>1, <1>2, <1>3, <1>4

\* A statement locks what it has found, as far as it still matches.
LEMMA UpdateStep == ASSUME SessionConstants, SessionInv, NEW c \in Calls, Update(c) PROVE SessionInv'
  <1>1. /\ call[c] \in CallRecords /\ CallKnows(c) /\ UNCHANGED <<session, pair, securityEpoch, stored>>
        /\ call[c].at = "sweep" /\ call[c].snap # None /\ SweepKnows(c) /\ Found(c) /\ Granted(c)
    BY DEF SessionInv, TypeOK, Update, CallKnows, SweepKnows
  <1>2. PICK todo \in Seq(RowNames) : todo = call[c].todo /\ todo # <<>>
    BY <1>1 DEF CallRecords, Found
  <1>3. PICK snap \in SUBSET RowNames : snap = call[c].snap
    BY <1>1 DEF CallRecords
  <1>4. PICK held \in SUBSET RowNames : held = call[c].held
    BY <1>1 DEF CallRecords
  <1>5. PICK got : got = {row \in snap : StillMatches(row)}
    OBVIOUS
  <1>6. PICK rest : rest = Tail(todo)
    OBVIOUS
  <1>7. PICK table \in {"refresh", "session", "access"}, s \in Names : todo[1] = <<table, s>>
    <2>1. todo[1] \in RowNames
      BY <1>2, TailOrdered
    <2> QED
      BY <2>1 DEF RowNames
  <1>8. /\ \A row \in got : /\ row \in RowNames /\ row[2] \in Names /\ row[1] = table
                            /\ table = "session" => row = <<table, s>>
                            /\ table # "session" => Made(row[2]) /\ pair[row[2]].session = s
        /\ table = "session" => <<table, s>> \in got
        /\ got \in SUBSET RowNames
    <2>1. \A row \in snap : /\ row \in RowNames /\ row[1] = table
                            /\ table = "session" => row = <<table, s>>
                            /\ table # "session" => Made(row[2]) /\ pair[row[2]].session = s
      <3>1. Head(call[c].todo) = <<table, s>> /\ <<table, s>>[1] = table /\ <<table, s>>[2] = s
        BY <1>2, <1>7, TailOrdered
      <3> QED
        BY <1>1, <1>3, <3>1 DEF Found
    <2>2. table = "session" => <<table, s>> \in snap
      BY <1>1, <1>2, <1>3, <1>7, TailOrdered DEF Found
    <2>3. StillMatches(<<"session", s>>)
      BY DEF StillMatches
    <2>4. \A row \in RowNames : row[2] \in Names
      BY DEF RowNames
    <2> QED
      BY <1>5, <2>1, <2>2, <2>3, <2>4
  <1>9. \A row \in got : Lockable(row)
    <2>1. table = "session" => session[s] # None
      BY <1>1, <1>2, <1>7, TailOrdered DEF SweepKnows
    <2>2. ASSUME NEW row \in got PROVE Lockable(row)
      <3>1. row[1] = "session" => row[2] = s
        BY <1>8
      <3>2. StillMatches(row)
        BY <1>5
      <3> QED
        BY <1>7, <1>8, <2>1, <3>1, <3>2 DEF Lockable, StillMatches
    <2> QED
      BY <2>2
  <1> DEFINE q == [call[c] EXCEPT !.snap = None, !.todo = rest, !.held = held \cup got]
  <1>10. rest \in Seq(RowNames) /\ held \cup got \in SUBSET RowNames
    BY <1>2, <1>4, <1>6, <1>8, TailOrdered
  <1>11. q \in CallRecords
    BY <1>1, <1>10 DEF CallRecords
  <1>12. call' = [call EXCEPT ![c] = q]
    BY <1>1, <1>2, <1>3, <1>4, <1>5, <1>6 DEF Update, SessionInv, TypeOK
  <1>13. /\ q.at = "sweep" /\ q.held = held \cup got /\ q.snap = None /\ q.todo = rest /\ q.session = call[c].session
         /\ q.op = call[c].op /\ q.why = call[c].why /\ q.code = call[c].code /\ q.token = call[c].token
    BY <1>1 DEF CallRecords
  <1> HIDE DEF q
  <1>14. call'[c] = q
    BY <1>12 DEF SessionInv, TypeOK
  <1>15. \A d \in Calls \ {c} : q.held \cap call[d].held = {}
    <2>1. Wanted(c) = snap
      BY <1>1, <1>3 DEF Wanted
    <2>2. \A d \in Calls : d # c => snap \cap call[d].held = {}
      BY <1>1, <2>1 DEF Granted, Waits
    <2>3. \A d \in Calls \ {c} : held \cap call[d].held = {}
      BY <1>4 DEF SessionInv, Exclusive
    <2> QED
      BY <1>5, <1>13, <2>2, <2>3
  <1>16. SweepKnows(c)'
    <2>1. \A i \in DOMAIN rest : session[rest[i][2]] # None
      BY <1>1, <1>2, <1>6, TailOrdered DEF SweepKnows
    <2>2. Ordered(rest)
      BY <1>1, <1>2, <1>6, TailOrdered DEF SweepKnows
    <2>3. ASSUME NEW row \in held \cup got, row[1] = "refresh"
          PROVE  \/ <<"session", pair[row[2]].session>> \in held \cup got
                 \/ \E i \in DOMAIN rest : rest[i] = <<"session", pair[row[2]].session>>
      <3>1. CASE row \in held
        <4>1. CASE <<"session", pair[row[2]].session>> \in held
          BY <4>1
        <4>2. CASE \E i \in DOMAIN todo : todo[i] = <<"session", pair[row[2]].session>>
          <5>1. PICK i \in DOMAIN todo : todo[i] = <<"session", pair[row[2]].session>>
            BY <4>2
          <5>2. CASE i = 1
            <6>1. table = "session" /\ s = pair[row[2]].session
              BY <1>7, <5>1, <5>2
            <6> QED
              BY <1>8, <6>1
          <5>3. CASE i # 1
            <6>1. i \in Nat /\ i > 1
              BY <5>3
            <6>2. i - 1 \in DOMAIN rest /\ rest[i - 1] = todo[i]
              BY <1>2, <1>6, <6>1, TailOrdered
            <6> QED
              BY <5>1, <6>2
          <5> QED
            BY <5>2, <5>3
        <4> QED
          BY <1>1, <1>2, <1>4, <2>3, <3>1, <4>1, <4>2 DEF SweepKnows, Covered
      <3>2. CASE row \in got
        <4>1. table = "refresh" /\ pair[row[2]].session = s
          BY <1>8, <2>3, <3>2
        <4>2. PICK j \in DOMAIN todo : j > 1 /\ todo[j] = <<"session", s>>
          <5>1. 1 \in DOMAIN todo /\ todo[1][1] = "refresh" /\ todo[1][2] = s
            BY <1>2, <1>7, <4>1, TailOrdered
          <5>2. Ordered(todo)
            BY <1>1, <1>2 DEF SweepKnows
          <5> QED
            BY <5>1, <5>2 DEF Ordered
        <4>3. j - 1 \in DOMAIN rest /\ rest[j - 1] = todo[j]
          BY <1>2, <1>6, <4>2, TailOrdered
        <4> QED
          BY <4>1, <4>2, <4>3
      <3> QED
        BY <3>1, <3>2
    <2>4. \A row \in call'[c].held : row[1] = "refresh" => Covered(c, pair[row[2]].session)'
      BY <1>1, <1>13, <1>14, <2>3 DEF Covered
    <2>5. ASSUME call[c].op # "recover"
          PROVE  /\ held \cup got \subseteq ({"refresh", "access"} \X Names) \cup {<<"session", call[c].session>>}
                 /\ \/ rest = Later(call[c].session) /\ held \cup got \subseteq {"refresh"} \X Names
                    \/ /\ rest = AtLast(call[c].session) /\ <<"session", call[c].session>> \in held \cup got
                       /\ held \cup got \subseteq {"refresh", "session"} \X Names
                    \/ rest = <<>> /\ <<"session", call[c].session>> \in held \cup got
      <3>1. PICK o \in Names : o = call[c].session
        BY <1>1, <2>5 DEF CallKnows, SessionInv, TypeOK, Made, Pairs
      <3>2. SweepsOne(c)
        BY <1>1, <2>5 DEF SweepKnows
      <3>3. CASE todo = Statements(o)
        <4>1. table = "refresh" /\ held = {}
          BY <1>2, <1>4, <1>7, <3>1, <3>2, <3>3 DEF SweepsOne, Statements, Later, AtLast
        <4>2. rest = Later(o)
          BY <1>6, <3>3 DEF Statements, Later
        <4>3. got \subseteq {"refresh"} \X Names
          BY <1>8, <4>1 DEF RowNames
        <4> QED
          BY <3>1, <4>1, <4>2, <4>3
      <3>4. CASE todo = Later(o)
        <4>1. table = "session" /\ s = o /\ held \subseteq {"refresh"} \X Names
          BY <1>2, <1>4, <1>7, <3>1, <3>2, <3>4 DEF SweepsOne, Statements, Later, AtLast
        <4>2. rest = AtLast(o)
          BY <1>6, <3>4 DEF AtLast, Later
        <4>3. got = {<<"session", o>>}
          BY <1>8, <4>1
        <4> QED
          BY <3>1, <4>1, <4>2, <4>3
      <3>5. CASE todo = AtLast(o)
        <4>1. table = "access" /\ <<"session", o>> \in held /\ held \subseteq {"refresh", "session"} \X Names
          BY <1>2, <1>4, <1>7, <3>1, <3>2, <3>5 DEF SweepsOne, Statements, Later, AtLast
        <4>2. rest = <<>>
          BY <1>6, <3>5 DEF AtLast
        <4>3. got \subseteq {"access"} \X Names
          BY <1>8, <4>1 DEF RowNames
        <4>4. held \subseteq ({"refresh", "access"} \X Names) \cup {<<"session", o>>}
          BY <1>4, <3>1, <3>2 DEF SweepsOne
        <4> QED
          BY <3>1, <4>1, <4>2, <4>3, <4>4
      <3> QED
        BY <1>2, <3>1, <3>2, <3>3, <3>4, <3>5 DEF SweepsOne
    <2>6. call'[c].op # "recover" => SweepsOne(c)'
      BY <1>13, <1>14, <2>5 DEF SweepsOne
    <2> QED
      BY <1>1, <1>13, <1>14, <2>1, <2>2, <2>4, <2>6 DEF SweepKnows, Ordered
  <1>17. \A row \in call'[c].held : Lockable(row)'
    BY <1>1, <1>4, <1>9, <1>13, <1>14 DEF CallKnows, Lockable, Made
  <1>18. CallKnows(c)'
    BY <1>1, <1>13, <1>14, <1>16, <1>17 DEF CallKnows, Made, Before, OfToken
  <1> QED
    BY <1>1, <1>11, <1>12, <1>15, <1>18, QuietMoves

-----------------------------------------------------------------------------
(* Steps that change rows.                                                 *)

\* A record of a session whose columns change, and of a pair.
LEMMA SessionColumns ==
    ASSUME NEW r \in Sessions, NEW status \in {"ACTIVE", "REVOKED", "EXPIRED"}, NEW why \in Reasons, NEW lapsed \in BOOLEAN
    PROVE  /\ [r EXCEPT !.status = status, !.why = why] \in Sessions
           /\ [r EXCEPT !.lapsed = lapsed] \in Sessions
  BY DEF Sessions

\* The columns of a pair.
LEMMA PairColumns ==
    ASSUME NEW r \in Pairs, NEW refresh \in TokenStates, NEW access \in TokenStates
    PROVE  /\ [r EXCEPT !.refresh = refresh, !.access = access] \in Pairs
           /\ [r EXCEPT !.refresh = refresh, !.access = access].session = r.session
           /\ [r EXCEPT !.refresh = refresh, !.access = access].from = r.from
           /\ [r EXCEPT !.refresh = refresh, !.access = access].refresh = refresh
           /\ [r EXCEPT !.refresh = refresh, !.access = access].access = access
  BY DEF Pairs

\* The first pair of a session has the name of the session.
LEMMA FirstPair ==
    ASSUME NEW c \in Names
    PROVE  /\ NewPair(c, None) \in Pairs /\ NewPair(c, None).session = c /\ NewPair(c, None).from = None
           /\ NewPair(c, None).refresh = "ACTIVE"
  BY DEF NewPair, Pairs, TokenStates

\* Rows keep what they say of each other when no pair is made, or the first one of a new session.
LEMMA RowsStay ==
    ASSUME SessionConstants, SessionInv, NEW c \in Calls,
           \A p \in Names : Made(p) =>
              /\ pair'[p] # None /\ pair'[p].session = pair[p].session /\ pair'[p].from = pair[p].from
              /\ pair'[p].refresh = "ACTIVE" => pair[p].refresh = "ACTIVE",
           \A p \in Names : pair'[p] # None =>
              Made(p) \/ (p = c /\ ~Made(c) /\ pair'[p] = NewPair(c, None) /\ session'[c] # None),
           \A s \in Names : session[s] # None => session'[s] # None,
           \A s \in Names : session'[s] # None => session[s] # None \/ (s = c /\ pair'[c] # None),
           stored' \in Names \cup {None}, stored' # None => pair'[stored'] # None
    PROVE  RowsAgree' /\ SingleUse'
  <1>1. \A p \in Names : Made(p) => /\ pair[p].session \in Names /\ session[pair[p].session] # None
                                   /\ pair[p].from \in Names \cup {None}
    BY DEF SessionInv, TypeOK, RowsAgree, Made, Pairs
  <1>2. c \in Names
    BY DEF Names
  <1>3. ~Made(c) => \A p \in Names : Made(p) => p # c /\ pair[p].session # c
    BY <1>1 DEF SessionInv, RowsAgree
  <1>4. \A d \in Calls : ~Made(d)' => session'[d] = None
    BY <1>2 DEF SessionInv, RowsAgree, Made, Names
  <1>5. \A p \in Names : Made(p)' => session'[pair'[p].session] # None
    BY <1>1, <1>2, FirstPair DEF Made
  <1>6. ASSUME NEW p \in Names, pair'[p] # None, pair'[p].from # None
        PROVE  pair'[pair'[p].from] # None /\ pair'[pair'[p].from].refresh # "ACTIVE"
    <2>1. Made(p) /\ pair'[p].from = pair[p].from
      BY <1>2, <1>6, FirstPair
    <2>2. PICK f \in Names : f = pair[p].from /\ Made(f) /\ pair[f].refresh # "ACTIVE"
      BY <1>1, <1>6, <2>1 DEF SessionInv, RowsAgree
    <2> QED
      BY <2>1, <2>2
  <1>7. ASSUME NEW p \in Names, NEW q \in Names, pair'[p] # None, pair'[q] # None, pair'[p].session = pair'[q].session,
               pair'[p].refresh = "ACTIVE", pair'[q].refresh = "ACTIVE"
        PROVE  p = q
    <2>1. CASE Made(p) /\ Made(q)
      BY <1>7, <2>1 DEF SessionInv, RowsAgree
    <2>2. CASE Made(p) /\ ~Made(q)
      BY <1>2, <1>3, <1>7, <2>2, FirstPair
    <2>3. CASE ~Made(p) /\ Made(q)
      BY <1>2, <1>3, <1>7, <2>3, FirstPair
    <2>4. CASE ~Made(p) /\ ~Made(q)
      BY <1>7, <2>4
    <2> QED
      BY <2>1, <2>2, <2>3, <2>4
  <1>8. RowsAgree'
    BY <1>4, <1>5, <1>6, <1>7 DEF RowsAgree, Made
  <1>9. SingleUse'
    <2>1. \A p \in Names : pair'[p] # None /\ pair'[p].from # None => Made(p) /\ pair'[p].from = pair[p].from
      BY <1>2, FirstPair
    <2> QED
      BY <2>1 DEF SessionInv, SingleUse, Made
  <1> QED
    BY <1>8, <1>9

\* A sign-in makes a session and its pair.
LEMMA IssueStep == ASSUME SessionConstants, SessionInv, NEW c \in Calls, Issue(c) PROVE SessionInv'
  <1>1. /\ call[c] \in CallRecords /\ CallKnows(c) /\ call[c].at = "issue" /\ ~Made(c) /\ c \in Names
        /\ pair' = [pair EXCEPT ![c] = NewPair(c, None)] /\ UNCHANGED <<securityEpoch, stored>>
        /\ session' = [session EXCEPT ![c] = NewSession(call[c].epoch)]
        /\ Answer(c, "TOKENS") /\ None \notin Names
    BY DEF SessionInv, TypeOK, Issue, CallKnows, Before, Names, SessionConstants
  <1>2. NewSession(call[c].epoch) \in Sessions /\ NewPair(c, None) \in Pairs
    BY <1>1, FirstPair DEF NewSession, Sessions, Reasons, CallRecords
  <1>3. NewSession(call[c].epoch) # None /\ NewPair(c, None) # None
    BY <1>2 DEF SessionConstants
  <1>4. /\ session' \in [Names -> Sessions \cup {None}] /\ pair' \in [Names -> Pairs \cup {None}]
        /\ session'[c] # None /\ pair'[c] # None /\ pair'[c] = NewPair(c, None)
        /\ \A p \in Names \ {c} : pair'[p] = pair[p] /\ session'[p] = session[p]
    BY <1>1, <1>2, <1>3 DEF SessionInv, TypeOK
  <1>5. session[c] = None
    BY <1>1 DEF SessionInv, RowsAgree
  <1>7. \A p \in Names : Made(p) => p # c /\ pair'[p] = pair[p] /\ pair'[p] # None
    BY <1>1, <1>4 DEF Made
  <1>8. RowsAgree' /\ SingleUse'
    <2>1. /\ \A p \in Names : pair'[p] # None =>
                Made(p) \/ (p = c /\ ~Made(c) /\ pair'[p] = NewPair(c, None) /\ session'[c] # None)
          /\ \A s \in Names : session[s] # None => session'[s] # None
          /\ \A s \in Names : session'[s] # None => session[s] # None \/ (s = c /\ pair'[c] # None)
      BY <1>1, <1>4, <1>5 DEF Made
    <2>2. stored' \in Names \cup {None} /\ (stored' # None => pair'[stored'] # None)
      BY <1>1, <1>7 DEF SessionInv, TypeOK, RowsAgree
    <2> QED
      BY <1>7, <2>1, <2>2, RowsStay
  <1>10. \A d \in Calls : \A row \in call[d].held : Lockable(row)'
    <2> SUFFICES ASSUME NEW d \in Calls, NEW row \in call[d].held PROVE Lockable(row)'
      OBVIOUS
    <2>1. row[2] \in Names /\ Lockable(row)
      BY RowsOfCalls DEF SessionInv, CallKnows
    <2>2. session[row[2]] # None => session'[row[2]] # None
      BY <1>4, <2>1
    <2>3. Made(row[2]) => pair'[row[2]] = pair[row[2]] /\ pair'[row[2]] # None
      BY <1>7, <2>1
    <2> QED
      BY <2>1, <2>2, <2>3 DEF Lockable, Made
  <1>11. CallKnows(c)' /\ \E q \in CallRecords : call' = [call EXCEPT ![c] = q] /\ q.held = {}
    BY <1>1, <1>4, AnswerKnows DEF Made
  <1>12. /\ \A p \in Names : Made(p) => pair'[p] # None /\ pair'[p].session = pair[p].session
         /\ \A p \in Names \ {c} : pair'[p] # None => Made(p)
         /\ \A s \in Names : session[s] # None => session'[s] # None
         /\ securityEpoch' \in {0, 1} /\ stored' \in Names \cup {None}
    BY <1>1, <1>4, <1>7 DEF Made, SessionInv, TypeOK
  <1> QED
    BY <1>4, <1>8, <1>10, <1>11, <1>12, CallMoves

\* A rotation makes a pair of the session it has locked.
LEMMA RotateStep == ASSUME SessionConstants, SessionInv, NEW c \in Calls, Rotate(c) PROVE SessionInv'
  <1>1. /\ call[c] \in CallRecords /\ CallKnows(c) /\ call[c].at = "rotate" /\ ~Made(c) /\ c \in Names
        /\ UNCHANGED <<securityEpoch, stored>>
    BY DEF SessionInv, TypeOK, Rotate, CallKnows, Before, Names
  <1>2. PICK t \in Names : t = call[c].token
    BY <1>1 DEF CallKnows, OfToken
  <1>3. /\ call[c].held = {<<"refresh", t>>} /\ call[c].op # "recover" /\ call[c].snap = None /\ call[c].todo = <<>>
        /\ Made(t) /\ pair[t].session = call[c].session /\ t # c
    BY <1>1, <1>2 DEF CallKnows, OfToken
  <1>4. pair[t].refresh = "ACTIVE"
    <2>1. Lockable(<<"refresh", t>>)
      BY <1>1, <1>3 DEF CallKnows
    <2> QED
      BY <2>1 DEF Lockable
  <1>5. PICK s \in Names : s = call[c].session /\ session[s] \in Sessions /\ pair[t] \in Pairs
    BY <1>2, <1>3 DEF SessionInv, TypeOK, RowsAgree, Made, Pairs
  <1>6. PICK new \in Pairs : /\ new = NewPair(s, t)
                             /\ new # None /\ new.session = s /\ new.from = t /\ new.refresh = "ACTIVE"
    <2>1. NewPair(s, t) \in Pairs
      BY DEF NewPair, Pairs, TokenStates
    <2> QED
      BY <2>1 DEF NewPair, SessionConstants
  <1>7. PICK used \in Pairs : /\ used = [pair[t] EXCEPT !.refresh = "USED"] /\ used # None
                              /\ used.session = s /\ used.from = pair[t].from /\ used.refresh = "USED"
                              /\ used.access = pair[t].access
    <2>1. [pair[t] EXCEPT !.refresh = "USED"] \in Pairs
      BY <1>5 DEF Pairs, TokenStates
    <2> QED
      BY <1>3, <1>5, <2>1 DEF Pairs, SessionConstants
  <1>8. PICK later \in Sessions : later = Refreshed(s) /\ later # None
    <2>1. Refreshed(s) \in Sessions
      BY <1>5 DEF Refreshed, Sessions
    <2> QED
      BY <2>1 DEF SessionConstants
  <1>9. /\ session' = [session EXCEPT ![s] = later]
        /\ pair' = [pair EXCEPT ![t] = used, ![c] = new]
    BY <1>2, <1>3, <1>5, <1>6, <1>7, <1>8 DEF Rotate
  <1>10. /\ session' \in [Names -> Sessions \cup {None}] /\ pair' \in [Names -> Pairs \cup {None}]
         /\ session'[s] = later /\ \A o \in Names \ {s} : session'[o] = session[o]
         /\ pair'[t] = used /\ pair'[c] = new /\ \A p \in Names \ {t, c} : pair'[p] = pair[p]
    BY <1>1, <1>3, <1>9 DEF SessionInv, TypeOK
  <1>11. \A p \in Names : Made(p) => /\ p # c /\ pair'[p] # None /\ pair'[p].session = pair[p].session
                                     /\ pair'[p].from = pair[p].from /\ pair'[p].access = pair[p].access
                                     /\ p # t => pair'[p].refresh = pair[p].refresh
    BY <1>1, <1>3, <1>5, <1>7, <1>10 DEF Made
  <1>12. \A p \in Names \ {c} : pair'[p] # None => Made(p)
    BY <1>3, <1>10 DEF Made
  <1>13. \A o \in Names : session'[o] # None <=> session[o] # None
    BY <1>3, <1>5, <1>8, <1>10 DEF SessionInv, RowsAgree
  <1>14. \A p \in Names : Made(p) => /\ pair[p].session \in Names /\ session[pair[p].session] # None
                                     /\ pair[p].from \in Names \cup {None}
    BY DEF SessionInv, TypeOK, RowsAgree, Made, Pairs
  <1>15. RowsAgree'
    <2>1. \A d \in Calls : ~Made(d)' => session'[d] = None
      BY <1>6, <1>10, <1>11, <1>13 DEF SessionInv, RowsAgree, Made, Names
    <2>2. \A p \in Names : Made(p)' => session'[pair'[p].session] # None
      BY <1>5, <1>6, <1>8, <1>10, <1>11, <1>12, <1>13, <1>14 DEF Made
    <2>3. ASSUME NEW p \in Names, pair'[p] # None, pair'[p].from # None
          PROVE  pair'[pair'[p].from] # None /\ pair'[pair'[p].from].refresh # "ACTIVE"
      <3>1. CASE p = c
        BY <1>6, <1>7, <1>10, <3>1
      <3>2. CASE p # c
        <4>1. Made(p) /\ pair'[p].from = pair[p].from
          BY <1>11, <1>12, <2>3, <3>2
        <4>2. PICK f \in Names : f = pair[p].from /\ Made(f) /\ pair[f].refresh # "ACTIVE"
          BY <1>14, <2>3, <4>1 DEF SessionInv, RowsAgree
        <4> QED
          BY <1>4, <1>11, <4>1, <4>2
      <3> QED
        BY <3>1, <3>2
    <2>4. stored' # None => Made(stored)'
      BY <1>1, <1>11 DEF SessionInv, RowsAgree, TypeOK, Made
    <2>5. ASSUME NEW p \in Names, NEW r \in Names, pair'[p] # None, pair'[r] # None, pair'[p].session = pair'[r].session,
                 pair'[p].refresh = "ACTIVE", pair'[r].refresh = "ACTIVE"
          PROVE  p = r
      <3>1. p # t /\ r # t
        BY <1>7, <1>10, <2>5
      <3>2. \A n \in Names : Made(n) /\ n # t /\ pair[n].refresh = "ACTIVE" => pair[n].session # s
        BY <1>3, <1>4, <1>5 DEF SessionInv, RowsAgree
      <3>3. CASE p # c /\ r # c
        <4>1. Made(p) /\ Made(r)
          BY <1>12, <2>5, <3>3
        <4> QED
          BY <1>11, <2>5, <3>1, <4>1 DEF SessionInv, RowsAgree
      <3>4. CASE p = c /\ r # c
        BY <1>6, <1>10, <1>11, <1>12, <2>5, <3>1, <3>2, <3>4
      <3>5. CASE p # c /\ r = c
        BY <1>6, <1>10, <1>11, <1>12, <2>5, <3>1, <3>2, <3>5
      <3> QED
        BY <3>3, <3>4, <3>5
    <2> QED
      BY <2>1, <2>2, <2>3, <2>4, <2>5 DEF RowsAgree, Made
  <1>16. SingleUse'
    <2> SUFFICES ASSUME NEW p \in Names, NEW r \in Names, pair'[p] # None, pair'[r] # None, pair'[p].from # None,
                        pair'[p].from = pair'[r].from
                 PROVE  p = r
      BY DEF SingleUse
    <2>1. \A n \in Names : Made(n) => pair[n].from # t
      BY <1>3, <1>4 DEF SessionInv, RowsAgree, SessionConstants
    <2>2. CASE p # c /\ r # c
      <3>1. Made(p) /\ Made(r)
        BY <1>12, <2>2
      <3> QED
        BY <1>11, <3>1 DEF SessionInv, SingleUse, Made
    <2>3. CASE p = c \/ r = c
      BY <1>6, <1>10, <1>11, <1>12, <2>1, <2>3
    <2> QED
      BY <2>2, <2>3
  <1>17. \A d \in Calls \ {c} : \A row \in call[d].held : Lockable(row)'
    <2> SUFFICES ASSUME NEW d \in Calls \ {c}, NEW row \in call[d].held PROVE Lockable(row)'
      OBVIOUS
    <2>1. row \in RowNames /\ row[2] \in Names /\ Lockable(row)
      BY RowsOfCalls DEF SessionInv, CallKnows
    <2>2. row # <<"refresh", t>>
      BY <1>3 DEF SessionInv, Exclusive
    <2>3. row[1] = "refresh" => row[2] # t
      BY <2>1, <2>2 DEF RowNames
    <2> QED
      BY <1>11, <1>13, <2>1, <2>3 DEF Lockable, Made
  <1> DEFINE q == [call[c] EXCEPT !.at = "principal", !.held = {}]
  <1>18. q \in CallRecords
    <2>1. {} \in SUBSET RowNames
      OBVIOUS
    <2> QED
      BY <1>1, <2>1 DEF CallRecords, Steps
  <1>19. call' = [call EXCEPT ![c] = q]
    BY DEF Rotate, SessionInv, TypeOK
  <1>20. /\ q.at = "principal" /\ q.held = {} /\ q.snap = None /\ q.todo = <<>>
         /\ q.op = call[c].op /\ q.code = call[c].code /\ q.token = t /\ q.session = s
    BY <1>1, <1>2, <1>3, <1>5 DEF CallRecords
  <1> HIDE DEF q
  <1>21. call'[c] = q
    BY <1>19 DEF SessionInv, TypeOK
  <1>22. Made(c)' /\ pair'[c].session = s /\ Made(t)' /\ pair'[t].session = s /\ call[c].code # "TOKENS"
    BY <1>1, <1>6, <1>7, <1>10 DEF Made, CallKnows
  <1>23. CallKnows(c)'
    <2>1. t \in Names /\ call'[c].token = t /\ call'[c].session = s
      BY <1>20, <1>21
    <2>2. Made(call[c].token)' /\ pair'[call'[c].token].session = call'[c].session
      BY <1>22, <2>1 DEF Made
    <2> QED
      BY <1>3, <1>20, <1>21, <1>22, <2>1, <2>2 DEF CallKnows, Before, OfToken
  <1>24. /\ securityEpoch' \in {0, 1} /\ stored' \in Names \cup {None}
         /\ \A p \in Names : Made(p) => pair'[p] # None /\ pair'[p].session = pair[p].session
         /\ \A o \in Names : session[o] # None => session'[o] # None
         /\ \A d \in Calls \ {c} : q.held \cap call[d].held = {}
    BY <1>1, <1>11, <1>13, <1>20 DEF SessionInv, TypeOK
  <1> QED
    BY <1>10, <1>12, <1>15, <1>16, <1>17, <1>18, <1>19, <1>23, <1>24, CallMoves

\* What a sweep can end a row with.
Ends == {"REVOKED", "EXPIRED"}

\* What a commit makes of a pair: the tokens that were locked get the status.
LEMMA SweptPair ==
    ASSUME SessionConstants, SessionInv, NEW c \in Calls, NEW status \in Ends, NEW p \in Names, Made(p)
    PROVE  /\ SweptPairs(c, status)[p] \in Pairs /\ SweptPairs(c, status)[p] # None
           /\ SweptPairs(c, status)[p].session = pair[p].session
           /\ SweptPairs(c, status)[p].from = pair[p].from
           /\ <<"refresh", p>> \in call[c].held => SweptPairs(c, status)[p].refresh = status
           /\ <<"refresh", p>> \notin call[c].held => SweptPairs(c, status)[p].refresh = pair[p].refresh
           /\ <<"access", p>> \in call[c].held => SweptPairs(c, status)[p].access = status
           /\ <<"access", p>> \notin call[c].held => SweptPairs(c, status)[p].access = pair[p].access
  <1>1. pair[p] \in Pairs
    BY DEF SessionInv, TypeOK, Made
  <1>2. PICK refresh \in TokenStates : refresh = IF <<"refresh", p>> \in call[c].held THEN status ELSE pair[p].refresh
    BY <1>1 DEF Pairs, TokenStates, Ends
  <1>3. PICK access \in TokenStates : access = IF <<"access", p>> \in call[c].held THEN status ELSE pair[p].access
    BY <1>1 DEF Pairs, TokenStates, Ends
  <1>4. SweptPairs(c, status)[p] = [pair[p] EXCEPT !.refresh = refresh, !.access = access]
    BY <1>2, <1>3 DEF Made, SweptPairs
  <1>5. PICK r : r = [pair[p] EXCEPT !.refresh = refresh, !.access = access]
    OBVIOUS
  <1>6. r \in Pairs /\ r.session = pair[p].session /\ r.from = pair[p].from /\ r.refresh = refresh /\ r.access = access
    BY <1>1, <1>2, <1>3, <1>5 DEF Pairs
  <1> QED
    BY <1>2, <1>3, <1>4, <1>5, <1>6 DEF SessionConstants

\* What a commit makes of the rows.
LEMMA SweptRows ==
    ASSUME SessionConstants, SessionInv, NEW c \in Calls, call[c].at = "sweep",
           NEW status \in Ends
    PROVE  /\ SweptPairs(c, status) \in [Names -> Pairs \cup {None}]
           /\ SweptSessions(c, status) \in [Names -> Sessions \cup {None}]
           /\ \A p \in Names : pair[p] = None => SweptPairs(c, status)[p] = None
           /\ \A s \in Names : session[s] = None <=> SweptSessions(c, status)[s] = None
           /\ \A s \in Names : <<"session", s>> \notin call[c].held => SweptSessions(c, status)[s] = session[s]
           /\ \A s \in Names : <<"session", s>> \in call[c].held =>
                 /\ SweptSessions(c, status)[s].status = status
                 /\ SweptSessions(c, status)[s].why = IF Active(s) THEN call[c].why ELSE session[s].why
                 /\ SweptSessions(c, status)[s].lapsed = session[s].lapsed
  <1> DEFINE P == SweptPairs(c, status)
             T == SweptSessions(c, status)
  <1>1. \A p \in Names : P[p] = IF pair[p] = None THEN None
          ELSE [pair[p] EXCEPT !.refresh = IF <<"refresh", p>> \in call[c].held THEN status ELSE @,
                               !.access = IF <<"access", p>> \in call[c].held THEN status ELSE @]
    BY DEF SweptPairs
  <1>2. \A s \in Names : T[s] = IF <<"session", s>> \notin call[c].held THEN session[s]
          ELSE [session[s] EXCEPT !.status = status,
                                  !.why = IF session[s].status = "ACTIVE" THEN call[c].why ELSE @]
    BY DEF SweptSessions
  <1>3. \A p \in Names : Made(p) => P[p] \in Pairs
    BY SweptPair
  <1>4. ASSUME NEW s \in Names, <<"session", s>> \in call[c].held
        PROVE  /\ session[s] # None /\ T[s] \in Sessions /\ T[s].status = status /\ T[s].lapsed = session[s].lapsed
               /\ T[s].why = IF Active(s) THEN call[c].why ELSE session[s].why
    <2>1. Lockable(<<"session", s>>)
      BY <1>4 DEF SessionInv, CallKnows
    <2>2. session[s] # None
      BY <2>1 DEF Lockable
    <2>3. session[s] \in Sessions /\ call[c].why \in Reasons
      BY <2>2 DEF SessionInv, TypeOK, CallRecords
    <2>4. PICK why \in Reasons : why = IF Active(s) THEN call[c].why ELSE session[s].why
      BY <2>3 DEF Sessions
    <2>5. T[s] = [session[s] EXCEPT !.status = status, !.why = why]
      BY <1>2, <1>4, <2>4 DEF Active
    <2>6. T[s] \in Sessions /\ T[s].status = status /\ T[s].lapsed = session[s].lapsed /\ T[s].why = why
      BY <2>3, <2>5 DEF Sessions, Ends
    <2> QED
      BY <2>2, <2>4, <2>6
  <1>5. \A p \in Names : pair[p] = None => P[p] = None
    BY <1>1
  <1>6. \A s \in Names : <<"session", s>> \notin call[c].held => T[s] = session[s]
    BY <1>2
  <1>7. None \notin Pairs /\ None \notin Sessions
    BY DEF SessionConstants
  <1>8. P = [p \in Names |-> P[p]] /\ T = [s \in Names |-> T[s]]
    BY DEF SweptPairs, SweptSessions
  <1> HIDE DEF P, T
  <1>9. \A p \in Names : P[p] \in Pairs \cup {None}
    BY <1>3, <1>5 DEF Made
  <1>10. \A s \in Names : T[s] \in Sessions \cup {None}
    BY <1>4, <1>6 DEF SessionInv, TypeOK
  <1>11. P \in [Names -> Pairs \cup {None}] /\ T \in [Names -> Sessions \cup {None}]
    BY <1>8, <1>9, <1>10
  <1>12. \A s \in Names : session[s] = None <=> T[s] = None
    BY <1>4, <1>6, <1>7
  <1> QED
    BY <1>4, <1>5, <1>6, <1>11, <1>12 DEF P, T

\* What others have locked is not what a commit changes.
LEMMA SweptOthers ==
    ASSUME SessionConstants, SessionInv, NEW c \in Calls, call[c].at = "sweep",
           NEW status \in Ends,
           \A p \in Names : Made(p) => pair'[p] = SweptPairs(c, status)[p],
           \A s \in Names : session[s] # None => session'[s] = SweptSessions(c, status)[s]
    PROVE  \A d \in Calls \ {c} : \A row \in call[d].held : Lockable(row)'
  <1> SUFFICES ASSUME NEW d \in Calls \ {c}, NEW row \in call[d].held PROVE Lockable(row)'
    OBVIOUS
  <1>1. row \in RowNames /\ row[2] \in Names /\ Lockable(row)
    BY RowsOfCalls DEF SessionInv, CallKnows
  <1>2. row \notin call[c].held /\ row = <<row[1], row[2]>>
    BY <1>1 DEF SessionInv, Exclusive, RowNames
  <1>3. CASE row[1] = "session"
    <2>1. session[row[2]] # None
      BY <1>1, <1>3 DEF Lockable
    <2>2. session'[row[2]] # None
      BY <1>1, <2>1, SweptRows
    <2> QED
      BY <1>3, <2>2 DEF Lockable
  <1>4. CASE row[1] = "refresh"
    <2>1. Made(row[2]) /\ pair[row[2]].refresh = "ACTIVE"
      BY <1>1, <1>4 DEF Lockable
    <2>2. <<"refresh", row[2]>> \notin call[c].held
      BY <1>2, <1>4
    <2>3. PICK p \in Names : p = row[2] /\ Made(p) /\ pair'[p] = SweptPairs(c, status)[p]
      BY <1>1, <2>1
    <2>4. /\ SweptPairs(c, status)[p] # None
          /\ <<"refresh", p>> \notin call[c].held => SweptPairs(c, status)[p].refresh = pair[p].refresh
      BY <2>3, SweptPair
    <2>5. pair'[row[2]] # None /\ pair'[row[2]].refresh = "ACTIVE"
      BY <2>1, <2>2, <2>3, <2>4
    <2> QED
      BY <1>4, <2>5 DEF Lockable, Made
  <1>5. CASE row[1] = "access"
    <2>1. Made(row[2]) /\ pair[row[2]].access = "ACTIVE"
      BY <1>1, <1>5 DEF Lockable
    <2>2. <<"access", row[2]>> \notin call[c].held
      BY <1>2, <1>5
    <2>3. PICK p \in Names : p = row[2] /\ Made(p) /\ pair'[p] = SweptPairs(c, status)[p]
      BY <1>1, <2>1
    <2>4. /\ SweptPairs(c, status)[p] # None
          /\ <<"access", p>> \notin call[c].held => SweptPairs(c, status)[p].access = pair[p].access
      BY <2>3, SweptPair
    <2>5. pair'[row[2]] # None /\ pair'[row[2]].access = "ACTIVE"
      BY <2>1, <2>2, <2>3, <2>4
    <2> QED
      BY <1>5, <2>5 DEF Lockable, Made
  <1> QED
    BY <1>1, <1>3, <1>4, <1>5 DEF RowNames

\* A call that ends sessions commits.
LEMMA CommitSweepStep == ASSUME SessionConstants, SessionInv, NEW c \in Calls, CommitSweep(c) PROVE SessionInv'
  <1>1. /\ CallKnows(c) /\ call[c].at = "sweep" /\ call[c].why # "switch" /\ c \in Names
        /\ stored' = stored /\ securityEpoch' \in {0, 1}
    BY DEF SessionInv, TypeOK, CommitSweep, Swept, Names
  <1>2. PICK status \in Ends :
           session' = SweptSessions(c, status) /\ pair' = SweptPairs(c, status)
    BY DEF CommitSweep, Ends
  <1>3. PICK code \in {"OK", "REUSE", "REFUSED"} : Answer(c, code)
    BY DEF CommitSweep
  <1>4. CallKnows(c)' /\ \E q \in CallRecords : call' = [call EXCEPT ![c] = q] /\ q.held = {}
    BY <1>3, AnswerKnows
  <1>5. /\ \A p \in Names : Made(p) => /\ pair'[p] # None /\ pair'[p].session = pair[p].session
                                       /\ pair'[p].from = pair[p].from
                                       /\ pair'[p].refresh = "ACTIVE" => pair[p].refresh = "ACTIVE"
        /\ \A p \in Names : pair'[p] # None => Made(p)
        /\ \A s \in Names : session'[s] # None <=> session[s] # None
        /\ session' \in [Names -> Sessions \cup {None}] /\ pair' \in [Names -> Pairs \cup {None}]
    <2>1. \A p \in Names : Made(p) =>
             /\ pair'[p] # None /\ pair'[p].session = pair[p].session
             /\ pair'[p].from = pair[p].from
             /\ pair'[p].refresh = "ACTIVE" => pair[p].refresh = "ACTIVE"
      <3> SUFFICES ASSUME NEW p \in Names, Made(p)
                   PROVE  /\ pair'[p] # None /\ pair'[p].session = pair[p].session
                          /\ pair'[p].from = pair[p].from
                          /\ pair'[p].refresh = "ACTIVE" => pair[p].refresh = "ACTIVE"
        OBVIOUS
      <3>1. pair'[p] = SweptPairs(c, status)[p]
        BY <1>2
      <3>2. /\ SweptPairs(c, status)[p] # None
            /\ SweptPairs(c, status)[p].session = pair[p].session
            /\ SweptPairs(c, status)[p].from = pair[p].from
            /\ <<"refresh", p>> \in call[c].held => SweptPairs(c, status)[p].refresh = status
            /\ <<"refresh", p>> \notin call[c].held => SweptPairs(c, status)[p].refresh = pair[p].refresh
        BY SweptPair
      <3> QED
        BY <3>1, <3>2 DEF Ends
    <2>2. \A p \in Names : pair[p] = None => pair'[p] = None
      BY <1>1, <1>2, SweptRows
    <2>3. \A s \in Names : session'[s] = None <=> session[s] = None
      BY <1>1, <1>2, SweptRows
    <2>4. session' \in [Names -> Sessions \cup {None}] /\ pair' \in [Names -> Pairs \cup {None}]
      BY <1>1, <1>2, SweptRows
    <2> QED
      BY <2>1, <2>2, <2>3, <2>4 DEF Made
  <1>6. stored' \in Names \cup {None} /\ (stored' # None => pair'[stored'] # None)
    BY <1>1, <1>5 DEF SessionInv, TypeOK, RowsAgree
  <1>7. RowsAgree' /\ SingleUse'
    BY <1>5, <1>6, RowsStay
  <1>8. \A d \in Calls \ {c} : \A row \in call[d].held : Lockable(row)'
    BY <1>1, <1>2, SweptOthers
  <1> QED
    BY <1>1, <1>4, <1>5, <1>6, <1>7, <1>8, CallMoves

\* A switch ends its session and makes one.
LEMMA CommitSwitchStep == ASSUME SessionConstants, SessionInv, NEW c \in Calls, CommitSwitch(c) PROVE SessionInv'
  <1>1. /\ CallKnows(c) /\ call[c] \in CallRecords /\ call[c].at = "sweep" /\ call[c].why = "switch" /\ c \in Names
        /\ Answer(c, "TOKENS") /\ UNCHANGED <<securityEpoch, stored>> /\ None \notin Names
    BY DEF SessionInv, TypeOK, CommitSwitch, Swept, Names, SessionConstants
  <1>2. ~Made(c) /\ session[c] = None
    BY <1>1 DEF CallKnows, SessionInv, RowsAgree
  <1>3. PICK row \in Sessions : row = NewSession(call[c].epoch) /\ row # None
    <2>1. NewSession(call[c].epoch) \in Sessions
      BY <1>1 DEF NewSession, Sessions, Reasons, CallRecords
    <2> QED
      BY <2>1 DEF SessionConstants
  <1>4. NewPair(c, None) \in Pairs /\ NewPair(c, None) # None
    BY <1>1, FirstPair DEF SessionConstants
  <1>5. PICK T : T = SweptSessions(c, "REVOKED")
    OBVIOUS
  <1>6. PICK P : P = SweptPairs(c, "REVOKED")
    OBVIOUS
  <1>7. /\ T \in [Names -> Sessions \cup {None}] /\ P \in [Names -> Pairs \cup {None}]
        /\ \A p \in Names : pair[p] = None => P[p] = None
        /\ \A s \in Names : session[s] = None <=> T[s] = None
    BY <1>1, <1>5, <1>6, SweptRows DEF Ends
  <1>8. \A p \in Names : Made(p) => /\ P[p] # None /\ P[p].session = pair[p].session /\ P[p].from = pair[p].from
                                    /\ P[p].refresh = "ACTIVE" => pair[p].refresh = "ACTIVE"
    <2> SUFFICES ASSUME NEW p \in Names, Made(p)
                 PROVE  /\ P[p] # None /\ P[p].session = pair[p].session /\ P[p].from = pair[p].from
                        /\ P[p].refresh = "ACTIVE" => pair[p].refresh = "ACTIVE"
      OBVIOUS
    <2> QED
      BY <1>1, <1>6, SweptPair DEF Ends
  <1>9. session' = [T EXCEPT ![c] = row] /\ pair' = [P EXCEPT ![c] = NewPair(c, None)]
    BY <1>3, <1>5, <1>6 DEF CommitSwitch
  <1>10. /\ session' \in [Names -> Sessions \cup {None}] /\ pair' \in [Names -> Pairs \cup {None}]
         /\ session'[c] = row /\ pair'[c] = NewPair(c, None)
         /\ \A p \in Names \ {c} : pair'[p] = P[p] /\ session'[p] = T[p]
    BY <1>1, <1>4, <1>7, <1>9
  <1>11. \A p \in Names : Made(p) => p # c /\ pair'[p] = P[p]
    BY <1>2, <1>10
  <1>12. \A s \in Names : session[s] # None => s # c /\ session'[s] = T[s]
    BY <1>2, <1>10
  <1>13. /\ \A p \in Names : Made(p) => /\ pair'[p] # None /\ pair'[p].session = pair[p].session
                                        /\ pair'[p].from = pair[p].from
                                        /\ pair'[p].refresh = "ACTIVE" => pair[p].refresh = "ACTIVE"
         /\ \A p \in Names \ {c} : pair'[p] # None => Made(p)
         /\ \A p \in Names : pair'[p] # None =>
               Made(p) \/ (p = c /\ ~Made(c) /\ pair'[p] = NewPair(c, None) /\ session'[c] # None)
         /\ \A s \in Names : session[s] # None => session'[s] # None
         /\ \A s \in Names : session'[s] # None => session[s] # None \/ (s = c /\ pair'[c] # None)
    <2>1. \A p \in Names : Made(p) => /\ pair'[p] # None /\ pair'[p].session = pair[p].session
                                      /\ pair'[p].from = pair[p].from
                                      /\ pair'[p].refresh = "ACTIVE" => pair[p].refresh = "ACTIVE"
      BY <1>8, <1>11
    <2>2. \A p \in Names \ {c} : pair'[p] # None => Made(p)
      BY <1>7, <1>10 DEF Made
    <2>3. \A s \in Names : session[s] # None => session'[s] # None
      BY <1>7, <1>12
    <2>4. \A s \in Names \ {c} : session'[s] # None => session[s] # None
      BY <1>7, <1>10
    <2>5. session'[c] # None /\ pair'[c] # None /\ pair'[c] = NewPair(c, None)
      BY <1>3, <1>4, <1>10
    <2> QED
      BY <1>2, <2>1, <2>2, <2>3, <2>4, <2>5
  <1>14. stored' \in Names \cup {None} /\ (stored' # None => pair'[stored'] # None)
    BY <1>1, <1>13 DEF SessionInv, TypeOK, RowsAgree
  <1>15. RowsAgree' /\ SingleUse'
    BY <1>13, <1>14, RowsStay
  <1>16. \A d \in Calls \ {c} : \A r \in call[d].held : Lockable(r)'
    BY <1>1, <1>5, <1>6, <1>11, <1>12, SweptOthers DEF Ends
  <1>17. CallKnows(c)' /\ \E q \in CallRecords : call' = [call EXCEPT ![c] = q] /\ q.held = {}
    <2>1. Made(c)'
      BY <1>4, <1>10 DEF Made
    <2> QED
      BY <1>1, <2>1, AnswerKnows
  <1>18. PICK q \in CallRecords : call' = [call EXCEPT ![c] = q] /\ q.held = {}
    BY <1>17
  <1>19. securityEpoch' \in {0, 1} /\ \A d \in Calls \ {c} : q.held \cap call[d].held = {}
    BY <1>1, <1>18 DEF SessionInv, TypeOK
  <1>20. /\ \A p \in Names : Made(p) => pair'[p] # None /\ pair'[p].session = pair[p].session
         /\ \A p \in Names \ {c} : pair'[p] # None => Made(p)
         /\ \A s \in Names : session[s] # None => session'[s] # None
    BY <1>13
  <1> QED
    BY <1>10, <1>14, <1>15, <1>16, <1>17, <1>18, <1>19, <1>20, CallMoves

\* What the device keeps, and the end of the call.
LEMMA DeviceMoves ==
    ASSUME SessionConstants, SessionInv, NEW c \in Calls, NEW step \in {"saving", "done"},
           call[c].at \in {"answered", "saving"}, step = "saving" => call[c].code = "TOKENS", Goto(c, step),
           UNCHANGED <<session, pair, securityEpoch>>,
           stored' \in Names \cup {None}, stored' # None => Made(stored')
    PROVE  SessionInv'
  <1> DEFINE q == [call[c] EXCEPT !.at = step]
  <1>1. call[c] \in CallRecords /\ CallKnows(c)
    BY DEF SessionInv, TypeOK
  <1>2. q \in CallRecords /\ call' = [call EXCEPT ![c] = q]
    BY <1>1 DEF CallRecords, Steps, Goto, SessionInv, TypeOK
  <1>3. /\ q.at = step /\ q.held = call[c].held /\ q.snap = call[c].snap /\ q.todo = call[c].todo /\ q.code = call[c].code
    BY <1>1 DEF CallRecords
  <1> HIDE DEF q
  <1>4. call'[c] = q
    BY <1>2 DEF SessionInv, TypeOK
  <1>5. q.held = {} /\ q.snap = None /\ q.todo = <<>> /\ (q.code = "TOKENS" => step \in {"saving", "done"} /\ Made(c))
    BY <1>1, <1>3 DEF CallKnows
  <1>6. CallKnows(c)'
    BY <1>3, <1>4, <1>5 DEF CallKnows, Made, Before, OfToken
  <1>7. RowsAgree' /\ SingleUse'
    BY DEF SessionInv, RowsAgree, SingleUse, Made
  <1>8. \A d \in Calls : \A row \in call[d].held : Lockable(row)'
    BY DEF SessionInv, CallKnows, Lockable, Made
  <1> QED
    BY <1>2, <1>5, <1>6, <1>7, <1>8, CallMoves DEF SessionInv, TypeOK, Made

\* The device receives an answer, stores its pair, or gets none.
LEMMA DeviceStep ==
    ASSUME SessionConstants, SessionInv, NEW c \in Calls, Receive(c) \/ Save(c) \/ LoseAnswer(c)
    PROVE  SessionInv'
  <1>1. CallKnows(c) /\ c \in Names /\ UNCHANGED <<session, pair, securityEpoch>> /\ None \notin Names
    BY DEF SessionInv, Receive, Save, LoseAnswer, Names, SessionConstants
  <1>2. \A code : Kept(c, code) \in Names \cup {None} /\ (Kept(c, code) # None => Made(Kept(c, code)))
    BY DEF SessionInv, TypeOK, RowsAgree, Kept
  <1>3. call[c].code = "TOKENS" => Made(c)
    BY <1>1 DEF CallKnows
  <1>4. CASE Receive(c)
    <2>1. /\ call[c].at = "answered"
          /\ \/ call[c].code = "TOKENS" /\ stored' = None /\ Goto(c, "saving")
             \/ call[c].code = "TOKENS" /\ stored' = c /\ Goto(c, "done")
             \/ stored' = Kept(c, call[c].code) /\ Goto(c, "done")
      BY <1>4 DEF Receive
    <2>2. stored' \in Names \cup {None} /\ (stored' # None => Made(stored'))
      BY <1>1, <1>2, <1>3, <2>1
    <2> QED
      BY <1>1, <2>1, <2>2, DeviceMoves
  <1>5. CASE Save(c)
    <2>1. call[c].at = "saving" /\ stored' = c /\ Goto(c, "done") /\ Made(c)
      BY <1>1, <1>3, <1>5 DEF Save, CallKnows
    <2> QED
      BY <1>1, <2>1, DeviceMoves
  <1>6. CASE LoseAnswer(c)
    <2>1. call[c].at \in {"answered", "saving"} /\ stored' = Kept(c, "NONE") /\ Goto(c, "done")
      BY <1>6 DEF LoseAnswer
    <2> QED
      BY <1>1, <1>2, <2>1, DeviceMoves
  <1> QED
    BY <1>4, <1>5, <1>6

\* A transaction fails.
LEMMA FailStep == ASSUME SessionConstants, SessionInv, NEW c \in Calls, Fail(c) PROVE SessionInv'
  <1>1. /\ CallKnows(c) /\ call[c] \in CallRecords /\ call[c].at \notin {"idle", "answered", "saving", "done"}
        /\ UNCHANGED <<session, pair, securityEpoch>> /\ stored' = Kept(c, "NONE")
    BY DEF SessionInv, TypeOK, Fail, Busy
  <1>2. stored' \in Names \cup {None} /\ (stored' # None => Made(stored'))
    BY <1>1 DEF SessionInv, TypeOK, RowsAgree, Kept
  <1> DEFINE q == [call[c] EXCEPT !.at = "done", !.held = {}, !.todo = <<>>, !.snap = None]
  <1>3. q \in CallRecords
    <2>1. <<>> \in Seq(RowNames) /\ {} \in SUBSET RowNames /\ "done" \in Steps
      BY DEF Steps
    <2> QED
      BY <1>1, <2>1 DEF CallRecords
  <1>4. call' = [call EXCEPT ![c] = q]
    BY DEF Fail, SessionInv, TypeOK
  <1>5. q.at = "done" /\ q.held = {} /\ q.snap = None /\ q.todo = <<>> /\ q.code = call[c].code
    BY <1>1 DEF CallRecords
  <1> HIDE DEF q
  <1>6. call'[c] = q /\ q.code # "TOKENS"
    BY <1>1, <1>4, <1>5 DEF SessionInv, TypeOK, CallKnows
  <1>7. CallKnows(c)'
    BY <1>5, <1>6 DEF CallKnows, Before, OfToken
  <1>8. RowsAgree' /\ SingleUse'
    BY <1>1, <1>2 DEF SessionInv, RowsAgree, SingleUse, Made
  <1>9. \A d \in Calls : \A row \in call[d].held : Lockable(row)'
    BY <1>1 DEF SessionInv, CallKnows, Lockable, Made
  <1> QED
    BY <1>1, <1>2, <1>3, <1>4, <1>5, <1>7, <1>8, <1>9, CallMoves DEF SessionInv, TypeOK, Made

\* A session lapses.
LEMMA LapseStep == ASSUME SessionConstants, SessionInv, NEW s \in Names, Lapse(s) PROVE SessionInv'
  <1>1. session[s] \in Sessions /\ UNCHANGED <<pair, securityEpoch, stored, call>>
    BY DEF SessionInv, TypeOK, Lapse
  <1>2. PICK late \in Sessions : late = [session[s] EXCEPT !.lapsed = TRUE] /\ late # None
    <2>1. [session[s] EXCEPT !.lapsed = TRUE] \in Sessions
      BY <1>1 DEF Sessions
    <2> QED
      BY <2>1 DEF SessionConstants
  <1>3. session' = [session EXCEPT ![s] = late]
    BY <1>2 DEF Lapse
  <1>4. session' \in [Names -> Sessions \cup {None}] /\ \A o \in Names : session'[o] = None <=> session[o] = None
    BY <1>1, <1>2, <1>3 DEF SessionInv, TypeOK, SessionConstants
  <1>5. TypeOK' /\ Exclusive' /\ SingleUse'
    BY <1>1, <1>4 DEF SessionInv, TypeOK, Exclusive, SingleUse
  <1>6. RowsAgree'
    <2>1. \A p \in Names : Made(p) => pair[p].session \in Names
      BY DEF SessionInv, TypeOK, Made, Pairs
    <2> QED
      BY <1>1, <1>4, <2>1 DEF SessionInv, RowsAgree, Made, Names
  <1>7. \A c \in Calls : \A row \in call[c].held : Lockable(row)'
    <2> SUFFICES ASSUME NEW c \in Calls, NEW row \in call[c].held PROVE Lockable(row)'
      OBVIOUS
    <2>1. row[2] \in Names /\ Lockable(row)
      BY RowsOfCalls DEF SessionInv, CallKnows
    <2> QED
      BY <1>1, <1>4, <2>1 DEF Lockable, Made
  <1>8. \A c \in Calls : CallKnows(c)'
    BY <1>1, <1>4, <1>7, OthersKnow DEF SessionInv, Names, Made
  <1> QED
    BY <1>5, <1>6, <1>8 DEF SessionInv

\* At first there is one session with one pair, and no call.
LEMMA SessionInit == SessionConstants /\ Init => SessionInv
  <1> SUFFICES ASSUME SessionConstants, Init PROVE SessionInv
    OBVIOUS
  <1>1. NewSession(0) \in Sessions /\ NewPair(First, None) \in Pairs /\ First \in Names /\ First \notin Calls
    BY FirstPair DEF NewSession, Sessions, Reasons, Names, SessionConstants
  <1>2. NewSession(0) # None /\ NewPair(First, None) # None /\ None \notin Names
    BY <1>1 DEF SessionConstants
  <1>3. Idle \in CallRecords
    <2>1. <<>> \in Seq(RowNames) /\ {} \in SUBSET RowNames
      OBVIOUS
    <2> QED
      BY <2>1 DEF Idle, CallRecords, Steps, Reasons
  <1>4. TypeOK
    BY <1>1, <1>3 DEF Init, TypeOK
  <1>5. /\ \A p \in Names : pair[p] # None <=> p = First
        /\ \A s \in Names : session[s] # None <=> s = First
        /\ pair[First] = NewPair(First, None)
        /\ \A c \in Calls : call[c] = Idle /\ c \in Names
        /\ stored = First
    BY <1>1, <1>2 DEF Init, Names
  <1>6. RowsAgree /\ SingleUse
    BY <1>1, <1>5, FirstPair DEF RowsAgree, SingleUse, Made
  <1>7. Exclusive
    BY <1>5 DEF Exclusive, Idle
  <1>8. ASSUME NEW c \in Calls PROVE CallKnows(c)
    <2>1. /\ call[c].at = "idle" /\ call[c].held = {} /\ call[c].snap = None /\ call[c].todo = <<>>
          /\ call[c].code = "NONE"
      BY <1>5 DEF Idle
    <2>2. ~Made(c) /\ call[c] = Idle
      BY <1>1, <1>5 DEF Made
    <2> QED
      BY <2>1, <2>2 DEF CallKnows, OfToken
  <1> QED
    BY <1>4, <1>6, <1>7, <1>8 DEF SessionInv

\* Every step keeps the invariant, on every kind of device.
LEMMA SessionStep == SessionConstants /\ SessionInv /\ [Next]_vars => SessionInv'
  <1> SUFFICES ASSUME SessionConstants, SessionInv, [Next]_vars PROVE SessionInv'
    OBVIOUS
  <1>1. ASSUME NEW c \in Calls,
               \/ Begin(c) \/ Credential(c) \/ Issue(c)
               \/ Refreshing(c)
               \/ FindSignOut(c) \/ FindSwitch(c) \/ BeginRecovery(c) \/ ListSessions(c)
               \/ Sweeping(c)
               \/ Receive(c) \/ Save(c) \/ LoseAnswer(c) \/ Fail(c)
        PROVE  SessionInv'
    BY <1>1, BeginStep, CredentialStep, IssueStep, RefreshingQuiet, RotateStep, BeginRecoveryStep, ListStep,
       SnapshotStep, UpdateStep, CommitSweepStep, CommitSwitchStep, DeviceStep, FailStep
    DEF Refreshing, Sweeping
  <1>2. ASSUME NEW s \in Names, Lapse(s) PROVE SessionInv'
    BY <1>2, LapseStep
  <1>3. CASE UNCHANGED vars
    <2>1. UNCHANGED <<session, pair, securityEpoch, stored, call>>
      BY <1>3 DEF vars
    <2>2. TypeOK' /\ RowsAgree' /\ SingleUse' /\ Exclusive'
      BY <2>1 DEF SessionInv, TypeOK, RowsAgree, SingleUse, Exclusive, Made
    <2>3. \A c \in Calls : \A row \in call[c].held : Lockable(row)'
      BY <2>1 DEF SessionInv, CallKnows, Lockable, Made
    <2>4. \A c \in Calls : CallKnows(c)'
      BY <2>1, <2>3, OthersKnow DEF SessionInv, Made
    <2> QED
      BY <2>2, <2>4 DEF SessionInv
  <1> QED
    BY <1>1, <1>2, <1>3 DEF Next

-----------------------------------------------------------------------------
(* The order of the locks.                                                 *)

\* Refresh tokens are locked before the session, and the session before the access tokens.
Rank(table) == IF table = "refresh" THEN 1 ELSE IF table = "session" THEN 2 ELSE 3

\* A call waits for rows of a later table than those it holds.
LEMMA LocksInOrder ==
    ASSUME SessionInv, NEW c \in Calls, call[c].op # "recover", NEW w \in Wanted(c), NEW h \in call[c].held
    PROVE  Rank(h[1]) < Rank(w[1])
  <1>1. CallKnows(c)
    BY DEF SessionInv
  <1>2. call[c].at # "consume"
    BY <1>1 DEF CallKnows
  <1>3. CASE call[c].at = "rotate"
    <2>1. w = <<"session", call[c].session>> /\ h = <<"refresh", call[c].token>>
      BY <1>1, <1>3 DEF CallKnows, Wanted
    <2> QED
      BY <2>1 DEF Rank
  <1>4. CASE call[c].at = "sweep" /\ call[c].snap # None
    <2>1. w \in call[c].snap
      BY <1>4 DEF Wanted
    <2>2. SweepsOne(c) /\ Found(c)
      BY <1>1, <1>4 DEF CallKnows, SweepKnows
    <2>3. PICK s : s = call[c].session
      OBVIOUS
    <2>4. w[1] = Head(call[c].todo)[1]
      BY <2>1, <2>2 DEF Found
    <2>5. CASE call[c].todo = Statements(s)
      BY <2>2, <2>3, <2>5 DEF SweepsOne, Statements, Later, AtLast
    <2>6. CASE call[c].todo = Later(s)
      <3>1. h \in {"refresh"} \X Names
        BY <2>2, <2>3, <2>6 DEF SweepsOne, Statements, Later, AtLast
      <3>2. w[1] = "session" /\ h[1] = "refresh"
        BY <2>4, <2>6, <3>1 DEF Later
      <3> QED
        BY <3>2 DEF Rank
    <2>7. CASE call[c].todo = AtLast(s)
      <3>1. h \in {"refresh", "session"} \X Names
        BY <2>2, <2>3, <2>7 DEF SweepsOne, Statements, Later, AtLast
      <3>2. w[1] = "access" /\ h[1] \in {"refresh", "session"}
        BY <2>4, <2>7, <3>1 DEF AtLast
      <3> QED
        BY <3>2 DEF Rank
    <2> QED
      BY <2>2, <2>3, <2>5, <2>6, <2>7 DEF SweepsOne, Found
  <1> QED
    BY <1>2, <1>3, <1>4 DEF Wanted

\* So that no two wait for each other.
LEMMA NobodyWaitsForEver == SessionInv => NoLockCycle
  <1> SUFFICES ASSUME SessionInv, NEW c \in Calls, NEW d \in Calls, call[c].op # "recover", call[d].op # "recover",
                      Waits(c, d), Waits(d, c)
               PROVE  FALSE
    BY DEF NoLockCycle
  <1>1. PICK v : v \in Wanted(c) /\ v \in call[d].held
    BY DEF Waits
  <1>2. PICK w : w \in Wanted(d) /\ w \in call[c].held
    BY DEF Waits
  <1>3. Rank(w[1]) < Rank(v[1]) /\ Rank(v[1]) < Rank(w[1])
    BY <1>1, <1>2, LocksInOrder
  <1>4. Rank(w[1]) \in Int /\ Rank(v[1]) \in Int
    BY DEF Rank
  <1> QED
    BY <1>3, <1>4

-----------------------------------------------------------------------------
(* Access tokens, where nothing recovers the account.                      *)

\* A call that ends a session finds the tokens that are active when others make none for it.
LEMMA FindsStill ==
    ASSUME SessionInv, NEW c \in Calls, call[c].op # "recover", FindsAccess(c), call'[c] = call[c],
           call[c].at = "sweep" /\ <<"session", call[c].session>> \in call[c].held =>
              \A p \in Names : pair'[p] # None /\ pair'[p].session = call[c].session /\ pair'[p].access = "ACTIVE" =>
                                  Made(p) /\ pair[p].session = call[c].session /\ pair[p].access = "ACTIVE"
    PROVE  FindsAccess(c)'
  <1> SUFFICES ASSUME call[c].at = "sweep" PROVE FindsAccess(c)'
    BY DEF FindsAccess
  <1>1. PICK s : s = call[c].session
    OBVIOUS
  <1>2. SweepsOne(c)
    BY DEF SessionInv, CallKnows, SweepKnows
  <1>3. CASE call[c].todo \in {AtLast(s), <<>>}
    <2>1. <<"session", s>> \in call[c].held
      BY <1>1, <1>2, <1>3 DEF SweepsOne, Statements, Later, AtLast
    <2>2. ActiveAccess(s)' \subseteq ActiveAccess(s)
      BY <1>1, <2>1 DEF ActiveAccess, Family, Made
    <2>3. {"access"} \X (ActiveAccess(s)') \subseteq {"access"} \X ActiveAccess(s)
      BY <2>2
    <2>4. call'[c].session = s
      BY <1>1
    <2> QED
      BY <1>1, <2>3, <2>4 DEF FindsAccess, ActiveAccess, Family, AtLast
  <1>4. CASE call[c].todo \notin {AtLast(s), <<>>}
    BY <1>1, <1>4 DEF FindsAccess, AtLast
  <1> QED
    BY <1>3, <1>4

\* A step that leaves the rows as they are, and what a call is told by it.
LEMMA AccessQuiet ==
    ASSUME SessionInv, SessionInv', AccessInv, "recover" \notin Ops, NEW c \in Calls, UNCHANGED <<session, pair>>,
           \A d \in Calls \ {c} : call'[d] = call[d],
           call'[c].code = "TOKENS" => call[c].code = "TOKENS" \/ Active(pair[c].session),
           FindsAccess(c)'
    PROVE  AccessInv'
  <1>1. \A d \in Calls : call'[d].op # "recover"
    BY DEF SessionInv, TypeOK, CallRecords
  <1>2. ASSUME NEW d \in Calls \ {c} PROVE FindsAccess(d)'
    BY FindsStill DEF AccessInv, Made
  <1>3. AccessEndsWithSession'
    BY DEF AccessInv, AccessEndsWithSession, Active
  <1> QED
    BY <1>1, <1>2, <1>3 DEF AccessInv

\* What a call is like after what the steps do to it.
LEMMA CallAfter ==
    ASSUME TypeOK, NEW c \in Calls
    PROVE  /\ \A code : Answer(c, code) =>
                 call'[c].at = "answered" /\ call'[c].code = code /\ call'[c].op = call[c].op
                 /\ call'[c].token = call[c].token /\ call'[c].session = call[c].session
           /\ \A why : SweepFor(c, why) =>
                 call'[c].at = "sweep" /\ call'[c].todo = Statements(call[c].session) /\ call'[c].why = why
                 /\ call'[c].op = call[c].op /\ call'[c].token = call[c].token /\ call'[c].session = call[c].session
                 /\ call'[c].code = call[c].code
           /\ \A step : Goto(c, step) => call'[c].at = step /\ call'[c].code = call[c].code /\ call'[c].op = call[c].op
                 /\ call'[c].token = call[c].token /\ call'[c].session = call[c].session
  <1>1. call \in [Calls -> CallRecords] /\ call[c] \in CallRecords
    BY DEF TypeOK
  <1>2. \A code : Answer(c, code) =>
          call'[c].at = "answered" /\ call'[c].code = code /\ call'[c].op = call[c].op
          /\ call'[c].token = call[c].token /\ call'[c].session = call[c].session
    BY <1>1 DEF Answer, CallRecords
  <1>3. \A why : SweepFor(c, why) =>
          call'[c].at = "sweep" /\ call'[c].todo = Statements(call[c].session) /\ call'[c].why = why
          /\ call'[c].op = call[c].op /\ call'[c].token = call[c].token /\ call'[c].session = call[c].session
          /\ call'[c].code = call[c].code
    BY <1>1 DEF SweepFor, CallRecords
  <1>4. \A step : Goto(c, step) =>
          call'[c].at = step /\ call'[c].code = call[c].code /\ call'[c].op = call[c].op
          /\ call'[c].token = call[c].token /\ call'[c].session = call[c].session
    BY <1>1 DEF Goto, CallRecords
  <1> QED
    BY <1>2, <1>3, <1>4

\* How a call begins.
LEMMA CallBegun ==
    ASSUME TypeOK, NEW c \in Calls, Begin(c)
    PROVE  \E op \in Ops \ {"recover"} :
              /\ stored # None <=> op # "signin"
              /\ Platform = "android" => \A d \in Calls : call[d].op = "recover" \/ call[d].at \in {"idle", "done"}
              /\ call'[c].op = op /\ call'[c].token = stored
              /\ call'[c].session = IF stored = None THEN None ELSE pair[stored].session
              /\ \/ call'[c].at = "credential" /\ call'[c].code = "NONE" /\ op = "signin"
                 \/ call'[c].at = "answered" /\ call'[c].code = "REFUSED" /\ op \in {"signout", "switch"}
                 \/ call'[c].at = "find" /\ call'[c].code = "NONE" /\ op # "signin"
              /\ op = "switch" => Platform = "web"
  <1>1. PICK op \in Ops \ {"recover"} :
          /\ MayBegin(c, op)
          /\ op = "switch" => Platform = "web"
          /\ call' = [call EXCEPT ![c] = [Idle EXCEPT
                !.at = CASE op = "signin" -> "credential"
                         [] op \in {"signout", "switch"} /\ ~Authenticated -> "answered"
                         [] OTHER -> "find",
                !.code = IF op \in {"signout", "switch"} /\ ~Authenticated THEN "REFUSED" ELSE "NONE",
                !.op = op,
                !.token = stored,
                !.session = IF stored = None THEN None ELSE pair[stored].session,
                !.epoch = securityEpoch]]
    BY DEF Begin
  <1>2. PICK at : at = CASE op = "signin" -> "credential"
                         [] op \in {"signout", "switch"} /\ ~Authenticated -> "answered"
                         [] OTHER -> "find"
    OBVIOUS
  <1>3. PICK code : code = IF op \in {"signout", "switch"} /\ ~Authenticated THEN "REFUSED" ELSE "NONE"
    OBVIOUS
  <1>4. PICK s : s = IF stored = None THEN None ELSE pair[stored].session
    OBVIOUS
  <1>5. \/ at = "credential" /\ code = "NONE" /\ op = "signin"
        \/ at = "answered" /\ code = "REFUSED" /\ op \in {"signout", "switch"}
        \/ at = "find" /\ code = "NONE" /\ op # "signin"
    BY <1>2, <1>3
  <1>6. PICK q : q = [Idle EXCEPT !.at = at, !.code = code, !.op = op, !.token = stored, !.session = s,
                                  !.epoch = securityEpoch]
    OBVIOUS
  <1>7. q.at = at /\ q.code = code /\ q.op = op /\ q.token = stored /\ q.session = s
    BY <1>6 DEF Idle
  <1>8. call' = [call EXCEPT ![c] = q]
    BY <1>1, <1>2, <1>3, <1>4, <1>6
  <1>9. call'[c] = q
    BY <1>8 DEF TypeOK
  <1> QED
    BY <1>1, <1>4, <1>5, <1>7, <1>9 DEF MayBegin

\* The steps that make no pair and find no row.
LEMMA AccessGoesOn ==
    ASSUME SessionInv, SessionInv', AccessInv, "recover" \notin Ops, NEW c \in Calls, UNCHANGED <<session, pair>>,
           \/ Begin(c) \/ Credential(c) \/ Refreshing(c) \/ FindSignOut(c) \/ FindSwitch(c) \/ BeginRecovery(c)
           \/ Receive(c) \/ Save(c) \/ LoseAnswer(c) \/ Fail(c),
           ~Rotate(c)
    PROVE  AccessInv'
  <1>1. call \in [Calls -> CallRecords] /\ call[c] \in CallRecords
    BY DEF SessionInv, TypeOK
  <1>2. \/ /\ call'[c].at # "sweep"
           /\ call'[c].code = "TOKENS" => call[c].code = "TOKENS" \/ (call[c].at = "principal" /\ Active(call[c].session))
        \/ call'[c].at = "sweep" /\ call'[c].todo = Statements(call'[c].session) /\ call'[c].code = call[c].code
    <2>1. CASE Begin(c)
      BY <2>1, CallBegun DEF SessionInv
    <2>2. CASE Credential(c) \/ BeginRecovery(c)
      BY <1>1, <2>2 DEF Credential, BeginRecovery, CallRecords
    <2>3. CASE FindRefresh(c) \/ FindActive(c) \/ FindSignOut(c) \/ FindSwitch(c)
      <3>1. \/ \E step \in {"active", "consume"} : Goto(c, step)
            \/ \E why : SweepFor(c, why)
            \/ Answer(c, "REFUSED")
        BY <2>3 DEF FindRefresh, FindActive, FindSignOut, FindSwitch
      <3> QED
        BY <3>1, CallAfter DEF SessionInv
    <2>4. CASE Consume(c) \/ Principal(c)
      <3>1. \/ call[c].at = "principal" /\ Active(call[c].session) /\ Answer(c, "TOKENS")
            \/ SweepFor(c, "principal")
            \/ Answer(c, "INVALID_REFRESH_TOKEN")
            \/ call' = [call EXCEPT ![c].at = "rotate", ![c].held = {<<"refresh", call[c].token>>}]
        BY <2>4 DEF Consume, Principal
      <3>2. CASE call' = [call EXCEPT ![c].at = "rotate", ![c].held = {<<"refresh", call[c].token>>}]
        BY <1>1, <3>2 DEF CallRecords
      <3> QED
        BY <3>1, <3>2, CallAfter DEF SessionInv
    <2>5. CASE Receive(c) \/ Save(c) \/ LoseAnswer(c) \/ Fail(c)
      BY <1>1, <2>5 DEF Receive, Save, LoseAnswer, Fail, Goto, CallRecords
    <2> QED
      BY <2>1, <2>2, <2>3, <2>4, <2>5 DEF Refreshing
  <1>3. \A d \in Calls \ {c} : call'[d] = call[d]
    BY <1>1 DEF Begin, Credential, BeginRecovery, Refreshing, FindRefresh, FindActive, FindSignOut, FindSwitch, Goto,
                Answer, SweepFor, Consume, Principal, Receive, Save, LoseAnswer, Fail
  <1>4. call[c].at = "principal" => pair[c].session = call[c].session
    BY DEF SessionInv, CallKnows
  <1>5. FindsAccess(c)'
    <2>1. \A s : Statements(s) # AtLast(s) /\ Statements(s) # <<>>
      BY DEF Statements, AtLast
    <2> QED
      BY <1>2, <2>1 DEF FindsAccess, AtLast
  <1> QED
    BY <1>2, <1>3, <1>4, <1>5, AccessQuiet

\* An UPDATE finds the access tokens that are active, and takes those that are so still.
LEMMA AccessFinds ==
    ASSUME SessionInv, SessionInv', AccessInv, "recover" \notin Ops, NEW c \in Calls, Snapshot(c) \/ Update(c)
    PROVE  AccessInv'
  <1>1. /\ call[c] \in CallRecords /\ call \in [Calls -> CallRecords] /\ call[c].at = "sweep" /\ SweepKnows(c)
        /\ UNCHANGED <<session, pair>> /\ call[c].todo \in Seq(RowNames) /\ call[c].op # "recover"
    BY DEF SessionInv, TypeOK, CallKnows, Snapshot, Update, AccessInv, CallRecords
  <1>2. PICK s : s = call[c].session
    OBVIOUS
  <1>3. CASE Snapshot(c)
    <2>1. /\ call'[c].at = "sweep" /\ call'[c].todo = call[c].todo /\ call'[c].session = s /\ call'[c].code = call[c].code
          /\ call'[c].snap = Matching(Head(call[c].todo)[1], Head(call[c].todo)[2]) /\ call[c].todo # <<>>
          /\ \A d \in Calls \ {c} : call'[d] = call[d]
      BY <1>1, <1>2, <1>3 DEF Snapshot, CallRecords
    <2>2. FindsAccess(c)'
      <3>1. CASE call[c].todo = AtLast(s)
        <4>1. Head(call[c].todo)[1] = "access" /\ Head(call[c].todo)[2] = s
          BY <3>1 DEF AtLast
        <4>2. call'[c].snap = {"access"} \X ActiveAccess(s)
          BY <2>1, <4>1 DEF Matching
        <4>3. ActiveAccess(s)' = ActiveAccess(s)
          BY <1>1 DEF ActiveAccess, Family
        <4>4. {"access"} \X (ActiveAccess(s)') \subseteq call'[c].snap
          BY <4>2, <4>3
        <4> QED
          BY <2>1, <4>4 DEF FindsAccess, ActiveAccess, Family, AtLast
      <3>2. CASE call[c].todo # AtLast(s)
        BY <2>1, <3>2 DEF FindsAccess, AtLast
      <3> QED
        BY <3>1, <3>2
    <2> QED
      BY <1>1, <2>1, <2>2, AccessQuiet
  <1>4. CASE Update(c)
    <2>1. /\ call'[c].at = "sweep" /\ call'[c].todo = Tail(call[c].todo) /\ call'[c].session = s
          /\ call'[c].code = call[c].code /\ call'[c].snap = None /\ call[c].snap # None
          /\ call'[c].held = call[c].held \cup {row \in call[c].snap : StillMatches(row)}
          /\ \A d \in Calls \ {c} : call'[d] = call[d]
      BY <1>1, <1>2, <1>4 DEF Update, CallRecords
    <2>2. call[c].todo # <<>> /\ SweepsOne(c)
      BY <1>1, <2>1 DEF SweepKnows, Found
    <2>3. FindsAccess(c)'
      <3>1. CASE call[c].todo = AtLast(s)
        <4>1. {"access"} \X ActiveAccess(s) \subseteq call[c].snap
          BY <1>1, <1>2, <2>1, <3>1 DEF AccessInv, FindsAccess
        <4>2. ASSUME NEW row \in {"access"} \X ActiveAccess(s) PROVE StillMatches(row)
          BY DEF StillMatches, ActiveAccess, Family
        <4>3. {"access"} \X ActiveAccess(s) \subseteq call'[c].held
          BY <2>1, <4>1, <4>2
        <4>4. ActiveAccess(s)' = ActiveAccess(s)
          BY <1>1 DEF ActiveAccess, Family
        <4>5. {"access"} \X (ActiveAccess(s)') \subseteq call'[c].held
          BY <4>3, <4>4
        <4> QED
          BY <2>1, <4>5 DEF FindsAccess, ActiveAccess, Family, AtLast
      <3>2. CASE call[c].todo # AtLast(s)
        <4>1. call[c].todo = Statements(s) \/ call[c].todo = Later(s)
          BY <1>2, <2>2, <3>2 DEF SweepsOne
        <4>2. Tail(call[c].todo) # <<>>
          <5>1. Len(Statements(s)) = 3 /\ Len(Later(s)) = 2
            BY DEF Statements, Later
          <5>2. Len(call[c].todo) = 3 \/ Len(call[c].todo) = 2
            BY <4>1, <5>1, Zenon
          <5>3. Len(call[c].todo) > 1
            BY <5>2
          <5> QED
            BY <1>1, <5>3, MoreThanOne
        <4> QED
          BY <2>1, <4>2 DEF FindsAccess
      <3> QED
        BY <3>1, <3>2
    <2> QED
      BY <1>1, <2>1, <2>3, AccessQuiet
  <1> QED
    BY <1>3, <1>4

\* A step that makes a pair.
LEMMA AccessMade ==
    ASSUME SessionConstants, SessionInv, SessionInv', AccessInv, "recover" \notin Ops, NEW c \in Calls, Issue(c) \/ Rotate(c)
    PROVE  AccessInv'
  <1>1. /\ call[c] \in CallRecords /\ call \in [Calls -> CallRecords] /\ CallKnows(c) /\ c \in Names /\ ~Made(c)
        /\ session \in [Names -> Sessions \cup {None}] /\ pair \in [Names -> Pairs \cup {None}]
    BY DEF SessionInv, TypeOK, CallKnows, Before, Issue, Rotate, Names
  <1>2. \A d \in Calls \ {c} : call'[d] = call[d]
    BY <1>1 DEF Issue, Rotate, Answer
  <1>3. PICK s : s = IF call[c].at = "issue" THEN c ELSE call[c].session
    OBVIOUS
  <1>4. /\ call'[c].at # "sweep"
        /\ call'[c].code = "TOKENS" => session'[c].status = "ACTIVE" /\ s = c
    <2>1. CASE Issue(c)
      BY <1>1, <1>3, <2>1 DEF Issue, Answer, NewSession, CallRecords
    <2>2. CASE Rotate(c)
      BY <1>1, <2>2 DEF Rotate, CallRecords, CallKnows
    <2> QED
      BY <2>1, <2>2
  <1>5. /\ pair'[c].session = s
        /\ \A p \in Names : Made(p) => pair'[p] # None /\ pair'[p].session = pair[p].session /\ pair'[p].access = pair[p].access
        /\ \A p \in Names \ {c} : pair'[p] # None => Made(p)
    <2>1. CASE Issue(c)
      BY <1>1, <1>3, <2>1 DEF Issue, NewPair, Made
    <2>2. CASE Rotate(c)
      <3>1. PICK t \in Names : t = call[c].token /\ Made(t) /\ t # c /\ pair[t] \in Pairs /\ call[c].at = "rotate"
        BY <1>1, <2>2 DEF Rotate, CallKnows, OfToken, Made
      <3>2. PICK used : /\ used = [pair[t] EXCEPT !.refresh = "USED"] /\ used # None /\ used \in Pairs
                        /\ used.session = pair[t].session /\ used.access = pair[t].access
        <4>1. [pair[t] EXCEPT !.refresh = "USED"] \in Pairs
          BY <3>1 DEF Pairs, TokenStates
        <4> QED
          BY <3>1, <4>1 DEF Pairs, SessionConstants
      <3>3. pair' = [pair EXCEPT ![t] = used, ![c] = NewPair(call[c].session, call[c].token)]
        BY <2>2, <3>1, <3>2 DEF Rotate
      <3>4. pair'[t] = used /\ pair'[c].session = s /\ \A p \in Names \ {c, t} : pair'[p] = pair[p]
        BY <1>1, <1>3, <3>1, <3>3 DEF NewPair
      <3> QED
        BY <1>1, <3>1, <3>2, <3>4 DEF Made
    <2> QED
      BY <2>1, <2>2
  <1>6. \A o \in Names : session[o] # None => Active(o)' = Active(o)
    <2>1. CASE Issue(c)
      BY <1>1, <2>1 DEF Issue, SessionInv, RowsAgree, Active
    <2>2. CASE Rotate(c)
      <3>1. PICK o \in Names : o = call[c].session /\ session[o] \in Sessions
        <4>1. PICK t \in Names : t = call[c].token /\ Made(t) /\ pair[t].session = call[c].session
          BY <1>1, <2>2 DEF Rotate, CallKnows, OfToken
        <4>2. pair[t].session \in Names /\ session[pair[t].session] # None
          BY <1>1, <4>1 DEF SessionInv, RowsAgree, Made, Pairs
        <4> QED
          BY <1>1, <4>1, <4>2
      <3>2. session' = [session EXCEPT ![o] = Refreshed(o)] /\ Refreshed(o).status = session[o].status
        BY <2>2, <3>1 DEF Rotate, Refreshed, Sessions
      <3> QED
        BY <1>1, <3>1, <3>2 DEF Active
    <2> QED
      BY <2>1, <2>2
  <1>7. ASSUME NEW d \in Calls \ {c}, call[d].at = "sweep", <<"session", call[d].session>> \in call[d].held
        PROVE  s # call[d].session
    <2>1. CASE Issue(c)
      <3>1. Lockable(<<"session", call[d].session>>)
        BY <1>7 DEF SessionInv, CallKnows
      <3>2. session[call[d].session] # None
        BY <3>1 DEF Lockable
      <3> QED
        BY <1>1, <1>3, <2>1, <3>2 DEF Issue, SessionInv, RowsAgree
    <2>2. CASE Rotate(c)
      <3>1. ~Waits(c, d) /\ c # d /\ Wanted(c) = {<<"session", call[c].session>>} /\ call[c].at = "rotate"
        BY <2>2, <1>7 DEF Rotate, Granted, Wanted
      <3>2. <<"session", call[c].session>> \notin call[d].held
        BY <3>1 DEF Waits
      <3> QED
        BY <1>3, <1>7, <3>1, <3>2
    <2> QED
      BY <2>1, <2>2
  <1>8. ASSUME NEW d \in Calls PROVE FindsAccess(d)'
    <2>1. CASE d = c
      BY <1>4, <2>1 DEF FindsAccess
    <2>2. CASE d # c
      BY <1>2, <1>5, <1>7, <2>2, FindsStill DEF AccessInv, Made
    <2> QED
      BY <2>1, <2>2
  <1>9. AccessEndsWithSession'
    <2> SUFFICES ASSUME NEW d \in Calls, pair'[d] # None, call'[d].code = "TOKENS", ~Active(pair[d].session)'
                 PROVE  pair'[d].access # "ACTIVE"
      BY DEF AccessEndsWithSession
    <2>1. CASE d = c
      BY <1>4, <1>5, <2>1 DEF Active
    <2>2. CASE d # c
      <3>1. Made(d) /\ pair'[d].session = pair[d].session /\ pair'[d].access = pair[d].access /\ call[d].code = "TOKENS"
        BY <1>2, <1>5, <2>2 DEF Names
      <3>2. PICK o \in Names : o = pair[d].session /\ session[o] # None
        BY <3>1 DEF SessionInv, TypeOK, RowsAgree, Made, Pairs, Names
      <3>3. ~Active(o)'
        BY <3>1, <3>2 DEF Active
      <3>4. ~Active(o)
        BY <1>6, <3>2, <3>3
      <3> QED
        BY <3>1, <3>2, <3>4 DEF AccessInv, AccessEndsWithSession, Made
    <2> QED
      BY <2>1, <2>2
  <1>10. \A d \in Calls : call'[d].op # "recover"
    BY DEF SessionInv, TypeOK, CallRecords
  <1> QED
    BY <1>8, <1>9, <1>10 DEF AccessInv

\* The commit of a sweep.
LEMMA AccessEnds ==
    ASSUME SessionConstants, SessionInv, SessionInv', AccessInv, "recover" \notin Ops, NEW c \in Calls,
           CommitSweep(c) \/ CommitSwitch(c)
    PROVE  AccessInv'
  <1>1. /\ call[c] \in CallRecords /\ CallKnows(c) /\ c \in Names /\ call[c].at = "sweep" /\ call[c].todo = <<>>
        /\ call[c].op # "recover" /\ SweepsOne(c) /\ FindsAccess(c)
    BY DEF SessionInv, TypeOK, CallKnows, SweepKnows, CommitSweep, CommitSwitch, Swept, Names, AccessInv
  <1>2. PICK status \in Ends :
          \/ CommitSweep(c) /\ session' = SweptSessions(c, status) /\ pair' = SweptPairs(c, status)
          \/ /\ CommitSwitch(c) /\ session' = [SweptSessions(c, status) EXCEPT ![c] = NewSession(call[c].epoch)]
             /\ pair' = [SweptPairs(c, status) EXCEPT ![c] = NewPair(c, None)]
    BY DEF CommitSweep, CommitSwitch, Ends
  <1>3. PICK s \in Names : s = call[c].session /\ session[s] # None
    BY <1>1 DEF CallKnows, SessionInv, TypeOK, RowsAgree, Made, Pairs
  <1>4. /\ call[c].held \subseteq ({"refresh", "access"} \X Names) \cup {<<"session", s>>}
        /\ <<"session", s>> \in call[c].held /\ {"access"} \X ActiveAccess(s) \subseteq call[c].held
    BY <1>1, <1>3 DEF SweepsOne, FindsAccess, Statements, Later, AtLast
  <1>5. /\ call'[c].at = "answered"
        /\ call'[c].code = "TOKENS" => CommitSwitch(c)
        /\ \A d \in Calls \ {c} : call'[d] = call[d]
    <2>1. \/ CommitSwitch(c) /\ Answer(c, "TOKENS")
          \/ \E code \in {"OK", "REUSE", "REFUSED"} : Answer(c, code)
      BY <1>2 DEF CommitSweep, CommitSwitch
    <2>2. \A d \in Calls \ {c} : call'[d] = call[d]
      BY <2>1 DEF Answer, SessionInv, TypeOK
    <2> QED
      BY <2>1, <2>2, CallAfter DEF SessionInv
  <1>6. CommitSwitch(c) => ~Made(c) /\ session[c] = None
    BY <1>1 DEF CommitSwitch, CallKnows, SessionInv, RowsAgree
  <1>7. SweptPairs(c, status) \in [Names -> Pairs \cup {None}] /\ SweptSessions(c, status) \in [Names -> Sessions \cup {None}]
    BY <1>1, SweptRows
  <1>8. \A p \in Names : Made(p) => pair'[p] = SweptPairs(c, status)[p]
    BY <1>2, <1>6, <1>7
  <1>9. \A o \in Names : session[o] # None => session'[o] = SweptSessions(c, status)[o]
    BY <1>2, <1>6, <1>7
  <1>10. \A p \in Names : pair'[p] # None => Made(p) \/ (p = c /\ pair'[p] = NewPair(c, None) /\ CommitSwitch(c))
    <2>1. \A p \in Names : pair[p] = None => SweptPairs(c, status)[p] = None
      BY <1>1, SweptRows
    <2> QED
      BY <1>2, <1>7, <2>1 DEF Made
  <1>11. ASSUME NEW p \in Names, Made(p)
         PROVE  /\ pair'[p].session = pair[p].session
                /\ pair'[p].access = "ACTIVE" => pair[p].access = "ACTIVE" /\ pair[p].session # s
    <2>1. /\ SweptPairs(c, status)[p].session = pair[p].session
          /\ <<"access", p>> \in call[c].held => SweptPairs(c, status)[p].access = status
          /\ <<"access", p>> \notin call[c].held => SweptPairs(c, status)[p].access = pair[p].access
      BY <1>11, SweptPair
    <2>2. pair'[p] = SweptPairs(c, status)[p]
      BY <1>8, <1>11
    <2>3. pair[p].access = "ACTIVE" /\ pair[p].session = s => <<"access", p>> \in call[c].held
      BY <1>4, <1>11 DEF ActiveAccess, Family, Made
    <2> QED
      BY <2>1, <2>2, <2>3 DEF Ends
  <1>12. \A o \in Names \ {s} : session[o] # None => session'[o] = session[o]
    <2>1. \A o \in Names \ {s} : <<"session", o>> \notin call[c].held
      BY <1>4
    <2>2. \A o \in Names : <<"session", o>> \notin call[c].held => SweptSessions(c, status)[o] = session[o]
      BY <1>1, SweptRows
    <2> QED
      BY <1>9, <2>1, <2>2
  <1>13. ASSUME NEW d \in Calls PROVE FindsAccess(d)'
    <2>1. CASE d = c
      BY <1>5, <2>1 DEF FindsAccess
    <2>2. CASE d # c
      <3>1. call'[d] = call[d] /\ call[d].op # "recover" /\ FindsAccess(d)
        BY <1>5, <2>2 DEF AccessInv
      <3>2. ASSUME call[d].at = "sweep", <<"session", call[d].session>> \in call[d].held,
                   NEW p \in Names, pair'[p] # None, pair'[p].session = call[d].session, pair'[p].access = "ACTIVE"
            PROVE  Made(p) /\ pair[p].session = call[d].session /\ pair[p].access = "ACTIVE"
        <4>1. Lockable(<<"session", call[d].session>>)
          BY <3>2 DEF SessionInv, CallKnows
        <4>2. session[call[d].session] # None
          BY <4>1 DEF Lockable
        <4>3. Made(p)
          BY <1>1, <1>6, <1>10, <3>2, <4>2, FirstPair
        <4> QED
          BY <1>11, <3>2, <4>3
      <3> QED
        BY <3>1, <3>2, FindsStill
    <2> QED
      BY <2>1, <2>2
  <1>14. AccessEndsWithSession'
    <2> SUFFICES ASSUME NEW d \in Calls, pair'[d] # None, call'[d].code = "TOKENS", ~Active(pair[d].session)'
                 PROVE  pair'[d].access # "ACTIVE"
      BY DEF AccessEndsWithSession
    <2>1. CASE d = c
      <3>1. CommitSwitch(c) /\ pair'[c] = NewPair(c, None)
        BY <1>5, <1>6, <1>10, <2>1, <1>1
      <3>2. session'[c].status = "ACTIVE"
        BY <1>1, <1>2, <1>7, <3>1 DEF NewSession, CommitSweep, CommitSwitch
      <3> QED
        BY <1>1, <2>1, <3>1, <3>2, FirstPair DEF Active
    <2>2. CASE d # c
      <3>1. Made(d) /\ call[d].code = "TOKENS" /\ d \in Names
        BY <1>5, <1>10, <2>2 DEF Names
      <3>2. PICK o \in Names : o = pair[d].session /\ session[o] # None
        BY <3>1 DEF SessionInv, TypeOK, RowsAgree, Made, Pairs
      <3>3. pair'[d].session = o
        BY <1>11, <3>1, <3>2
      <3>4. CASE o = s
        BY <1>11, <3>1, <3>2, <3>4
      <3>5. CASE o # s
        <4>1. session'[o] = session[o]
          BY <1>12, <3>2, <3>5
        <4>2. session[o].status # "ACTIVE"
          BY <3>3, <4>1 DEF Active
        <4>3. pair[d].access # "ACTIVE"
          BY <3>1, <3>2, <4>2 DEF AccessInv, AccessEndsWithSession, Active, Made
        <4> QED
          BY <1>11, <3>1, <4>3
      <3> QED
        BY <3>4, <3>5
    <2> QED
      BY <2>1, <2>2
  <1>15. \A d \in Calls : call'[d].op # "recover"
    BY DEF SessionInv, TypeOK, CallRecords
  <1> QED
    BY <1>13, <1>14, <1>15 DEF AccessInv

\* A session lapses, or the epoch passes.
LEMMA AccessLapse ==
    ASSUME SessionInv, SessionInv', AccessInv, "recover" \notin Ops, UNCHANGED <<pair, call>>,
           \A s \in Names : session[s] # None => Active(s)' = Active(s)
    PROVE  AccessInv'
  <1>1. ASSUME NEW d \in Calls PROVE FindsAccess(d)'
    BY FindsStill DEF AccessInv, Made
  <1>2. AccessEndsWithSession'
    <2> SUFFICES ASSUME NEW d \in Calls, pair[d] # None, call[d].code = "TOKENS", ~Active(pair[d].session)'
                 PROVE  pair[d].access # "ACTIVE"
      BY DEF AccessEndsWithSession
    <2>1. PICK o \in Names : o = pair[d].session /\ session[o] # None
      BY DEF SessionInv, TypeOK, RowsAgree, Made, Pairs, Names
    <2>2. ~Active(o)'
      BY <2>1 DEF Active
    <2>3. ~Active(o)
      BY <2>1, <2>2
    <2> QED
      BY <2>1, <2>3 DEF AccessInv, AccessEndsWithSession
  <1> QED
    BY <1>1, <1>2 DEF AccessInv

\* Every step keeps AccessInv.
LEMMA AccessStep ==
    SessionConstants /\ "recover" \notin Ops /\ SessionInv /\ SessionInv' /\ AccessInv /\ [Next]_vars => AccessInv'
  <1> SUFFICES ASSUME SessionConstants, "recover" \notin Ops, SessionInv, SessionInv', AccessInv, [Next]_vars
               PROVE  AccessInv'
    OBVIOUS
  <1>1. ASSUME NEW c \in Calls,
               \/ Begin(c) \/ Credential(c) \/ Refreshing(c) \/ FindSignOut(c) \/ FindSwitch(c) \/ BeginRecovery(c)
               \/ Receive(c) \/ Save(c) \/ LoseAnswer(c) \/ Fail(c),
               ~Rotate(c)
        PROVE  AccessInv'
    <2>1. UNCHANGED <<session, pair>>
      BY <1>1 DEF Begin, Credential, Refreshing, FindRefresh, FindActive, Consume, Principal, FindSignOut, FindSwitch,
                  BeginRecovery, Receive, Save, LoseAnswer, Fail
    <2> QED
      BY <1>1, <2>1, AccessGoesOn
  <1>2. ASSUME NEW c \in Calls, ListSessions(c) PROVE AccessInv'
    <2>1. call[c].op = "recover"
      BY <1>2 DEF ListSessions, SessionInv, CallKnows
    <2> QED
      BY <2>1 DEF AccessInv
  <1>3. ASSUME NEW s \in Names, Lapse(s) PROVE AccessInv'
    <2>1. session[s] \in Sessions
      BY <1>3 DEF SessionInv, TypeOK, Lapse
    <2>2. \A o \in Names : session[o] # None => Active(o)' = Active(o)
      BY <1>3, <2>1 DEF Lapse, Active, Sessions, SessionInv, TypeOK
    <2>3. UNCHANGED <<pair, call>>
      BY <1>3 DEF Lapse
    <2> QED
      BY <2>2, <2>3, AccessLapse
  <1>4. CASE UNCHANGED vars
    <2>1. UNCHANGED <<pair, call>> /\ \A o \in Names : session[o] # None => Active(o)' = Active(o)
      BY <1>4 DEF vars, Active
    <2> QED
      BY <2>1, AccessLapse
  <1>5. ASSUME NEW c \in Calls, Issue(c) \/ Rotate(c) \/ Sweeping(c) PROVE AccessInv'
    BY <1>5, AccessMade, AccessFinds, AccessEnds DEF Sweeping
  <1> QED
    BY <1>1, <1>2, <1>3, <1>4, <1>5 DEF Next, Refreshing

\* AccessInv is true at first.
LEMMA AccessInit == Init => AccessInv
  <1> SUFFICES ASSUME Init PROVE AccessInv
    OBVIOUS
  <1>1. \A c \in Calls : call[c].op = "NONE" /\ call[c].at = "idle" /\ call[c].code = "NONE"
    BY DEF Init, Idle
  <1> QED
    BY <1>1 DEF AccessInv, FindsAccess, AccessEndsWithSession

-----------------------------------------------------------------------------
(* A phone that loses no answers.                                          *)

\* A step that leaves the pairs of the others usable.
LEMMA MobileMoves ==
    ASSUME SessionInv, MobileInv, NEW c \in Calls, \A d \in Calls \ {c} : call'[d] = call[d],
           \A s \in Names : session[s] # None /\ ~Active(s) => ~Active(s)',
           \/ \A p \in Names : Made(p) /\ Usable(p) => Usable(p)'
           \/ Under(c),
           MobileKnows(c)',
           Under(c)' => Under(c) \/ \A d \in Calls : ~Under(d),
           stored' # None /\ ~Under(c)' /\ (\A d \in Calls \ {c} : ~Under(d)) => Usable(stored)',
           RotationIsInvisible'
    PROVE  MobileInv'
  <1>1. \A d \in Calls \ {c} : Under(d)' <=> Under(d)
    BY DEF Under
  <1>2. OneAtATime'
    BY <1>1 DEF MobileInv, OneAtATime
  <1>3. stored' # None /\ (\A d \in Calls : ~Under(d)') => Usable(stored)'
    BY <1>1
  <1>4. ASSUME NEW d \in Calls \ {c} PROVE MobileKnows(d)'
    <2>1. MobileKnows(d) /\ CallKnows(d) /\ call'[d] = call[d] /\ d \in Names
      BY DEF MobileInv, SessionInv, Names
    <2>2. CASE \A p \in Names : Made(p) /\ Usable(p) => Usable(p)'
      <3>1. call[d].at \in {"find", "active"} => Usable(call[d].token)'
        BY <2>1, <2>2 DEF MobileKnows, CallKnows, OfToken
      <3>2. call[d].at = "principal" => Usable(d)'
        BY <2>1, <2>2 DEF MobileKnows, CallKnows
      <3>3. call[d].at = "answered" /\ call[d].code = "TOKENS" => Usable(d)'
        BY <2>1, <2>2 DEF MobileKnows, CallKnows
      <3>4. call[d].at = "sweep" /\ call[d].why = "reuse" => ~Active(call[d].session)'
        <4>1. SUFFICES ASSUME call[d].at = "sweep", call[d].why = "reuse" PROVE ~Active(call[d].session)'
          OBVIOUS
        <4>2. call[d].op # "recover" /\ ~Active(call[d].session)
          BY <2>1, <4>1 DEF MobileKnows, Why
        <4>3. PICK s \in Names : s = call[d].session /\ session[s] # None
          BY <2>1, <4>1, <4>2 DEF CallKnows, SessionInv, TypeOK, RowsAgree, Made, Pairs
        <4>4. ~Active(s)'
          BY <4>2, <4>3
        <4> QED
          BY <2>1, <4>3, <4>4 DEF Active
      <3> QED
        BY <2>1, <3>1, <3>2, <3>3, <3>4 DEF MobileKnows, Usable, Active
    <2>3. CASE Under(c)
      <3>1. ~Under(d)
        BY <2>3 DEF MobileInv, OneAtATime
      <3>2. call[d].at \in {"idle", "done"} \/ call[d].op = "recover"
        BY <3>1 DEF Under
      <3>3. /\ call[d].at \notin {"find", "active", "principal"}
            /\ call[d].at = "answered" => call[d].code # "TOKENS"
            /\ call[d].at = "sweep" => call[d].why # "reuse"
        BY <2>1, <3>2 DEF CallKnows, MobileKnows, OfToken, Why
      <3> QED
        BY <2>1, <3>3 DEF MobileKnows
    <2> QED
      BY <2>2, <2>3
  <1> QED
    BY <1>2, <1>3, <1>4 DEF MobileInv

\* A step that leaves the rows as they are.
LEMMA MobileQuiet ==
    ASSUME SessionInv, MobileInv, NEW c \in Calls, \A d \in Calls \ {c} : call'[d] = call[d],
           UNCHANGED <<session, pair>>,
           MobileKnows(c)',
           Under(c)' => Under(c) \/ \A d \in Calls : ~Under(d),
           stored' # None /\ ~Under(c)' /\ (\A d \in Calls \ {c} : ~Under(d)) => Usable(stored)'
    PROVE  MobileInv'
  <1>1. RotationIsInvisible'
    BY DEF MobileInv, RotationIsInvisible
  <1>2. \A s \in Names : session[s] # None /\ ~Active(s) => ~Active(s)'
    BY DEF Active
  <1>3. \A p \in Names : Made(p) /\ Usable(p) => Usable(p)'
    BY DEF Usable, Active
  <1> QED
    BY <1>1, <1>2, <1>3, MobileMoves

\* What a phone does.
PhoneOps == {"refresh", "signin", "signout", "recover"}

\* A call of the device begins when none is under way.
LEMMA MobileBegins ==
    ASSUME SessionInv, MobileInv, Platform = "android", Ops \subseteq PhoneOps, NEW c \in Calls, Begin(c)
    PROVE  MobileInv'
  <1>1. call \in [Calls -> CallRecords] /\ call[c].at = "idle" /\ UNCHANGED <<session, pair, securityEpoch, stored>>
    BY DEF SessionInv, TypeOK, Begin
  <1>2. PICK op \in PhoneOps \ {"recover"} :
              /\ stored # None <=> op # "signin"
              /\ \A d \in Calls : call[d].op = "recover" \/ call[d].at \in {"idle", "done"}
              /\ call'[c].op = op /\ call'[c].token = stored
              /\ \/ call'[c].at = "credential" /\ op = "signin"
                 \/ call'[c].at = "answered" /\ call'[c].code = "REFUSED" /\ op \in {"signout", "switch"}
                 \/ call'[c].at = "find" /\ op # "signin"
    <2>1. PICK op \in Ops \ {"recover"} :
              /\ stored # None <=> op # "signin"
              /\ Platform = "android" => \A d \in Calls : call[d].op = "recover" \/ call[d].at \in {"idle", "done"}
              /\ call'[c].op = op /\ call'[c].token = stored
              /\ \/ call'[c].at = "credential" /\ call'[c].code = "NONE" /\ op = "signin"
                 \/ call'[c].at = "answered" /\ call'[c].code = "REFUSED" /\ op \in {"signout", "switch"}
                 \/ call'[c].at = "find" /\ call'[c].code = "NONE" /\ op # "signin"
      BY CallBegun DEF SessionInv
    <2>2. op \in PhoneOps \ {"recover"}
      BY <2>1
    <2> QED
      BY <2>1, <2>2
  <1>3. \A d \in Calls : ~Under(d)
    BY <1>2 DEF Under
  <1>4. \A d \in Calls \ {c} : call'[d] = call[d]
    BY <1>1 DEF Begin
  <1>5. stored # None => Usable(stored)
    BY <1>3 DEF MobileInv
  <1>6. stored' # None => Usable(stored)'
    BY <1>1, <1>5 DEF Usable, Active
  <1>7. call'[c].at = "find" => Usable(call[c].token)'
    BY <1>2, <1>1, <1>6 DEF Usable, Active
  <1>8. MobileKnows(c)'
    BY <1>2, <1>7 DEF MobileKnows, PhoneOps
  <1> QED
    BY <1>1, <1>3, <1>4, <1>6, <1>8, MobileQuiet

\* Steps of a call that change no rows.
LEMMA MobileGoesOn ==
    ASSUME SessionInv, SessionInv', MobileInv, Platform = "android", Ops \subseteq PhoneOps, NEW c \in Calls,
           \/ Credential(c) \/ FindRefresh(c) \/ FindActive(c) \/ Consume(c) \/ Principal(c)
           \/ FindSignOut(c) \/ FindSwitch(c) \/ BeginRecovery(c) \/ ListSessions(c) \/ Snapshot(c) \/ Update(c)
    PROVE  MobileInv'
  <1>1. /\ call \in [Calls -> CallRecords] /\ call[c] \in CallRecords /\ CallKnows(c) /\ MobileKnows(c)
        /\ UNCHANGED <<session, pair, securityEpoch, stored>>
    BY DEF SessionInv, TypeOK, MobileInv, Credential, FindRefresh, FindActive, Consume, Principal, FindSignOut,
           FindSwitch, BeginRecovery, ListSessions, Snapshot, Update
  <1>2. \A d \in Calls \ {c} : call'[d] = call[d]
    BY <1>1 DEF Credential, FindRefresh, FindActive, Consume, Principal, FindSignOut, FindSwitch, BeginRecovery,
                ListSessions, Snapshot, Update, Goto, Answer, SweepFor
  <1>3. call[c].op \in PhoneOps \cup {"NONE"}
    BY <1>1 DEF CallRecords
  <1>4. /\ MobileKnows(c)'
        /\ ~BeginRecovery(c) => call'[c].op = call[c].op /\ call[c].at \notin {"idle", "done"} /\ call'[c].at \notin {"idle", "done"}
    <2>1. CASE Credential(c)
      BY <1>1, <2>1 DEF Credential, CallRecords, MobileKnows
    <2>2. CASE FindRefresh(c)
      <3>1. /\ call[c].at = "find" /\ call[c].op = "refresh" /\ Usable(call[c].token)
            /\ \/ Answer(c, "REFUSED") \/ SweepFor(c, "expire") \/ Goto(c, "active")
        BY <1>1, <2>2 DEF FindRefresh, MobileKnows
      <3>2. /\ call'[c].op = "refresh" /\ call'[c].token = call[c].token
            /\ \/ call'[c].at = "answered" /\ call'[c].code = "REFUSED"
               \/ call'[c].at = "sweep" /\ call'[c].why = "expire"
               \/ call'[c].at = "active"
        BY <3>1, CallAfter DEF SessionInv
      <3>3. Usable(call[c].token)'
        BY <1>1, <3>1, <3>2 DEF Usable, Active
      <3> QED
        BY <3>1, <3>2, <3>3 DEF MobileKnows, Why
    <2>3. CASE FindActive(c)
      <3>1. call[c].at = "active" /\ call[c].op = "refresh" /\ Usable(call[c].token)
        BY <1>1, <2>3 DEF FindActive, MobileKnows
      <3>2. Goto(c, "consume") \/ (SweepFor(c, "reuse") /\ ~Active(call[c].session))
        <4>1. call[c].token \in Names /\ Made(call[c].token) /\ pair[call[c].token].session = call[c].session
          BY <1>1, <3>1 DEF CallKnows, OfToken
        <4>2. CASE Active(call[c].session)
          <5>1. pair[call[c].token].refresh = "ACTIVE"
            BY <3>1, <4>1, <4>2 DEF Usable
          <5>2. \A p \in Names : Made(p) /\ pair[p].session = call[c].session /\ pair[p].refresh = "ACTIVE" => p = call[c].token
            BY <4>1, <5>1 DEF SessionInv, RowsAgree
          <5>3. ActiveRefresh(call[c].session) = {call[c].token}
            BY <4>1, <5>1, <5>2 DEF ActiveRefresh, Family, Made
          <5> QED
            BY <2>3, <5>3 DEF FindActive
        <4>3. CASE ~Active(call[c].session)
          BY <2>3, <4>3 DEF FindActive
        <4> QED
          BY <4>2, <4>3
      <3>3. /\ call'[c].op = "refresh" /\ call'[c].session = call[c].session
            /\ \/ call'[c].at = "consume"
               \/ call'[c].at = "sweep" /\ call'[c].why = "reuse" /\ ~Active(call[c].session)
        BY <3>1, <3>2, CallAfter DEF SessionInv
      <3> QED
        BY <1>1, <3>1, <3>3 DEF MobileKnows, Why, Active
    <2>4. CASE Consume(c)
      <3>1. call[c].at = "consume" /\ call[c].op = "refresh"
        BY <1>1, <2>4 DEF Consume, MobileKnows
      <3>2. /\ call'[c].op = "refresh"
            /\ \/ call'[c].at = "answered" /\ call'[c].code = "INVALID_REFRESH_TOKEN"
               \/ call'[c].at = "rotate"
        <4>1. \/ Answer(c, "INVALID_REFRESH_TOKEN")
              \/ call' = [call EXCEPT ![c].at = "rotate", ![c].held = {<<"refresh", call[c].token>>}]
          BY <2>4 DEF Consume
        <4>2. CASE call' = [call EXCEPT ![c].at = "rotate", ![c].held = {<<"refresh", call[c].token>>}]
          BY <1>1, <3>1, <4>2 DEF CallRecords
        <4> QED
          BY <3>1, <4>1, <4>2, CallAfter DEF SessionInv
      <3> QED
        BY <3>1, <3>2 DEF MobileKnows
    <2>5. CASE Principal(c)
      <3>1. call[c].at = "principal" /\ call[c].op = "refresh" /\ Usable(c)
        BY <1>1, <2>5 DEF Principal, MobileKnows
      <3>2. Answer(c, "TOKENS") \/ SweepFor(c, "principal")
        BY <2>5 DEF Principal
      <3>3. /\ call'[c].op = "refresh"
            /\ \/ call'[c].at = "answered" /\ call'[c].code = "TOKENS"
               \/ call'[c].at = "sweep" /\ call'[c].why = "principal"
        BY <3>1, <3>2, CallAfter DEF SessionInv
      <3>4. Usable(c)'
        BY <1>1, <3>1 DEF Usable, Active
      <3> QED
        BY <3>1, <3>3, <3>4 DEF MobileKnows, Why
    <2>6. CASE FindSignOut(c)
      <3>1. call[c].at = "find" /\ call[c].op = "signout" /\ SweepFor(c, "signout")
        BY <2>6 DEF FindSignOut
      <3>2. call'[c].at = "sweep" /\ call'[c].why = "signout" /\ call'[c].op = "signout"
        BY <3>1, CallAfter DEF SessionInv
      <3> QED
        BY <3>1, <3>2 DEF MobileKnows, Why
    <2>7. CASE FindSwitch(c)
      BY <1>3, <2>7 DEF FindSwitch, PhoneOps
    <2>8. CASE BeginRecovery(c)
      <3>1. call'[c].at = "list" /\ call'[c].op = "recover"
        BY <1>1, <2>8 DEF BeginRecovery, CallRecords
      <3> QED
        BY <2>8, <3>1 DEF MobileKnows
    <2>9. CASE ListSessions(c)
      <3>1. call[c].at = "list" /\ call[c].op = "recover" /\ call[c].why = "recover"
        BY <1>1, <2>9 DEF ListSessions, CallKnows
      <3>2. call'[c].at = "sweep" /\ call'[c].why = "recover" /\ call'[c].op = "recover"
        <4>1. PICK todo : call' = [call EXCEPT ![c].at = "sweep", ![c].todo = todo]
          BY <2>9 DEF ListSessions
        <4> QED
          BY <1>1, <3>1, <4>1 DEF CallRecords
      <3> QED
        BY <3>1, <3>2 DEF MobileKnows, Why
    <2>10. CASE Snapshot(c) \/ Update(c)
      <3>1. call[c].at = "sweep"
        BY <2>10 DEF Snapshot, Update
      <3>2. /\ call'[c].at = "sweep" /\ call'[c].why = call[c].why /\ call'[c].op = call[c].op
            /\ call'[c].session = call[c].session
        BY <1>1, <2>10, <3>1 DEF Snapshot, Update, CallRecords
      <3> QED
        BY <1>1, <3>1, <3>2 DEF MobileKnows, Active
    <2> QED
      BY <2>1, <2>2, <2>3, <2>4, <2>5, <2>6, <2>7, <2>8, <2>9, <2>10
  <1>5. Under(c)' <=> Under(c)
    <2>1. CASE BeginRecovery(c)
      <3>1. call[c].at = "idle" /\ call'[c].op = "recover"
        BY <1>1, <2>1 DEF BeginRecovery, CallRecords
      <3> QED
        BY <3>1 DEF Under
    <2>2. CASE ~BeginRecovery(c)
      BY <1>4, <2>2 DEF Under
    <2> QED
      BY <2>1, <2>2
  <1>6. stored' # None /\ ~Under(c)' /\ (\A d \in Calls \ {c} : ~Under(d)) => Usable(stored)'
    BY <1>1, <1>5 DEF MobileInv, Usable, Active
  <1> QED
    BY <1>1, <1>2, <1>4, <1>5, <1>6, MobileQuiet

\* A sign-in of the device.
LEMMA MobileIssues ==
    ASSUME SessionConstants, SessionInv, SessionInv', MobileInv, NEW c \in Calls, Issue(c)
    PROVE  MobileInv'
  <1>1. /\ call \in [Calls -> CallRecords] /\ call[c] \in CallRecords /\ CallKnows(c) /\ MobileKnows(c) /\ c \in Names
        /\ call[c].at = "issue" /\ ~Made(c) /\ session[c] = None
        /\ session \in [Names -> Sessions \cup {None}] /\ pair \in [Names -> Pairs \cup {None}]
    BY DEF SessionInv, TypeOK, MobileInv, Issue, CallKnows, Before, RowsAgree, Names
  <1>2. /\ session' = [session EXCEPT ![c] = NewSession(call[c].epoch)]
        /\ pair' = [pair EXCEPT ![c] = NewPair(c, None)]
        /\ Answer(c, "TOKENS") /\ stored' = stored
    BY DEF Issue
  <1>3. call'[c].at = "answered" /\ call'[c].code = "TOKENS" /\ call'[c].op = call[c].op /\ call[c].op # "recover"
    BY <1>1, <1>2, CallAfter DEF SessionInv, CallKnows
  <1>4. \A d \in Calls \ {c} : call'[d] = call[d]
    BY <1>1, <1>2 DEF Answer
  <1>5. \A o \in Names \ {c} : session'[o] = session[o] /\ pair'[o] = pair[o]
    BY <1>1, <1>2
  <1>6. session'[c] = NewSession(call[c].epoch) /\ pair'[c].refresh = "ACTIVE"
    BY <1>1, <1>2, FirstPair
  <1>7. \A s \in Names : session[s] # None /\ ~Active(s) => ~Active(s)'
    BY <1>1, <1>5 DEF Active
  <1>8. Under(c)
    BY <1>1, <1>3 DEF Under
  <1>9. MobileKnows(c)'
    BY <1>1, <1>3, <1>6 DEF MobileKnows, Usable
  <1>10. RotationIsInvisible'
    BY <1>1, <1>5, <1>6 DEF MobileInv, RotationIsInvisible, NewSession
  <1>11. Under(c)'
    BY <1>3 DEF Under
  <1> QED
    BY <1>4, <1>7, <1>8, <1>9, <1>10, <1>11, MobileMoves

\* A rotation of the pair the device has stored.
LEMMA MobileRotates ==
    ASSUME SessionConstants, SessionInv, SessionInv', MobileInv, NEW c \in Calls, Rotate(c)
    PROVE  MobileInv'
  <1>1. /\ call \in [Calls -> CallRecords] /\ call[c] \in CallRecords /\ CallKnows(c) /\ MobileKnows(c) /\ c \in Names
        /\ call[c].at = "rotate" /\ call[c].op = "refresh" /\ ~Made(c)
        /\ session \in [Names -> Sessions \cup {None}] /\ pair \in [Names -> Pairs \cup {None}]
    BY DEF SessionInv, TypeOK, MobileInv, MobileKnows, Rotate, CallKnows, Before, Names
  <1>2. PICK s \in Names : s = call[c].session /\ session[s] \in Sessions
    <2>1. PICK t \in Names : t = call[c].token /\ Made(t) /\ pair[t].session = call[c].session
      BY <1>1 DEF CallKnows, OfToken
    <2>2. pair[t].session \in Names /\ session[pair[t].session] # None
      BY <1>1, <2>1 DEF SessionInv, RowsAgree, Made, Pairs
    <2> QED
      BY <1>1, <2>1, <2>2
  <1>3. /\ session' = [session EXCEPT ![s] = Refreshed(s)] /\ Refreshed(s).status = session[s].status
        /\ Refreshed(s).why = session[s].why
        /\ pair' = [pair EXCEPT ![call[c].token].refresh = "USED", ![c] = NewPair(s, call[c].token)]
        /\ call' = [call EXCEPT ![c].at = "principal", ![c].held = {}]
    BY <1>2 DEF Rotate, Refreshed, Sessions
  <1>4. call'[c].at = "principal" /\ call'[c].op = "refresh" /\ \A d \in Calls \ {c} : call'[d] = call[d]
    BY <1>1, <1>3 DEF CallRecords
  <1>5. pair'[c].refresh = "ACTIVE"
    BY <1>1, <1>3 DEF NewPair
  <1>6. /\ \A o \in Names \ {s} : session'[o] = session[o]
        /\ session'[s].status = session[s].status /\ session'[s].why = session[s].why
    BY <1>1, <1>2, <1>3
  <1>7. \A o \in Names : session[o] # None /\ ~Active(o) => ~Active(o)'
    BY <1>2, <1>6 DEF Active
  <1>8. RotationIsInvisible'
    BY <1>2, <1>6 DEF MobileInv, RotationIsInvisible, SessionConstants
  <1>9. Under(c) /\ Under(c)'
    BY <1>1, <1>4 DEF Under
  <1>10. MobileKnows(c)'
    BY <1>4, <1>5 DEF MobileKnows, Usable
  <1> QED
    BY <1>4, <1>7, <1>8, <1>9, <1>10, MobileMoves

\* A session of the device ends.
LEMMA MobileEnds ==
    ASSUME SessionConstants, SessionInv, SessionInv', MobileInv, Ops \subseteq PhoneOps, NEW c \in Calls,
           CommitSweep(c) \/ CommitSwitch(c)
    PROVE  MobileInv'
  <1>1. /\ call[c] \in CallRecords /\ call \in [Calls -> CallRecords] /\ CallKnows(c) /\ MobileKnows(c) /\ c \in Names
        /\ call[c].at = "sweep" /\ call[c].todo = <<>> /\ SweepKnows(c)
    BY DEF SessionInv, TypeOK, MobileInv, CallKnows, CommitSweep, CommitSwitch, Swept, Names
  <1>2. call[c].why \in Why(call[c].op) /\ call[c].why # "switch" /\ call[c].op \in {"signout", "refresh", "recover"}
    BY <1>1 DEF MobileKnows, Why
  <1>3. PICK status \in Ends :
          CommitSweep(c) /\ session' = SweptSessions(c, status) /\ pair' = SweptPairs(c, status) /\ stored' = stored
    BY <1>2 DEF CommitSweep, CommitSwitch, Ends
  <1>4. /\ call'[c].at = "answered" /\ call'[c].op = call[c].op
        /\ call'[c].code \in {"OK", "REUSE", "REFUSED"}
        /\ call[c].op = "refresh" => call'[c].code # "OK"
        /\ \A d \in Calls \ {c} : call'[d] = call[d]
    <2>1. PICK code \in {"OK", "REUSE", "REFUSED"} : Answer(c, code) /\ (call[c].op = "refresh" => code # "OK")
      BY <1>2, <1>3 DEF CommitSweep, Why
    <2>2. \A d \in Calls \ {c} : call'[d] = call[d]
      BY <1>1, <2>1 DEF Answer
    <2> QED
      BY <2>1, <2>2, CallAfter DEF SessionInv
  <1>5. \A s \in Names : <<"session", s>> \notin call[c].held => session'[s] = session[s]
    BY <1>1, <1>3, SweptRows
  <1>6. \A s \in Names : <<"session", s>> \in call[c].held =>
           session'[s].status = status /\ session'[s].why = IF Active(s) THEN call[c].why ELSE session[s].why
    BY <1>1, <1>3, SweptRows
  <1>7. \A s \in Names : session[s] # None /\ ~Active(s) => ~Active(s)'
    BY <1>5, <1>6 DEF Active, Ends
  <1>8. ASSUME NEW p \in Names, Made(p), Usable(p) PROVE Usable(p)'
    <2>1. PICK s \in Names : s = pair[p].session /\ session[s] # None
      BY <1>8 DEF SessionInv, TypeOK, RowsAgree, Made, Pairs
    <2>2. /\ pair'[p].session = s
          /\ <<"refresh", p>> \notin call[c].held => pair'[p].refresh = pair[p].refresh
      <3>1. /\ SweptPairs(c, status)[p].session = pair[p].session
            /\ <<"refresh", p>> \notin call[c].held => SweptPairs(c, status)[p].refresh = pair[p].refresh
        BY <1>8, SweptPair
      <3> QED
        BY <1>3, <2>1, <3>1
    <2>3. CASE <<"refresh", p>> \in call[c].held
      <3>1. Covered(c, s)
        BY <1>1, <2>1, <2>3 DEF SweepKnows
      <3>2. <<"session", s>> \in call[c].held
        BY <1>1, <3>1 DEF Covered
      <3>3. ~Active(s)'
        BY <1>6, <3>2 DEF Active, Ends
      <3> QED
        BY <2>2, <3>3 DEF Usable, Active
    <2>4. CASE <<"refresh", p>> \notin call[c].held
      <3>1. pair[p].refresh = "ACTIVE" \/ ~Active(s)
        BY <1>8, <2>1 DEF Usable
      <3>2. ~Active(s) => ~Active(s)'
        BY <1>7, <2>1
      <3> QED
        BY <2>2, <2>4, <3>1, <3>2 DEF Usable, Active
    <2> QED
      BY <2>3, <2>4
  <1>9. RotationIsInvisible'
    <2> SUFFICES ASSUME NEW s \in Names, session'[s] # None PROVE session'[s].why # "reuse"
      BY DEF RotationIsInvisible
    <2>1. CASE <<"session", s>> \notin call[c].held
      BY <1>5, <2>1 DEF MobileInv, RotationIsInvisible
    <2>2. CASE <<"session", s>> \in call[c].held
      <3>1. Lockable(<<"session", s>>)
        BY <1>1, <2>2 DEF CallKnows
      <3>2. session[s] # None
        BY <3>1 DEF Lockable
      <3>3. CASE call[c].why = "reuse"
        <4>1. call[c].op # "recover" /\ ~Active(call[c].session)
          BY <1>1, <1>2, <3>3 DEF MobileKnows, Why
        <4>2. s = call[c].session
          BY <1>1, <2>2, <4>1 DEF SweepKnows, SweepsOne
        <4> QED
          BY <1>6, <2>2, <3>2, <4>1, <4>2 DEF MobileInv, RotationIsInvisible
      <3>4. CASE call[c].why # "reuse"
        BY <1>6, <2>2, <3>2, <3>4 DEF MobileInv, RotationIsInvisible
      <3> QED
        BY <3>3, <3>4
    <2> QED
      BY <2>1, <2>2
  <1>10. MobileKnows(c)'
    BY <1>2, <1>4 DEF MobileKnows
  <1>11. Under(c)' <=> Under(c)
    BY <1>1, <1>4 DEF Under
  <1>12. stored' # None /\ ~Under(c)' /\ (\A d \in Calls \ {c} : ~Under(d)) => Usable(stored)'
    <2> SUFFICES ASSUME stored # None, \A d \in Calls : ~Under(d) PROVE Usable(stored)'
      BY <1>3, <1>11
    <2>1. PICK p \in Names : p = stored /\ Made(p) /\ Usable(p)
      BY DEF MobileInv, SessionInv, TypeOK, RowsAgree
    <2>2. Usable(p)'
      BY <1>8, <2>1
    <2> QED
      BY <1>3, <2>1, <2>2 DEF Usable, Active
  <1> QED
    BY <1>4, <1>7, <1>8, <1>9, <1>10, <1>11, <1>12, MobileMoves

\* The device receives an answer and stores the pair at once.
LEMMA MobileReceives ==
    ASSUME SessionConstants, SessionInv, SessionInv', MobileInv, Platform = "android", Ops \subseteq PhoneOps,
           NEW c \in Calls, Receive(c)
    PROVE  MobileInv'
  <1>1. /\ call \in [Calls -> CallRecords] /\ call[c] \in CallRecords /\ CallKnows(c) /\ MobileKnows(c)
        /\ call[c].at = "answered" /\ UNCHANGED <<session, pair>>
    BY DEF SessionInv, TypeOK, MobileInv, Receive
  <1>2. \/ call[c].code = "TOKENS" /\ stored' = c
        \/ call[c].code # "TOKENS" /\ stored' = Kept(c, call[c].code)
    BY <1>1 DEF Receive
  <1>3. Goto(c, "done")
    BY <1>1 DEF Receive
  <1>4. call'[c].at = "done" /\ call'[c].op = call[c].op /\ \A d \in Calls \ {c} : call'[d] = call[d]
    BY <1>1, <1>3, CallAfter DEF SessionInv, Goto
  <1>5. call[c].op \in PhoneOps
    BY <1>1 DEF CallRecords, MobileKnows
  <1>6. ~Under(c)' /\ MobileKnows(c)'
    BY <1>1, <1>4 DEF Under, MobileKnows
  <1>7. stored' # None /\ (\A d \in Calls \ {c} : ~Under(d)) => Usable(stored)'
    <2> SUFFICES ASSUME stored' # None, \A d \in Calls \ {c} : ~Under(d) PROVE Usable(stored)'
      OBVIOUS
    <2>1. CASE call[c].code = "TOKENS"
      <3>1. stored' = c /\ Usable(c)
        BY <1>1, <1>2, <2>1 DEF MobileKnows
      <3> QED
        BY <1>1, <3>1 DEF Usable, Active
    <2>2. CASE call[c].code # "TOKENS"
      <3>1. stored' = Kept(c, call[c].code)
        BY <1>2, <2>2
      <3>2. CASE call[c].op = "recover"
        <4>1. stored' = stored
          BY <3>1, <3>2 DEF Kept
        <4>2. \A d \in Calls : ~Under(d)
          BY <3>2 DEF Under
        <4>3. Usable(stored)
          BY <4>1, <4>2 DEF MobileInv
        <4> QED
          BY <1>1, <4>1, <4>3 DEF Usable, Active
      <3>3. CASE call[c].op # "recover"
        <4>1. call[c].op \in {"refresh", "signout"} /\ (call[c].op = "refresh" => call[c].code \notin {"NONE", "OK"})
          BY <1>1, <1>5, <2>2, <3>3 DEF MobileKnows, PhoneOps
        <4>2. Kept(c, call[c].code) = None
          BY <2>2, <4>1 DEF Kept
        <4> QED
          BY <3>1, <4>2
      <3> QED
        BY <3>2, <3>3
    <2> QED
      BY <2>1, <2>2
  <1> QED
    BY <1>1, <1>4, <1>6, <1>7, MobileQuiet

\* Every step keeps MobileInv.
LEMMA MobileStep ==
    SessionConstants /\ Platform = "android" /\ Ops \subseteq PhoneOps /\ ~Lossy
    /\ SessionInv /\ SessionInv' /\ MobileInv /\ [Next]_vars => MobileInv'
  <1> SUFFICES ASSUME SessionConstants, Platform = "android", Ops \subseteq PhoneOps, ~Lossy,
                      SessionInv, SessionInv', MobileInv, [Next]_vars
               PROVE  MobileInv'
    OBVIOUS
  <1>1. ASSUME NEW c \in Calls,
               \/ Begin(c) \/ Credential(c) \/ Issue(c)
               \/ Refreshing(c)
               \/ FindSignOut(c) \/ FindSwitch(c) \/ BeginRecovery(c) \/ ListSessions(c)
               \/ Sweeping(c)
               \/ Receive(c) \/ Save(c) \/ LoseAnswer(c) \/ Fail(c)
        PROVE  MobileInv'
    <2>1. ~LoseAnswer(c) /\ ~Fail(c)
      BY DEF LoseAnswer, Fail
    <2>2. ~Save(c)
      BY DEF Save, MobileInv, MobileKnows
    <2> QED
      BY <1>1, <2>1, <2>2, MobileBegins, MobileGoesOn, MobileIssues, MobileRotates, MobileEnds, MobileReceives
      DEF Refreshing, Sweeping
  <1>2. \A s \in Names : ~Lapse(s)
    BY DEF Lapse
  <1>3. CASE UNCHANGED vars
    BY <1>3 DEF vars, MobileInv, OneAtATime, Under, Usable, Active, MobileKnows, RotationIsInvisible
  <1> QED
    BY <1>1, <1>2, <1>3 DEF Next

\* MobileInv is true at first.
LEMMA MobileInit == SessionConstants /\ Init => MobileInv
  <1> SUFFICES ASSUME SessionConstants, Init PROVE MobileInv
    OBVIOUS
  <1>1. \A c \in Calls : call[c].op = "NONE" /\ call[c].at = "idle" /\ call[c].code = "NONE"
    BY DEF Init, Idle
  <1>2. First \in Names /\ stored = First /\ pair[First] = NewPair(First, None)
    BY DEF Init, Names
  <1>3. pair[First].refresh = "ACTIVE"
    BY <1>2 DEF NewPair
  <1>4. \A s \in Names : session[s] # None => session[s] = NewSession(0)
    BY DEF Init
  <1> QED
    BY <1>1, <1>2, <1>3, <1>4 DEF MobileInv, OneAtATime, Under, Usable, MobileKnows, RotationIsInvisible, NewSession

-----------------------------------------------------------------------------
(* Theorems                                                                *)

\* However calls overlap, get lost and fail, on any device, a refresh token is used once, and no two
\* of refresh, sign-out, expiry and switch wait for each other's row locks.
THEOREM TokensAreUsedOnce == SessionConstants => (Spec => [](SingleUse /\ NoLockCycle))
  <1> SUFFICES ASSUME SessionConstants PROVE Spec => [](SingleUse /\ NoLockCycle)
    OBVIOUS
  <1>1. SessionInv => SingleUse /\ NoLockCycle
    BY NobodyWaitsForEver DEF SessionInv
  <1>2. Init => SessionInv
    BY SessionInit
  <1>3. SessionInv /\ [Next]_vars => SessionInv'
    BY SessionStep
  <1> QED
    BY <1>1, <1>2, <1>3, PTL DEF Spec

\* However refreshes, sign-outs, switches and lost answers overlap, an access token that was handed
\* out ends with its session, where no recovery runs.
THEOREM AccessTokensEnd == SessionConstants /\ "recover" \notin Ops => (Spec => []AccessEndsWithSession)
  <1> SUFFICES ASSUME SessionConstants, "recover" \notin Ops PROVE Spec => []AccessEndsWithSession
    OBVIOUS
  <1>1. AccessInv => AccessEndsWithSession
    BY DEF AccessInv
  <1>2. Init => SessionInv /\ AccessInv
    BY SessionInit, AccessInit
  <1>3. SessionInv /\ [Next]_vars => SessionInv'
    BY SessionStep
  <1>4. SessionInv /\ SessionInv' /\ AccessInv /\ [Next]_vars => AccessInv'
    BY AccessStep
  <1> QED
    BY <1>1, <1>2, <1>3, <1>4, PTL DEF Spec

\* No session of a phone is ended for a reuse, while answers arrive: its mutex makes each refresh
\* present what the one before it has stored.
THEOREM RotationsAreInvisible ==
    SessionConstants /\ Platform = "android" /\ Ops \subseteq PhoneOps /\ ~Lossy => (Spec => []RotationIsInvisible)
  <1> SUFFICES ASSUME SessionConstants, Platform = "android", Ops \subseteq PhoneOps, ~Lossy
               PROVE  Spec => []RotationIsInvisible
    OBVIOUS
  <1>1. MobileInv => RotationIsInvisible
    BY DEF MobileInv
  <1>2. Init => SessionInv /\ MobileInv
    BY SessionInit, MobileInit
  <1>3. SessionInv /\ [Next]_vars => SessionInv'
    BY SessionStep
  <1>4. SessionInv /\ SessionInv' /\ MobileInv /\ [Next]_vars => MobileInv'
    BY MobileStep
  <1> QED
    BY <1>1, <1>2, <1>3, <1>4, PTL DEF Spec
=============================================================================
