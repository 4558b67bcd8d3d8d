--------------------------- MODULE RulePagesProofs ---------------------------
(***************************************************************************)
(* The invariants of the rule pages, for every set of lists, names and     *)
(* sources and every bound.                                                *)
(*                                                                         *)
(* First the rule table: what a rule of a valid list decides goes the same *)
(* way in mihomo's lines and in the dry run, and in the resolver's table   *)
(* when it is a rule on names. Two things carry it: the smallest of least  *)
(* ranks of some sets is the smallest rank of their union, so the table's  *)
(* three indices find the first rule that matches; and ranks number the    *)
(* enabled rules without a gap, so a MATCH that all others precede has the *)
(* last one.                                                               *)
(*                                                                         *)
(* Then the pages. TrackedTruthfully is not inductive: an entry gets its   *)
(* outcome from a poll, which got it from the fallback or from the newest  *)
(* row, so the invariant says of each of them that it speaks of the right  *)
(* apply, and that only the last apply can still be open.                  *)
(***************************************************************************)
EXTENDS RulePages, FiniteSetTheorems, TLAPS

-----------------------------------------------------------------------------
(* The first of a set of ranks                                              *)

\* A set of ranks that is not empty has a first one.
LEMMA FirstIsLeast ==
    ASSUME NEW S \in SUBSET Nat, S /= {}
    PROVE  First(S) \in S /\ \A j \in S : First(S) <= j
<1>1. \E i \in S : \A j \in S : ~(<<j, i>> \in OpToRel(<, Nat))
  BY WFMin, NatLessThanWellFounded, Zenon
<1>2. \A i, j \in Nat : ~(<<j, i>> \in OpToRel(<, Nat)) => i <= j
  BY DEF OpToRel
<1>3. \E i \in S : \A j \in S : i <= j
  BY <1>1, <1>2
<1> QED
  BY <1>3, Zenon DEF First

\* What First means, the other way round: the least member is the first.
LEMMA LeastIsFirst ==
    ASSUME NEW S \in SUBSET Nat, NEW i \in S, \A j \in S : i <= j
    PROVE  First(S) = i
<1>1. First(S) \in S /\ First(S) <= i
  BY FirstIsLeast
<1>2. i <= First(S) /\ First(S) \in Nat /\ i \in Nat
  BY <1>1
<1> QED
  BY <1>1, <1>2

\* The first of the firsts of some sets of ranks is the first of their union.
LEMMA FirstOfFirsts ==
    ASSUME NEW F \in SUBSET (SUBSET Nat)
    PROVE  Candidate(UNION {Candidate(A) : A \in F}) = Candidate(UNION F)
<1> DEFINE U == UNION {Candidate(A) : A \in F}
           V == UNION F
<1>1. \A A \in F : Candidate(A) \subseteq A
  BY FirstIsLeast DEF Candidate
<1>2. U \subseteq V /\ V \subseteq Nat
  BY <1>1
<1>3. CASE V = {}
  BY <1>2, <1>3 DEF Candidate
<1>4. CASE V /= {}
  <2>1. First(V) \in V /\ \A j \in V : First(V) <= j
    BY <1>2, <1>4, FirstIsLeast
  <2>2. PICK A \in F : First(V) \in A
    BY <2>1
  <2>3. A \subseteq V /\ A \in SUBSET Nat /\ A /= {}
    BY <2>2
  <2>4. \A j \in A : First(V) <= j
    BY <2>1, <2>3
  <2>5. First(A) = First(V)
    BY <2>2, <2>3, <2>4, LeastIsFirst
  <2>6. First(V) \in U
    <3>1. First(V) \in Candidate(A)
      BY <2>3, <2>5 DEF Candidate
    <3>2. Candidate(A) \in {Candidate(B) : B \in F}
      BY <2>2
    <3> QED
      BY <3>1, <3>2
  <2>7. \A j \in U : First(V) <= j
    BY <1>2, <2>1
  <2>8. First(U) = First(V) /\ U /= {}
    <3>1. U \in SUBSET Nat
      BY <1>2
    <3> HIDE DEF U, V
    <3> QED
      BY <2>6, <2>7, <3>1, LeastIsFirst
  <2> QED
    BY <1>4, <2>8 DEF Candidate
<1> QED
  BY <1>3, <1>4

-----------------------------------------------------------------------------
(* The three readings                                                       *)

\* The rules on names that the resolver finds for a name.
NameHits(s, name) ==
    {i \in DOMAIN s : \/ s[i].kind = "DOMAIN" /\ Normal(s[i].pat) = name
                      \/ s[i].kind = "SUFFIX" /\ Normal(s[i].pat) \in Ancestors(name)
                      \/ s[i].kind = "KEYWORD" /\ HasKeyword(name, s[i].pat)}

\* lookup finds the first suffix rule that covers the name.
LEMMA SuffixIsFirst ==
    ASSUME NEW s, DOMAIN s \in SUBSET Nat, NEW name
    PROVE  Suffix(s, name) =
             Candidate({i \in DOMAIN s : s[i].kind = "SUFFIX" /\ Normal(s[i].pat) \in Ancestors(name)})
<1> DEFINE F == {Claims(s, "SUFFIX", q) : q \in Ancestors(name)}
           H == {i \in DOMAIN s : s[i].kind = "SUFFIX" /\ Normal(s[i].pat) \in Ancestors(name)}
<1>1. F \in SUBSET (SUBSET Nat)
  BY DEF Claims
<1>2. UNION F = H
  BY DEF Claims
<1>3. {Candidate(A) : A \in F} = {Candidate(Claims(s, "SUFFIX", q)) : q \in Ancestors(name)}
  OBVIOUS
<1> HIDE DEF F, H
<1>4. Candidate(UNION {Candidate(A) : A \in F}) = Candidate(H)
  BY <1>1, <1>2, FirstOfFirsts
<1> QED
  BY <1>3, <1>4 DEF Suffix, H

\* The exact names, the suffixes and the keywords together find the first rule on names.
LEMMA BestIsFirstHit ==
    ASSUME NEW s, DOMAIN s \in SUBSET Nat, NEW name
    PROVE  Best(s, name) = Candidate(NameHits(s, name))
<1> DEFINE E == Claims(s, "DOMAIN", name)
           H == {i \in DOMAIN s : s[i].kind = "SUFFIX" /\ Normal(s[i].pat) \in Ancestors(name)}
           K == {i \in DOMAIN s : s[i].kind = "KEYWORD" /\ HasKeyword(name, s[i].pat)}
<1>1. {E, H, K} \in SUBSET (SUBSET Nat)
  BY DEF Claims
<1>2. E \cup H \cup K = NameHits(s, name)
  BY DEF NameHits, Claims
<1>3. Best(s, name) = Candidate(Candidate(E) \cup Candidate(H) \cup Candidate(K))
  BY SuffixIsFirst DEF Best, Exact, Keyword
<1> HIDE DEF E, H, K
<1>4. Candidate(UNION {Candidate(A) : A \in {E, H, K}}) = Candidate(UNION {E, H, K})
  BY <1>1, FirstOfFirsts
<1>5. /\ UNION {Candidate(A) : A \in {E, H, K}} = Candidate(E) \cup Candidate(H) \cup Candidate(K)
      /\ UNION {E, H, K} = E \cup H \cup K
  OBVIOUS
<1> QED
  BY <1>2, <1>3, <1>4, <1>5

\* What the resolver finds for a list without trailing dots are the rules on names among
\* those that mihomo finds.
LEMMA NameHitsAreHits ==
    ASSUME NEW s, Plain(s), NEW q
    PROVE  NameHits(s, q.name) = {i \in Hits(s, q) : s[i].kind \in NameKinds}
BY DEF Plain, NameHits, Hits, Matches, NameKinds

\* The first rule on names is the first rule, when that is one on names.
LEMMA FirstByName ==
    ASSUME NEW s, DOMAIN s \in SUBSET Nat, Plain(s), NEW q, DecidedByName(s, q), NEW exit
    PROVE  LET name == q.name
           IN (IF Best(s, name) /= {} THEN Category(s[First(Best(s, name))].act)
               ELSE IF Default(s) /= {} THEN Category(s[First(Default(s))].act) ELSE "proxy")
              = (IF Hits(s, q) /= {} THEN Category(s[First(Hits(s, q))].act)
                 ELSE IF Default(s) /= {} THEN Category(s[First(Default(s))].act) ELSE exit)
<1> DEFINE H == Hits(s, q)
           N == NameHits(s, q.name)
<1>1. H \in SUBSET Nat /\ N \in SUBSET Nat
  BY DEF Hits, NameHits
<1>2. Best(s, q.name) = Candidate(N)
  BY BestIsFirstHit
<1>3. N = {i \in H : s[i].kind \in NameKinds}
  BY NameHitsAreHits
<1>4. (H /= {} \/ Default(s) /= {}) /\ (H /= {} => s[First(H)].kind \in NameKinds)
  BY DEF DecidedByName, Decided
<1> HIDE DEF H, N
<1>5. CASE H = {}
  <2>1. Best(s, q.name) = {}
    BY <1>2, <1>3, <1>5 DEF Candidate
  <2> QED
    BY <1>4, <1>5, <2>1 DEF H
<1>6. CASE H /= {}
  <2>1. First(H) \in H /\ \A j \in H : First(H) <= j
    BY <1>1, <1>6, FirstIsLeast
  <2>2. First(H) \in N /\ \A j \in N : First(H) <= j
    BY <1>3, <1>4, <1>6, <2>1
  <2>3. First(N) = First(H)
    BY <1>1, <2>2, LeastIsFirst
  <2>4. Best(s, q.name) = {First(H)} /\ First(H) \in Nat
    BY <1>1, <1>2, <2>1, <2>2, <2>3 DEF Candidate
  <2>5. First(Best(s, q.name)) = First(H)
    BY <2>4, LeastIsFirst
  <2> QED
    BY <1>6, <2>4, <2>5 DEF H
<1> QED
  BY <1>5, <1>6

\* Any ranked list whose MATCH is the last rule: the dry run tells what mihomo does with
\* what a rule decides, and the resolver's table does the same with what a rule on names
\* decides (ruletable.go, mihomo.go, dryrun.go). q stands for any name, network and list.
THEOREM ReadingsAgree ==
    ASSUME NEW s, DOMAIN s \in SUBSET Nat, MatchLast(s),
           NEW n, NEW nets, NEW lists, NEW q, q = [name |-> n, nets |-> nets, lists |-> lists],
           NEW activeExit, NEW baseExit
    PROVE  AgreeOn(s, q, activeExit, baseExit)
<1> DEFINE c == Connection(q)
<1>1. c.name = Normal(q.name) /\ (PlainName(q) => c = q)
  BY DEF Connection, PlainName
<1>2. ASSUME DecidedByName(s, c), Plain(s)
      PROVE  Classified(s, q.name) = FirstLine(s, q, activeExit)
  <2> HIDE DEF c
  <2>1. (IF Best(s, c.name) /= {} THEN Category(s[First(Best(s, c.name))].act)
         ELSE IF Default(s) /= {} THEN Category(s[First(Default(s))].act) ELSE "proxy")
        = (IF Hits(s, c) /= {} THEN Category(s[First(Hits(s, c))].act)
           ELSE IF Default(s) /= {} THEN Category(s[First(Default(s))].act)
           ELSE Category(activeExit))
    BY <1>2, FirstByName
  <2> QED
    BY <1>1, <2>1 DEF Classified, FirstLine, c
<1>3. ASSUME Decided(s, q), PlainName(q)
      PROVE  DryRun(s, q, baseExit) = FirstLine(s, q, activeExit)
  <2> DEFINE H == Hits(s, q)
             M == {i \in DOMAIN s : s[i].kind = "MATCH"}
  <2>1. H \in SUBSET Nat /\ M \in SUBSET Nat /\ Hits(s, c) = H
    BY <1>1, <1>3 DEF Hits
  <2>2. H /= {} \/ M /= {}
    BY <1>3 DEF Decided, Default, Candidate
  <2>3. CASE H = {} /\ M /= {}
    <3>1. Default(s) = {First(M)} /\ First(M) \in Nat
      BY <2>1, <2>3, FirstIsLeast DEF Default, Candidate
    <3>2. First(Default(s)) = First(M) /\ H \cup M = M
      BY <2>3, <3>1, LeastIsFirst
    <3> QED
      BY <2>1, <2>3, <3>1, <3>2 DEF DryRun, FirstLine
  <2>4. CASE H /= {}
    <3>1. First(H) \in H /\ \A j \in H : First(H) <= j
      BY <2>1, <2>4, FirstIsLeast
    <3>2. \A j \in M : First(H) <= j
      BY <3>1 DEF MatchLast, Hits
    <3>3. First(H \cup M) = First(H)
      BY <2>1, <3>1, <3>2, LeastIsFirst
    <3> QED
      BY <2>1, <2>4, <3>3 DEF DryRun, FirstLine
  <2> QED
    BY <2>2, <2>3, <2>4
<1> QED
  BY <1>2, <1>3 DEF AgreeOn

-----------------------------------------------------------------------------
(* Ranks                                                                    *)

\* Precedes is a strict total order on the positions of a list.
LEMMA PrecedesIsTotal ==
    ASSUME NEW l \in Seq(Rule)
    PROVE  /\ \A i \in DOMAIN l : ~Precedes(l, i, i)
           /\ \A i, j \in DOMAIN l : i = j \/ Precedes(l, i, j) \/ Precedes(l, j, i)
           /\ \A i, j, k \in DOMAIN l : Precedes(l, i, j) /\ Precedes(l, j, k) => Precedes(l, i, k)
<1>1. \A i \in DOMAIN l : l[i] \in Rule /\ i \in Int
  OBVIOUS
<1>2. \A r \in Rule : r.prio \in Int
  BY DEF Rule
<1>3. \A i \in DOMAIN l : l[i].prio \in Int
  BY <1>1, <1>2
<1> QED
  BY <1>1, <1>3 DEF Precedes

\* The enabled rules are finitely many, and so are those before one of them.
LEMMA EnabledFinite ==
    ASSUME NEW l \in Seq(Rule)
    PROVE  /\ IsFiniteSet(Enabled(l)) /\ Cardinality(Enabled(l)) \in Nat
           /\ \A i \in Enabled(l) :
                 /\ IsFiniteSet(Before(l, i)) /\ Cardinality(Before(l, i)) \in Nat
                 /\ Before(l, i) \subseteq Enabled(l) \ {i}
                 /\ Cardinality(Before(l, i)) <= Cardinality(Enabled(l)) - 1
<1> DEFINE D == 1..Len(l)
<1>1. IsFiniteSet(D)
  BY FS_Interval
<1>2. Enabled(l) \in SUBSET D
  BY DEF Enabled
<1>3. IsFiniteSet(Enabled(l)) /\ Cardinality(Enabled(l)) \in Nat
  <2> HIDE DEF D
  <2> QED
    BY <1>1, <1>2, FS_Subset, FS_CardinalityType
<1>4. ASSUME NEW i \in Enabled(l)
      PROVE  /\ IsFiniteSet(Before(l, i)) /\ Cardinality(Before(l, i)) \in Nat
             /\ Before(l, i) \subseteq Enabled(l) \ {i}
             /\ Cardinality(Before(l, i)) <= Cardinality(Enabled(l)) - 1
  <2>1. Before(l, i) \in SUBSET (Enabled(l) \ {i})
    BY PrecedesIsTotal DEF Before, Enabled
  <2>2. IsFiniteSet(Enabled(l) \ {i})
        /\ Cardinality(Enabled(l) \ {i}) = Cardinality(Enabled(l)) - 1
    BY <1>3, FS_RemoveElement
  <2>3. IsFiniteSet(Before(l, i)) /\ Cardinality(Before(l, i)) <= Cardinality(Enabled(l) \ {i})
    BY <2>1, <2>2, FS_Subset
  <2> QED
    BY <2>1, <2>2, <2>3, FS_CardinalityType
<1> QED
  BY <1>3, <1>4

\* A rule that precedes another has the smaller rank.
LEMMA RankGrows ==
    ASSUME NEW l \in Seq(Rule), NEW i \in Enabled(l), NEW j \in Enabled(l), Precedes(l, i, j)
    PROVE  Rank(l, i) < Rank(l, j)
<1>1. Before(l, i) \in SUBSET Before(l, j)
  BY PrecedesIsTotal DEF Before, Enabled
<1>2. i \in Before(l, j) /\ i \notin Before(l, i)
  BY PrecedesIsTotal DEF Before, Enabled
<1>3. /\ IsFiniteSet(Before(l, j)) /\ Cardinality(Before(l, j)) \in Nat
      /\ Cardinality(Before(l, i)) \in Nat
  BY EnabledFinite
<1>4. /\ Cardinality(Before(l, i)) <= Cardinality(Before(l, j))
      /\ Cardinality(Before(l, j)) = Cardinality(Before(l, i)) => Before(l, j) = Before(l, i)
  BY <1>1, <1>3, FS_Subset
<1> QED
  BY <1>2, <1>3, <1>4 DEF Rank

\* Ranks leave no gap: the ranked list has a rule at every position.
LEMMA RanksAreComplete ==
    ASSUME NEW l \in Seq(Rule), NEW k \in 1..Cardinality(Enabled(l))
    PROVE  \E i \in Enabled(l) : Rank(l, i) = k
<1> DEFINE S == Enabled(l)
           n == Cardinality(S)
           r == [i \in S |-> Rank(l, i)]
<1>1. IsFiniteSet(S) /\ n \in Nat
  BY EnabledFinite
<1>2. r \in [S -> 1..n]
  BY <1>1, EnabledFinite DEF Rank
<1>3. \A i, j \in S : r[i] = r[j] => i = j
  <2> SUFFICES ASSUME NEW i \in S, NEW j \in S, i /= j
               PROVE  r[i] /= r[j]
    OBVIOUS
  <2>1. Precedes(l, i, j) \/ Precedes(l, j, i)
    BY PrecedesIsTotal DEF Enabled
  <2>2. Rank(l, i) < Rank(l, j) \/ Rank(l, j) < Rank(l, i)
    BY <2>1, RankGrows
  <2> QED
    BY <1>2, <2>2
<1>4. r \in Injection(S, 1..n)
  BY <1>2, <1>3 DEF Injection, IsInjective
<1>5. IsFiniteSet(1..n) /\ Cardinality(1..n) = n
  BY <1>1, FS_Interval
<1>6. r \in Surjection(S, 1..n)
  <2> HIDE DEF r, S
  <2> QED
    BY <1>4, <1>5, FS_Injection
<1> QED
  BY <1>6 DEF Surjection

\* The MATCH of a list that Validate accepts is the last of the enabled rules too.
LEMMA MatchStaysLast ==
    ASSUME NEW l, Validate(l)
    PROVE  MatchLast(Ranked(l))
<1> DEFINE n == Cardinality(Enabled(l))
           At(k) == CHOOSE i \in Enabled(l) : Rank(l, i) = k
<1>1. l \in Seq(Rule) /\ n \in Nat
  BY EnabledFinite DEF Validate
<1>2. \A k \in 1..n : At(k) \in Enabled(l) /\ Rank(l, At(k)) = k
  BY <1>1, RanksAreComplete, Zenon
<1>3. DOMAIN Ranked(l) = 1..n /\ \A k \in 1..n : Ranked(l)[k] = l[At(k)]
  BY DEF Ranked
<1>4. ASSUME NEW k \in 1..n, l[At(k)].kind = "MATCH"
      PROVE  k = n
  <2> DEFINE i == At(k)
  <2>1. i \in Enabled(l) /\ Rank(l, i) = k /\ l[i].kind = "MATCH"
    BY <1>2, <1>4
  <2> HIDE DEF i
  <2>2. \A j \in Enabled(l) \ {i} : Precedes(l, j, i)
    BY <2>1 DEF Validate, Enabled
  <2>3. Before(l, i) = Enabled(l) \ {i}
    BY <1>1, <2>1, <2>2, EnabledFinite DEF Before
  <2>4. Cardinality(Before(l, i)) = n - 1
    BY <1>1, <2>1, <2>3, EnabledFinite, FS_RemoveElement
  <2> QED
    BY <1>1, <2>1, <2>4 DEF Rank
<1>5. ASSUME NEW k \in 1..n, Ranked(l)[k].kind = "MATCH"
      PROVE  \A j \in 1..n : j <= k
  <2>1. k = n
    BY <1>3, <1>4, <1>5
  <2> QED
    BY <1>1, <2>1
<1> HIDE DEF n, At
<1> QED
  BY <1>3, <1>5 DEF MatchLast

\* Every list that Validate accepts, disabled rules and ties included: what one of its
\* rules decides goes the same way in mihomo and in the dry run, and what a rule on
\* names decides goes the same way in the resolver, whatever is asked for and whatever
\* the exits are.
THEOREM ValidListsAgree ==
    ASSUME NEW l, Validate(l),
           NEW n, NEW nets, NEW lists, NEW q, q = [name |-> n, nets |-> nets, lists |-> lists],
           NEW activeExit, NEW baseExit
    PROVE  MatchLast(Ranked(l)) /\ AgreeOn(Ranked(l), q, activeExit, baseExit)
<1>1. MatchLast(Ranked(l))
  BY MatchStaysLast
<1>2. DOMAIN Ranked(l) \in SUBSET Nat
  BY DEF Ranked
<1> QED
  BY <1>1, <1>2, ReadingsAgree

-----------------------------------------------------------------------------
(* The inductive invariant of the editor                                    *)

ValidLists == {l \in Seq(Rule) : Validate(l)}

ApplyRow == [list : ValidLists, row : {"submitted"} \cup Final, outcome : {"open"} \cup Final]

AppliesOK ==
    /\ applies \in Seq(ApplyRow)
    /\ Last <= MaxApplies
    /\ Validate(active)
    /\ phase \in {"none", "running", "observed", "persisted"}

\* A stored outcome is the outcome, and only the running apply is open.
RowsTruthful ==
    \A i \in DOMAIN applies :
        /\ applies[i].row \in Final => applies[i].row = applies[i].outcome
        /\ applies[i].outcome = "open" <=> (i = Last /\ phase = "running")

RunningIsLast == phase /= "none" => Last \in DOMAIN applies

\* The fallback of a list is the outcome of its newest apply.
MemoryIsNewest ==
    /\ memory \subseteq [list : ValidLists, state : Final]
    /\ \A t \in memory : \E i \in DOMAIN applies :
          /\ Snapshot(i) = t.list /\ applies[i].outcome = t.state
          /\ \A j \in DOMAIN applies : Snapshot(j) = t.list => j <= i

\* An apply of the same list, this one or a later one, had the outcome v.
Vouched(e, v) ==
    \E i \in DOMAIN applies : i >= e /\ Snapshot(i) = Snapshot(e) /\ applies[i].outcome = v

AnswerOK ==
    \/ answer = NoAnswer
    \/ /\ answer \in [apply : DOMAIN applies, health : {"observing", "ended"}]
       /\ answer.health = "ended" => applies[answer.apply].outcome \in Final

PollOK ==
    \/ poll = NoPoll
    \/ /\ poll \in [entry : DOMAIN applies, verdict : {"none"} \cup Final]
       /\ poll.verdict /= "none" => Vouched(poll.entry, poll.verdict)

RingOK ==
    /\ ring \in Seq([apply : DOMAIN applies, status : {"pending"} \cup Final])
    /\ Len(ring) <= RingCap
    /\ \A k \in DOMAIN ring : ring[k].status /= "pending" => Vouched(ring[k].apply, ring[k].status)

EditorInv ==
    /\ AppliesOK /\ RowsTruthful /\ RunningIsLast /\ MemoryIsNewest
    /\ AnswerOK /\ PollOK /\ RingOK

-----------------------------------------------------------------------------
(* Facts about the model's operators                                        *)

\* The parts of a row.
LEMMA RowTypes ==
    ASSUME AppliesOK, NEW i \in DOMAIN applies
    PROVE  /\ applies[i] \in ApplyRow
           /\ applies[i].list \in ValidLists
           /\ applies[i].row \in {"submitted"} \cup Final
           /\ applies[i].outcome \in {"open"} \cup Final
<1>1. applies[i] \in ApplyRow
  BY DEF AppliesOK
<1> QED
  BY <1>1 DEF ApplyRow

\* A list that was applied has a newest row.
LEMMA NewestExists ==
    ASSUME AppliesOK, NEW e \in DOMAIN applies
    PROVE  /\ NewestRow(Snapshot(e)) \in DOMAIN applies
           /\ Snapshot(NewestRow(Snapshot(e))) = Snapshot(e)
           /\ NewestRow(Snapshot(e)) >= e
<1> DEFINE D == {j \in DOMAIN applies : Snapshot(j) = Snapshot(e)}
           B == {n \in Nat : \E j \in D : n = Last - j}
<1>1. DOMAIN applies = 1..Last /\ Last \in Nat
  BY DEF AppliesOK, Last
<1>2. B \in SUBSET Nat /\ Last - e \in B
  BY <1>1
<1>3. First(B) \in B /\ \A n \in B : First(B) <= n
  <2> HIDE DEF B
  <2> QED
    BY <1>2, FirstIsLeast
<1>4. PICK i \in D : First(B) = Last - i
  BY <1>3
<1>5. \A j \in D : j <= i
  <2> SUFFICES ASSUME NEW j \in D
               PROVE  j <= i
    OBVIOUS
  <2>1. Last - j \in B /\ i \in 1..Last /\ j \in 1..Last
    BY <1>1
  <2>2. Last - i <= Last - j
    BY <1>3, <1>4, <2>1
  <2> QED
    BY <1>1, <2>1, <2>2
<1>6. \E k \in DOMAIN applies : /\ Snapshot(k) = Snapshot(e)
                              /\ \A j \in DOMAIN applies : Snapshot(j) = Snapshot(e) => j <= k
  BY <1>4, <1>5
<1>7. LET k == NewestRow(Snapshot(e))
      IN /\ k \in DOMAIN applies /\ Snapshot(k) = Snapshot(e)
         /\ \A j \in DOMAIN applies : Snapshot(j) = Snapshot(e) => j <= k
  BY <1>6, Zenon DEF NewestRow
<1> QED
  BY <1>1, <1>7

\* What a poll finds, when it finds an outcome, is vouched for.
LEMMA VerdictIsVouched ==
    ASSUME EditorInv, NEW e \in DOMAIN applies, Verdict(Snapshot(e)) /= "submitted"
    PROVE  Verdict(Snapshot(e)) \in Final /\ Vouched(e, Verdict(Snapshot(e)))
<1> DEFINE l == Snapshot(e)
<1>1. CASE \E t \in memory : t.list = l
  <2> DEFINE t == CHOOSE u \in memory : u.list = l
  <2>1. t \in memory /\ t.list = l
    BY <1>1, Zenon
  <2>2. Verdict(l) = t.state
    BY <1>1 DEF Verdict
  <2> HIDE DEF t
  <2>3. PICK i \in DOMAIN applies :
               /\ Snapshot(i) = l /\ applies[i].outcome = t.state
               /\ \A j \in DOMAIN applies : Snapshot(j) = l => j <= i
    BY <2>1 DEF EditorInv, MemoryIsNewest
  <2>4. i >= e /\ t.state \in Final
    BY <2>1, <2>3 DEF EditorInv, MemoryIsNewest, AppliesOK
  <2> QED
    BY <2>2, <2>3, <2>4 DEF Vouched
<1>2. CASE ~\E t \in memory : t.list = l
  <2> DEFINE k == NewestRow(l)
  <2>1. Verdict(l) = applies[k].row
    BY <1>2 DEF Verdict
  <2>2. k \in DOMAIN applies /\ Snapshot(k) = l /\ k >= e
    BY NewestExists DEF EditorInv
  <2> HIDE DEF k
  <2>3. applies[k].row \in {"submitted"} \cup Final
    BY <2>2, RowTypes DEF EditorInv
  <2>4. applies[k].row \in Final /\ applies[k].outcome = applies[k].row
    BY <2>1, <2>2, <2>3 DEF EditorInv, RowsTruthful
  <2> QED
    BY <2>1, <2>2, <2>4 DEF Vouched
<1> QED
  BY <1>1, <1>2

\* Lists and final outcomes that are there do not change.
Kept ==
    \A i \in DOMAIN applies :
        /\ i \in DOMAIN applies' /\ applies'[i].list = applies[i].list
        /\ applies[i].outcome \in Final => applies'[i].outcome = applies[i].outcome

\* What is vouched for remains so.
LEMMA VouchedStays ==
    ASSUME Kept
    PROVE  \A e \in DOMAIN applies, v \in Final : Vouched(e, v) => Vouched(e, v)'
BY DEF Kept, Vouched, Snapshot

-----------------------------------------------------------------------------
(* The editor's steps                                                       *)

LEMMA InitEditor == Init => EditorInv
<1> SUFFICES ASSUME Init
             PROVE  EditorInv
  OBVIOUS
<1>1. Validate(<<>>)
  BY DEF Validate, Precedes
<1>2. CASE active = <<>> /\ applies = <<>>
  BY <1>1, <1>2, TrackingAssumption
    DEF Init, AtInit, EditorInv, AppliesOK, RowsTruthful, RunningIsLast, MemoryIsNewest,
        AnswerOK, PollOK, RingOK, Last
<1>3. CASE /\ active \in {l \in Starts : Validate(l)}
           /\ applies = <<[list |-> active, row |-> "succeeded", outcome |-> "succeeded"]>>
  <2>1. active \in ValidLists
    BY <1>3 DEF Validate, ValidLists
  <2>2. /\ applies \in Seq(ApplyRow)
        /\ Last = 1 /\ DOMAIN applies = {1}
    BY <1>3, <2>1 DEF ApplyRow, Final, Last
  <2> QED
    BY <1>3, <2>2, TrackingAssumption
      DEF Init, AtInit, EditorInv, AppliesOK, RowsTruthful, RunningIsLast, MemoryIsNewest,
          AnswerOK, PollOK, RingOK, Last
<1> QED
  BY <1>2, <1>3 DEF Init, AtInit

\* Steps that leave the rows and the fallback alone keep what is said of them.
LEMMA RowsUntouched ==
    ASSUME EditorInv, UNCHANGED <<applies, memory, active>>
    PROVE  /\ MemoryIsNewest'
           /\ Kept
           /\ \A e, v : Vouched(e, v) => Vouched(e, v)'
BY DEF EditorInv, MemoryIsNewest, Kept, Vouched, Snapshot

\* The ring, the poll and the answer stay right when rows are added or settled.
LEMMA ClientsUntouched ==
    ASSUME EditorInv, Kept, UNCHANGED <<answer, ring, poll>>
    PROVE  AnswerOK' /\ PollOK' /\ RingOK'
<1>1. DOMAIN applies \subseteq DOMAIN applies'
  BY DEF Kept
<1>2. AnswerOK'
  <2>1. CASE answer = NoAnswer
    BY <2>1 DEF AnswerOK, NoAnswer
  <2>2. CASE /\ answer \in [apply : DOMAIN applies, health : {"observing", "ended"}]
             /\ answer.health = "ended" => applies[answer.apply].outcome \in Final
    <3>1. answer.apply \in DOMAIN applies
      BY <2>2
    <3>2. answer.health = "ended" => applies'[answer.apply].outcome \in Final
      BY <2>2, <3>1 DEF Kept
    <3>3. answer \in [apply : DOMAIN applies', health : {"observing", "ended"}]
      BY <1>1, <2>2
    <3> QED
      BY <3>2, <3>3 DEF AnswerOK
  <2> QED
    BY <2>1, <2>2 DEF EditorInv, AnswerOK
<1>3. PollOK'
  <2>1. CASE poll = NoPoll
    BY <2>1 DEF PollOK, NoPoll
  <2>2. CASE /\ poll \in [entry : DOMAIN applies, verdict : {"none"} \cup Final]
             /\ poll.verdict /= "none" => Vouched(poll.entry, poll.verdict)
    <3>1. poll.entry \in DOMAIN applies /\ poll.verdict \in {"none"} \cup Final
      BY <2>2
    <3>2. poll.verdict /= "none" => Vouched(poll.entry, poll.verdict)'
      BY <2>2, <3>1 DEF Kept, Vouched, Snapshot
    <3>3. poll' \in [entry : DOMAIN applies', verdict : {"none"} \cup Final]
      BY <1>1, <2>2
    <3> QED
      BY <3>2, <3>3 DEF PollOK
  <2> QED
    BY <2>1, <2>2 DEF EditorInv, PollOK
<1>4. RingOK'
  <2> DEFINE E(d) == [apply : d, status : {"pending"} \cup Final]
  <2>1. E(DOMAIN applies) \subseteq E(DOMAIN applies')
    BY <1>1
  <2>2. ring \in Seq(E(DOMAIN applies)) /\ Len(ring) <= RingCap
    BY DEF EditorInv, RingOK
  <2>3. \A k \in DOMAIN ring : ring[k] \in E(DOMAIN applies)
    <3> HIDE DEF E
    <3> QED
      BY <2>2
  <2>4. ring' \in Seq(E(DOMAIN applies'))
    <3> HIDE DEF E
    <3> QED
      BY <2>1, <2>2
  <2>5. \A k \in DOMAIN ring : /\ ring[k].apply \in DOMAIN applies
                              /\ ring[k].status \in {"pending"} \cup Final
    BY <2>3
  <2>6. \A k \in DOMAIN ring :
           ring[k].status /= "pending" => Vouched(ring[k].apply, ring[k].status)'
    BY <2>5 DEF EditorInv, RingOK, Kept, Vouched, Snapshot
  <2> QED
    BY <2>2, <2>4, <2>6 DEF RingOK
<1> QED
  BY <1>2, <1>3, <1>4

LEMMA ApplyKeeps == EditorInv /\ Apply => EditorInv'
<1> SUFFICES ASSUME EditorInv, Apply
             PROVE  EditorInv'
  OBVIOUS
<1>1. PICK l : /\ Validate(l)
               /\ applies' = Append(applies, [list |-> l, row |-> "submitted", outcome |-> "open"])
               /\ memory' = ForgetSnapshot(l)
  BY DEF Apply
<1>2. /\ Last < MaxApplies /\ phase = "none" /\ phase' = "running"
      /\ UNCHANGED <<active, answer, ring, poll>>
  BY DEF Apply
<1> DEFINE new == [list |-> l, row |-> "submitted", outcome |-> "open"]
<1>3. new \in ApplyRow
  BY <1>1 DEF ApplyRow, ValidLists, Validate, Final
<1>4. applies \in Seq(ApplyRow) /\ Last \in Nat /\ DOMAIN applies = 1..Last
  BY DEF EditorInv, AppliesOK, Last
<1>5. /\ applies' \in Seq(ApplyRow) /\ Last' = Last + 1 /\ DOMAIN applies' = 1..(Last + 1)
      /\ applies'[Last + 1] = new /\ \A i \in 1..Last : applies'[i] = applies[i]
  <2> HIDE DEF new
  <2> QED
    BY <1>1, <1>3, <1>4 DEF Last, new
<1>6. Kept
  BY <1>4, <1>5 DEF Kept
<1>7. AppliesOK'
  BY <1>2, <1>4, <1>5, TrackingAssumption DEF EditorInv, AppliesOK
<1>8. RowsTruthful' /\ RunningIsLast'
  <2>1. \A i \in 1..Last : applies[i].outcome /= "open"
    BY <1>2, <1>4 DEF EditorInv, RowsTruthful
  <2>2. ASSUME NEW i \in 1..(Last + 1)
        PROVE  /\ applies'[i].row \in Final => applies'[i].row = applies'[i].outcome
               /\ applies'[i].outcome = "open" <=> i = Last + 1
    <3>1. CASE i = Last + 1
      BY <1>5, <3>1 DEF Final
    <3>2. CASE i \in 1..Last
      BY <1>4, <1>5, <2>1, <3>2 DEF EditorInv, RowsTruthful
    <3> QED
      BY <1>4, <3>1, <3>2
  <2> QED
    BY <1>2, <1>4, <1>5, <2>2 DEF RowsTruthful, RunningIsLast
<1>9. MemoryIsNewest'
  <2>1. memory' \subseteq memory /\ \A t \in memory' : t.list /= l
    BY <1>1 DEF ForgetSnapshot
  <2>2. ASSUME NEW t \in memory'
        PROVE  \E i \in DOMAIN applies' :
                  /\ applies'[i].list = t.list /\ applies'[i].outcome = t.state
                  /\ \A j \in DOMAIN applies' : applies'[j].list = t.list => j <= i
    <3>1. PICK i \in 1..Last : /\ applies[i].list = t.list /\ applies[i].outcome = t.state
                               /\ \A j \in 1..Last : applies[j].list = t.list => j <= i
      BY <1>4, <2>1 DEF EditorInv, MemoryIsNewest, Snapshot
    <3>2. \A j \in 1..(Last + 1) : applies'[j].list = t.list => j \in 1..Last
      BY <1>4, <1>5, <2>1
    <3> QED
      BY <1>4, <1>5, <3>1, <3>2
  <2> QED
    BY <2>1, <2>2 DEF EditorInv, MemoryIsNewest, Snapshot
<1> QED
  BY <1>2, <1>6, <1>7, <1>8, <1>9, ClientsUntouched DEF EditorInv

LEMMA OutcomeKeeps == EditorInv /\ Outcome => EditorInv'
<1> SUFFICES ASSUME EditorInv, Outcome
             PROVE  EditorInv'
  OBVIOUS
<1>1. PICK o \in Final : /\ applies' = [applies EXCEPT ![Last].outcome = o]
                         /\ active' = IF o = "succeeded" THEN Snapshot(Last) ELSE active
  BY DEF Outcome
<1>2. phase = "running" /\ phase' = "observed" /\ UNCHANGED <<memory, answer, ring, poll>>
  BY DEF Outcome
<1>3. applies \in Seq(ApplyRow) /\ Last \in DOMAIN applies /\ applies[Last].outcome = "open"
  BY <1>2 DEF EditorInv, AppliesOK, RunningIsLast, RowsTruthful
<1>4. applies[Last] \in ApplyRow /\ applies[Last].list \in ValidLists
  BY <1>3, RowTypes DEF EditorInv
<1>5. [applies[Last] EXCEPT !.outcome = o] \in ApplyRow
  BY <1>4 DEF ApplyRow
<1>6. /\ applies' \in Seq(ApplyRow) /\ DOMAIN applies' = DOMAIN applies /\ Last' = Last
      /\ applies'[Last] = [applies[Last] EXCEPT !.outcome = o]
      /\ \A i \in DOMAIN applies : i /= Last => applies'[i] = applies[i]
  BY <1>1, <1>3, <1>5 DEF Last
<1>7. /\ applies'[Last].outcome = o /\ applies'[Last].list = applies[Last].list
      /\ applies'[Last].row = applies[Last].row
  BY <1>4, <1>6 DEF ApplyRow
<1>8. "open" \notin Final
  BY DEF Final
<1>9. Kept
  BY <1>3, <1>6, <1>7, <1>8 DEF Kept
<1>10. AppliesOK'
  <2>1. Validate(active')
    BY <1>1, <1>4 DEF EditorInv, AppliesOK, ValidLists, Snapshot
  <2> QED
    BY <1>2, <1>6, <2>1 DEF EditorInv, AppliesOK
<1>11. RowsTruthful' /\ RunningIsLast'
  <2>1. applies[Last].row \notin Final
    BY <1>3, <1>8 DEF EditorInv, RowsTruthful
  <2>2. ASSUME NEW i \in DOMAIN applies
        PROVE  /\ applies'[i].row \in Final => applies'[i].row = applies'[i].outcome
               /\ applies'[i].outcome /= "open"
    <3>1. CASE i = Last
      BY <1>7, <1>8, <2>1, <3>1
    <3>2. CASE i /= Last
      BY <1>6, <3>2 DEF EditorInv, RowsTruthful
    <3> QED
      BY <3>1, <3>2
  <2> QED
    BY <1>2, <1>3, <1>6, <2>2 DEF RowsTruthful, RunningIsLast
<1>12. MemoryIsNewest'
  <2>1. ASSUME NEW t \in memory
        PROVE  \E i \in DOMAIN applies' :
                  /\ applies'[i].list = t.list /\ applies'[i].outcome = t.state
                  /\ \A j \in DOMAIN applies' : applies'[j].list = t.list => j <= i
    <3>1. PICK i \in DOMAIN applies :
                 /\ applies[i].list = t.list /\ applies[i].outcome = t.state
                 /\ \A j \in DOMAIN applies : applies[j].list = t.list => j <= i
      BY DEF EditorInv, MemoryIsNewest, Snapshot
    <3>2. t.state \in Final
      BY DEF EditorInv, MemoryIsNewest
    <3> QED
      BY <1>6, <1>9, <3>1, <3>2 DEF Kept
  <2> QED
    BY <1>2, <2>1 DEF EditorInv, MemoryIsNewest, Snapshot
<1> QED
  BY <1>2, <1>9, <1>10, <1>11, <1>12, ClientsUntouched DEF EditorInv

LEMMA PersistKeeps == EditorInv /\ Persist => EditorInv'
<1> SUFFICES ASSUME EditorInv, Persist
             PROVE  EditorInv'
  OBVIOUS
<1>1. phase = "observed" /\ phase' = "persisted" /\ UNCHANGED <<active, answer, ring, poll>>
  BY DEF Persist
<1>2. applies \in Seq(ApplyRow) /\ Last \in DOMAIN applies /\ applies[Last].outcome /= "open"
  BY <1>1 DEF EditorInv, AppliesOK, RunningIsLast, RowsTruthful
<1>3. /\ applies[Last] \in ApplyRow /\ applies[Last].list \in ValidLists
      /\ applies[Last].outcome \in Final
  BY <1>2, RowTypes DEF EditorInv
<1>4. CASE /\ applies' = [applies EXCEPT ![Last].row = applies[Last].outcome]
           /\ memory' = ForgetSnapshot(Snapshot(Last))
  <2> DEFINE settled == [applies[Last] EXCEPT !.row = applies[Last].outcome]
  <2>1. settled \in ApplyRow
    BY <1>3 DEF ApplyRow
  <2>2. /\ applies' \in Seq(ApplyRow) /\ DOMAIN applies' = DOMAIN applies /\ Last' = Last
        /\ applies'[Last] = settled
        /\ \A i \in DOMAIN applies : i /= Last => applies'[i] = applies[i]
    BY <1>2, <1>4, <2>1 DEF Last
  <2>3. /\ applies'[Last].outcome = applies[Last].outcome
        /\ applies'[Last].list = applies[Last].list
        /\ applies'[Last].row = applies[Last].outcome
    BY <1>3, <2>2 DEF ApplyRow
  <2>4. Kept
    BY <2>2, <2>3 DEF Kept
  <2>5. AppliesOK'
    BY <1>1, <2>2 DEF EditorInv, AppliesOK
  <2>6. \A i \in DOMAIN applies : /\ applies'[i].outcome = applies[i].outcome
                                 /\ applies'[i].list = applies[i].list
    BY <2>2, <2>3
  <2>7. RowsTruthful' /\ RunningIsLast'
    BY <1>1, <1>2, <2>2, <2>3, <2>6 DEF EditorInv, RowsTruthful, RunningIsLast
  <2>8. MemoryIsNewest'
    BY <1>4, <2>2, <2>6 DEF EditorInv, MemoryIsNewest, ForgetSnapshot, Snapshot
  <2> QED
    BY <1>1, <2>4, <2>5, <2>7, <2>8, ClientsUntouched DEF EditorInv
<1>5. CASE /\ memory' = ForgetSnapshot(Snapshot(Last)) \cup
                          {[list |-> Snapshot(Last), state |-> applies[Last].outcome]}
           /\ UNCHANGED applies
  <2>1. AppliesOK' /\ RunningIsLast'
    BY <1>1, <1>2, <1>5 DEF EditorInv, AppliesOK, RunningIsLast, Last
  <2>2. RowsTruthful'
    BY <1>1, <1>2, <1>5 DEF EditorInv, RowsTruthful, Last
  <2>3. Kept
    BY <1>5 DEF Kept
  <2>4. MemoryIsNewest'
    <3> DEFINE kept == [list |-> Snapshot(Last), state |-> applies[Last].outcome]
    <3>1. kept \in [list : ValidLists, state : Final]
      BY <1>3 DEF Snapshot
    <3>2. \A j \in DOMAIN applies : j <= Last
      BY <1>2 DEF Last
    <3>3. memory' \subseteq memory \cup {kept}
      BY <1>5 DEF ForgetSnapshot
    <3> QED
      BY <1>2, <1>5, <3>1, <3>2, <3>3 DEF EditorInv, MemoryIsNewest, Snapshot
  <2> QED
    BY <1>1, <2>1, <2>2, <2>3, <2>4, ClientsUntouched DEF EditorInv
<1> QED
  BY <1>4, <1>5 DEF Persist

LEMMA EndVariationKeeps == EditorInv /\ EndVariation => EditorInv'
<1> SUFFICES ASSUME EditorInv, EndVariation
             PROVE  EditorInv'
  OBVIOUS
<1>1. /\ phase = "persisted" /\ phase' = "none"
      /\ UNCHANGED <<active, applies, memory, answer, ring, poll>>
  BY DEF EndVariation
<1>2. MemoryIsNewest' /\ AnswerOK' /\ PollOK' /\ RingOK'
  BY <1>1, RowsUntouched, ClientsUntouched
<1>3. AppliesOK' /\ RowsTruthful' /\ RunningIsLast'
  BY <1>1 DEF EditorInv, AppliesOK, RowsTruthful, RunningIsLast, Last
<1> QED
  BY <1>2, <1>3 DEF EditorInv

LEMMA ReturnKeeps == EditorInv /\ Return => EditorInv'
<1> SUFFICES ASSUME EditorInv, Return
             PROVE  EditorInv'
  OBVIOUS
<1>1. UNCHANGED <<active, applies, memory, ring, poll>> /\ phase /= "none"
  BY DEF Return
<1>2. Last \in DOMAIN applies /\ Last' = Last
  BY <1>1 DEF EditorInv, RunningIsLast, Last
<1>3. MemoryIsNewest' /\ PollOK' /\ RingOK'
  BY <1>1 DEF EditorInv, MemoryIsNewest, PollOK, RingOK, Vouched, Snapshot
<1>4. CASE answer' = [apply |-> Last, health |-> "observing"] /\ UNCHANGED phase
  <2>1. AppliesOK' /\ RowsTruthful' /\ RunningIsLast'
    BY <1>1, <1>4 DEF EditorInv, AppliesOK, RowsTruthful, RunningIsLast, Last
  <2>2. AnswerOK'
    BY <1>1, <1>2, <1>4 DEF AnswerOK
  <2> QED
    BY <1>3, <2>1, <2>2 DEF EditorInv
<1>5. CASE /\ phase = "persisted" /\ phase' = "none"
           /\ answer' = [apply |-> Last, health |-> "ended"]
  <2>1. AppliesOK' /\ RowsTruthful' /\ RunningIsLast'
    BY <1>1, <1>5 DEF EditorInv, AppliesOK, RowsTruthful, RunningIsLast, Last
  <2>2. applies[Last].outcome \in Final
    BY <1>2, <1>5, RowTypes DEF EditorInv, RowsTruthful
  <2>3. AnswerOK'
    BY <1>1, <1>2, <1>5, <2>2 DEF AnswerOK
  <2> QED
    BY <1>3, <2>1, <2>3 DEF EditorInv
<1> QED
  BY <1>4, <1>5 DEF Return

LEMMA TrackKeeps == EditorInv /\ Track => EditorInv'
<1> SUFFICES ASSUME EditorInv, Track
             PROVE  EditorInv'
  OBVIOUS
<1> DEFINE e == [apply |-> answer.apply,
                 status |-> IF answer.health = "ended" THEN applies[answer.apply].outcome
                            ELSE "pending"]
           E == [apply : DOMAIN applies, status : {"pending"} \cup Final]
           longer == Append(ring, e)
<1>1. /\ answer /= NoAnswer /\ answer' = NoAnswer /\ ring' = Created(e)
      /\ UNCHANGED <<active, applies, phase, memory, poll>>
  BY DEF Track
<1>2. /\ answer.apply \in DOMAIN applies
      /\ answer.health = "ended" => applies[answer.apply].outcome \in Final
  BY <1>1 DEF EditorInv, AnswerOK
<1>3. e \in E
  BY <1>2
<1>4. e.status /= "pending" => Vouched(e.apply, e.status)
  BY <1>2 DEF Vouched, EditorInv, AppliesOK
<1>5. ring \in Seq(E) /\ Len(ring) <= RingCap
  BY DEF EditorInv, RingOK
<1>6. /\ ring' \in Seq(E) /\ Len(ring') <= RingCap
      /\ \A k \in DOMAIN ring' : ring'[k] = e \/ \E m \in DOMAIN ring : ring'[k] = ring[m]
  <2> HIDE DEF e, E
  <2>1. longer \in Seq(E) /\ Len(longer) = Len(ring) + 1
        /\ \A k \in 1..Len(longer) : longer[k] = e \/ \E m \in DOMAIN ring : longer[k] = ring[m]
    BY <1>3, <1>5
  <2> HIDE DEF longer
  <2>2. CASE Len(longer) > RingCap
    <3>1. ring' = Tail(longer)
      BY <1>1, <2>2 DEF Created, longer
    <3> QED
      BY <1>5, <2>1, <2>2, <3>1, TrackingAssumption
  <2>3. CASE ~(Len(longer) > RingCap)
    <3>1. ring' = longer
      BY <1>1, <2>3 DEF Created, longer
    <3> QED
      BY <2>1, <2>3, <3>1, TrackingAssumption
  <2> QED
    BY <2>2, <2>3
<1>7. RingOK'
  <2>1. \A k \in DOMAIN ring' :
           ring'[k].status /= "pending" => Vouched(ring'[k].apply, ring'[k].status)
    <3> HIDE DEF e
    <3> QED
      BY <1>4, <1>6 DEF EditorInv, RingOK
  <2>2. \A k \in DOMAIN ring' :
           ring'[k].status /= "pending" => Vouched(ring[k].apply, ring[k].status)'
    BY <1>1, <2>1 DEF Vouched, Snapshot
  <2> QED
    BY <1>1, <1>6, <2>2 DEF RingOK
<1>8. AnswerOK'
  BY <1>1 DEF AnswerOK, NoAnswer
<1>9. AppliesOK' /\ RowsTruthful' /\ RunningIsLast' /\ MemoryIsNewest' /\ PollOK'
  BY <1>1 DEF EditorInv, AppliesOK, RowsTruthful, RunningIsLast, MemoryIsNewest, PollOK,
              Vouched, Snapshot, Last
<1> QED
  BY <1>7, <1>8, <1>9 DEF EditorInv

\* The steps of a poll before it writes.
LEMMA PollKeeps == EditorInv /\ (PollRead \/ PollLook) => EditorInv'
<1> SUFFICES ASSUME EditorInv, PollRead \/ PollLook
             PROVE  EditorInv'
  OBVIOUS
<1>1. UNCHANGED <<active, applies, phase, memory, answer, ring>>
  BY DEF PollRead, PollLook
<1>2. /\ AppliesOK' /\ RowsTruthful' /\ RunningIsLast' /\ MemoryIsNewest'
      /\ AnswerOK' /\ RingOK'
  BY <1>1 DEF EditorInv, AppliesOK, RowsTruthful, RunningIsLast, MemoryIsNewest, AnswerOK,
              RingOK, Vouched, Snapshot, Last
<1>3. CASE PollRead
  <2>1. PICK k \in DOMAIN ring : poll' = [entry |-> ring[k].apply, verdict |-> "none"]
    BY <1>3 DEF PollRead
  <2>2. ring[k].apply \in DOMAIN applies
    <3> DEFINE E == [apply : DOMAIN applies, status : {"pending"} \cup Final]
    <3>1. ring \in Seq(E)
      BY DEF EditorInv, RingOK
    <3>2. ring[k] \in E
      <4> HIDE DEF E
      <4> QED
        BY <2>1, <3>1
    <3> QED
      BY <3>2
  <2>3. PollOK'
    BY <1>1, <2>1, <2>2 DEF PollOK
  <2> QED
    BY <1>2, <2>3 DEF EditorInv
<1>4. CASE PollLook
  <2> DEFINE v == Verdict(Snapshot(poll.entry))
  <2>1. /\ poll /= NoPoll
        /\ poll' = IF v = "submitted" THEN NoPoll ELSE [poll EXCEPT !.verdict = v]
    BY <1>4 DEF PollLook
  <2>2. /\ poll \in [entry : DOMAIN applies, verdict : {"none"} \cup Final]
        /\ poll.entry \in DOMAIN applies
    BY <2>1 DEF EditorInv, PollOK
  <2>3. CASE v = "submitted"
    BY <1>2, <2>1, <2>3 DEF EditorInv, PollOK, NoPoll
  <2>4. CASE v /= "submitted"
    <3>1. v \in Final /\ Vouched(poll.entry, v)
      BY <2>2, <2>4, VerdictIsVouched
    <3> HIDE DEF v
    <3>2. /\ poll' \in [entry : DOMAIN applies, verdict : {"none"} \cup Final]
          /\ poll'.entry = poll.entry /\ poll'.verdict = v
      BY <2>1, <2>2, <2>4, <3>1
    <3>3. PollOK'
      BY <1>1, <3>1, <3>2 DEF PollOK, Vouched, Snapshot
    <3> QED
      BY <1>2, <3>3 DEF EditorInv
  <2> QED
    BY <2>3, <2>4
<1> QED
  BY <1>3, <1>4

LEMMA PollFinishKeeps == EditorInv /\ PollFinish => EditorInv'
<1> SUFFICES ASSUME EditorInv, PollFinish
             PROVE  EditorInv'
  OBVIOUS
<1> DEFINE E == [apply : DOMAIN applies, status : {"pending"} \cup Final]
<1>1. /\ poll.verdict /= "none" /\ poll' = NoPoll
      /\ UNCHANGED <<active, applies, phase, memory, answer>>
      /\ ring' = [k \in DOMAIN ring |->
                    IF ring[k].apply = poll.entry /\ ring[k].status = "pending"
                    THEN [ring[k] EXCEPT !.status = poll.verdict] ELSE ring[k]]
  BY DEF PollFinish
<1>2. poll.verdict \in Final /\ Vouched(poll.entry, poll.verdict)
  BY <1>1 DEF EditorInv, PollOK, NoPoll
<1>3. /\ ring \in Seq(E) /\ Len(ring) <= RingCap
      /\ \A k \in DOMAIN ring : ring[k].status /= "pending" => Vouched(ring[k].apply, ring[k].status)
  BY DEF EditorInv, RingOK
<1>4. \A k \in DOMAIN ring : ring[k] \in E
  <2> HIDE DEF E
  <2> QED
    BY <1>3
<1>5. \A k \in DOMAIN ring :
         /\ ring'[k] \in E
         /\ ring'[k].status /= "pending" => Vouched(ring'[k].apply, ring'[k].status)
  BY <1>1, <1>2, <1>3, <1>4
<1>6. ring' \in Seq(E) /\ Len(ring') <= RingCap /\ DOMAIN ring' = DOMAIN ring
  <2> HIDE DEF E
  <2>1. Len(ring) \in Nat /\ DOMAIN ring = 1..Len(ring)
    BY <1>3
  <2>2. ring' \in [1..Len(ring) -> E]
    BY <1>1, <1>5, <2>1
  <2> QED
    BY <1>3, <2>1, <2>2
<1>7. RingOK'
  <2>1. \A k \in DOMAIN ring' :
           ring'[k].status /= "pending" => Vouched(ring[k].apply, ring[k].status)'
    BY <1>1, <1>5, <1>6 DEF Vouched, Snapshot
  <2> QED
    BY <1>1, <1>6, <2>1 DEF RingOK
<1>8. /\ AppliesOK' /\ RowsTruthful' /\ RunningIsLast' /\ MemoryIsNewest'
      /\ AnswerOK' /\ PollOK'
  BY <1>1 DEF EditorInv, AppliesOK, RowsTruthful, RunningIsLast, MemoryIsNewest, AnswerOK,
              PollOK, NoPoll, Snapshot, Last
<1> QED
  BY <1>7, <1>8 DEF EditorInv

-----------------------------------------------------------------------------
(* The rule sets' steps                                                     *)

\* The types, and what bounds the versions: a source changes by an edit only.
RuleSetsInv == RsTypeOK /\ \A u \in Urls : served[u] <= edits

LEMMA NothingTypes ==
    /\ AnyUrl \in Urls
    /\ Nothing \in Content \cup {Nothing}
    /\ NoRow \in Rows /\ SyncIdle \in SyncStates
<1>1. AnyUrl \in Urls
  BY RuleSetsAssumption, Zenon DEF AnyUrl
<1> QED
  BY <1>1 DEF NoRow, SyncIdle, Rows, SyncStates

LEMMA InitRuleSets == Init => RuleSetsInv
BY NothingTypes, RuleSetsAssumption DEF Init, RsInit, RuleSetsInv, RsTypeOK, Versions

\* What the store's operations write is a row.
LEMMA StoreTypes ==
    ASSUME RsTypeOK
    PROVE  /\ \A u \in Urls, on \in BOOLEAN : Upserted(u, on) \in Rows
           /\ \A c \in Content \cup {Nothing} : UpdateContent(c) \in Rows
           /\ TouchSyncedAt \in Rows /\ \A c : RecordError(c) \in Rows
           /\ [row EXCEPT !.on = ~@] \in Rows
BY NothingTypes DEF RsTypeOK, Rows, Upserted, NoRow, UpdateContent, TouchSyncedAt, RecordError

\* A sync that was called waits for its turn, and one that begins has the url and the
\* tag of a row.
LEMMA CalledTypes ==
    ASSUME RsTypeOK, NEW p \in Syncs
    PROVE  Called(p) \in [Syncs -> SyncStates]
<1>1. sync \in [Syncs -> SyncStates] /\ sync[p] \in SyncStates
  BY DEF RsTypeOK
<1>2. [sync[p] EXCEPT !.pc = "begin"] \in SyncStates
  BY <1>1 DEF SyncStates
<1>3. Called(p) = [sync EXCEPT ![p] = [sync[p] EXCEPT !.pc = "begin"]]
  BY <1>1 DEF Called
<1> QED
  BY <1>1, <1>2, <1>3

LEMMA BeginKeeps ==
    ASSUME RuleSetsInv, NEW p \in Syncs, Begin(p)
    PROVE  RuleSetsInv'
<1>1. row \in Rows /\ sync \in [Syncs -> SyncStates]
  BY DEF RuleSetsInv, RsTypeOK
<1>2. SyncIdle \in SyncStates
  BY NothingTypes DEF SyncIdle, SyncStates
<1>3. [SyncIdle EXCEPT !.pc = "fetch", !.url = row.url, !.tag = row.tag] \in SyncStates
  BY <1>1, NothingTypes DEF SyncIdle, SyncStates, Rows
<1>4. sync' \in [Syncs -> SyncStates] /\ UNCHANGED <<row, served, edits>>
  BY <1>1, <1>2, <1>3 DEF Begin
<1> QED
  BY <1>4 DEF RuleSetsInv, RsTypeOK

\* Fetch only moves its sync, and what it gets is a version of its source.
LEMMA FetchKeeps ==
    ASSUME RuleSetsInv, NEW p \in Syncs, Fetch(p)
    PROVE  RuleSetsInv'
<1> DEFINE now == [url |-> sync[p].url, version |-> served[sync[p].url]]
<1>1. sync[p] \in SyncStates /\ served \in [Urls -> Versions]
  BY DEF RuleSetsInv, RsTypeOK
<1>2. now \in Content
  BY <1>1 DEF SyncStates, Content
<1>3. PICK g \in {"same", "body", "error"}, c \in Content \cup {Nothing} :
         sync' = [sync EXCEPT ![p].pc = "store", ![p].got = g, ![p].body = c]
  BY <1>2 DEF Fetch
<1>4. sync' = [sync EXCEPT ![p] = [sync[p] EXCEPT !.pc = "store", !.got = g, !.body = c]]
  BY <1>1, <1>3 DEF RuleSetsInv, RsTypeOK
<1>5. [sync[p] EXCEPT !.pc = "store", !.got = g, !.body = c] \in SyncStates
  BY <1>1 DEF SyncStates
<1>6. sync' \in [Syncs -> SyncStates] /\ UNCHANGED <<row, served, edits>>
  BY <1>4, <1>5 DEF RuleSetsInv, RsTypeOK, Fetch
<1> QED
  BY <1>6 DEF RuleSetsInv, RsTypeOK

LEMMA RuleSetsStep == RuleSetsInv /\ RsNext => RuleSetsInv'
<1> SUFFICES ASSUME RuleSetsInv, RsNext
             PROVE  RuleSetsInv'
  OBVIOUS
<1>1. /\ row \in Rows /\ served \in [Urls -> Versions] /\ edits \in 0..MaxEdits
      /\ sync \in [Syncs -> SyncStates] /\ RsTypeOK /\ MaxEdits \in Nat
  BY RuleSetsAssumption DEF RuleSetsInv, RsTypeOK
<1>2. ASSUME NEW p \in Syncs, Store(p)
      PROVE  RuleSetsInv'
  <2>1. sync[p].body \in Content \cup {Nothing}
    BY <1>1 DEF SyncStates
  <2>2. row' \in Rows
    BY <1>1, <1>2, <2>1, StoreTypes DEF Store
  <2>3. sync' \in [Syncs -> SyncStates] /\ UNCHANGED <<served, edits>>
    BY <1>1, <1>2, NothingTypes DEF Store
  <2> QED
    BY <1>1, <2>2, <2>3 DEF RuleSetsInv, RsTypeOK
<1>3. ASSUME Edit
      PROVE  edits' \in 0..MaxEdits /\ edits' = edits + 1
  BY <1>1, <1>3 DEF Edit
<1>4. ASSUME NEW p \in Syncs, Register(p)
      PROVE  RuleSetsInv'
  <2>1. PICK u \in Urls, on \in BOOLEAN :
               row' = Upserted(u, on) /\ sync' = Called(p)
    BY <1>4 DEF Register
  <2>2. row' \in Rows /\ sync' \in [Syncs -> SyncStates]
    BY <1>1, <2>1, StoreTypes, CalledTypes
  <2>3. Edit /\ UNCHANGED served
    BY <1>4 DEF Register
  <2> QED
    BY <1>1, <1>3, <2>2, <2>3 DEF RuleSetsInv, RsTypeOK, Versions
<1>5. ASSUME NEW p \in Syncs, sync' = Called(p), UNCHANGED <<row, served, edits>>
      PROVE  RuleSetsInv'
  BY <1>1, <1>5, CalledTypes DEF RuleSetsInv, RsTypeOK
<1>6. ASSUME ToggleSet \/ DeleteSet
      PROVE  RuleSetsInv'
  <2>1. row' \in Rows /\ Edit /\ UNCHANGED <<served, sync>>
    BY <1>1, <1>6, StoreTypes, NothingTypes DEF ToggleSet, DeleteSet
  <2> QED
    BY <1>1, <1>3, <2>1 DEF RuleSetsInv, RsTypeOK, Versions
<1>7. ASSUME SourceChanges
      PROVE  RuleSetsInv'
  <2>1. PICK u \in Urls : served' = [served EXCEPT ![u] = @ + 1]
    BY <1>7 DEF SourceChanges
  <2>2. Edit /\ UNCHANGED <<row, sync>>
    BY <1>7 DEF SourceChanges
  <2>3. \A v \in Urls : served[v] \in Nat /\ served[v] <= edits
    BY <1>1 DEF RuleSetsInv, Versions
  <2>4. \A v \in Urls : served'[v] \in Nat /\ served'[v] <= edits'
    BY <1>1, <1>3, <2>1, <2>2, <2>3
  <2>5. served' \in [Urls -> Versions]
    BY <1>1, <1>3, <2>1, <2>2, <2>4 DEF Versions
  <2> QED
    BY <1>1, <1>3, <2>2, <2>4, <2>5 DEF RuleSetsInv, RsTypeOK
<1>8. "run" \in Syncs
  BY RuleSetsAssumption
<1>9. ASSUME NEW p \in Syncs, Abandoned(p)
      PROVE  RuleSetsInv'
  <2>1. SyncIdle \in SyncStates
    BY NothingTypes DEF SyncIdle, SyncStates
  <2> QED
    BY <1>1, <1>9, <2>1 DEF Abandoned, RuleSetsInv, RsTypeOK
<1> QED
  BY <1>2, <1>4, <1>5, <1>6, <1>7, <1>8, <1>9, BeginKeeps, FetchKeeps DEF RsNext, SyncNow, Tick

\* The content and the tag of the row are one, and so is what a sync is about to write;
\* neither is newer than its source.
TagInv ==
    /\ TagVouches
    /\ \A p \in Syncs : sync[p].body.version <= served[sync[p].body.url]

LEMMA InitTags == Init => TagInv
<1> SUFFICES ASSUME Init
             PROVE  TagInv
  OBVIOUS
<1>1. AnyUrl \in Urls /\ served[AnyUrl] = 0
  BY NothingTypes DEF Init, RsInit
<1>2. row = NoRow /\ \A p \in Syncs : sync[p] = SyncIdle
  BY DEF Init, RsInit
<1> QED
  BY <1>1, <1>2 DEF TagInv, TagVouches, NoRow, SyncIdle, Nothing

\* No version is newer than its source after a step in which no source goes back.
LEMMA TagStep == RuleSetsInv /\ TagInv /\ RsNext => TagInv'
<1> DEFINE Of(c) == c.version <= served[c.url]
<1> SUFFICES ASSUME RuleSetsInv, TagInv, RsNext
             PROVE  TagInv'
  OBVIOUS
<1>1. /\ row \in Rows /\ served \in [Urls -> Versions] /\ sync \in [Syncs -> SyncStates]
      /\ AnyUrl \in Urls /\ MaxEdits \in Nat
  BY RuleSetsAssumption, NothingTypes DEF RuleSetsInv, RsTypeOK
<1>2. Of(Nothing) /\ Of(row.content) /\ row.tag = row.content
  BY <1>1 DEF TagInv, TagVouches, Nothing, Versions
<1>3. \A p \in Syncs : Of(sync[p].body)
  BY DEF TagInv
<1>4. SyncIdle.body = Nothing /\ NoRow.content = Nothing /\ NoRow.tag = Nothing
  BY DEF SyncIdle, NoRow
<1>5. ASSUME UNCHANGED served, row'.tag = row'.content, Of(row'.content),
             \A p \in Syncs : Of(sync'[p].body)
      PROVE  TagInv'
  BY <1>5 DEF TagInv, TagVouches
<1>6. ASSUME NEW p \in Syncs, Begin(p) \/ Abandoned(p) \/ sync' = Called(p)
      PROVE  \A q \in Syncs : Of(sync'[q].body)
  <2> SUFFICES ASSUME NEW q \in Syncs
               PROVE  sync'[q].body = sync[q].body \/ sync'[q].body = Nothing
    BY <1>2, <1>3
  <2>1. CASE Begin(p)
    <3>1. \A r \in Syncs : r /= p => sync'[r] = sync[r]
      BY <1>1, <2>1 DEF Begin
    <3>2. sync'[p] = IF row.there
                     THEN [SyncIdle EXCEPT !.pc = "fetch", !.url = row.url, !.tag = row.tag]
                     ELSE SyncIdle
      BY <1>1, <2>1 DEF Begin
    <3>3. sync'[p].body = Nothing
      BY <3>2 DEF SyncIdle
    <3> QED
      BY <3>1, <3>3
  <2>2. CASE Abandoned(p)
    BY <1>1, <1>4, <2>2 DEF Abandoned
  <2>3. CASE sync' = Called(p)
    BY <1>1, <2>3 DEF Called, SyncStates
  <2> QED
    BY <1>6, <2>1, <2>2, <2>3
<1>7. ASSUME NEW p \in Syncs, Fetch(p)
      PROVE  TagInv'
  <2> DEFINE now == [url |-> sync[p].url, version |-> served[sync[p].url]]
  <2>1. Of(now)
    BY <1>1 DEF SyncStates, Versions
  <2>2. PICK g \in {"same", "body", "error"}, c \in {now, Nothing} :
           sync' = [sync EXCEPT ![p].pc = "store", ![p].got = g, ![p].body = c]
    BY <1>7 DEF Fetch
  <2>3. \A q \in Syncs : sync'[q].body = IF q = p THEN c ELSE sync[q].body
    BY <1>1, <2>2 DEF SyncStates
  <2>4. \A q \in Syncs : Of(sync'[q].body)
    BY <1>2, <1>3, <2>1, <2>2, <2>3
  <2> QED
    BY <1>2, <1>5, <1>7, <2>4 DEF Fetch
<1>8. ASSUME NEW p \in Syncs, Store(p)
      PROVE  TagInv'
  <2>1. \/ row'.content = row.content /\ row'.tag = row.tag
        \/ row'.content = sync[p].body /\ row'.tag = sync[p].body
    BY <1>1, <1>8 DEF Store, TouchSyncedAt, UpdateContent, RecordError, Rows
  <2>2. row'.tag = row'.content /\ Of(row'.content)
    BY <1>2, <1>3, <2>1
  <2>3. \A q \in Syncs : sync'[q].body = sync[q].body \/ sync'[q].body = Nothing
    BY <1>1, <1>4, <1>8 DEF Store
  <2>4. \A q \in Syncs : Of(sync'[q].body)
    BY <1>2, <1>3, <2>3
  <2> QED
    BY <1>5, <1>8, <2>2, <2>4 DEF Store
<1>9. ASSUME NEW p \in Syncs, Begin(p) \/ Abandoned(p) \/ SyncNow(p)
      PROVE  TagInv'
  <2>1. UNCHANGED <<row, served>> /\ \A q \in Syncs : Of(sync'[q].body)
    BY <1>6, <1>9 DEF Begin, Abandoned, SyncNow
  <2> QED
    BY <1>2, <1>5, <2>1
<1>10. ASSUME Tick
       PROVE  TagInv'
  <2>1. UNCHANGED <<row, served>> /\ \A q \in Syncs : Of(sync'[q].body)
    BY <1>6, <1>10, RuleSetsAssumption DEF Tick
  <2> QED
    BY <1>2, <1>5, <2>1
<1>11. ASSUME NEW p \in Syncs, Register(p)
       PROVE  TagInv'
  <2>1. PICK u \in Urls, on \in BOOLEAN : row' = Upserted(u, on) /\ sync' = Called(p)
    BY <1>11 DEF Register
  <2>2. \/ row'.content = row.content /\ row'.tag = row.tag
        \/ row'.content = Nothing /\ row'.tag = Nothing
    BY <1>1, <2>1 DEF Upserted, NoRow, Rows
  <2> QED
    BY <1>2, <1>5, <1>6, <1>11, <2>1, <2>2 DEF Register
<1>12. ASSUME ToggleSet \/ DeleteSet
       PROVE  TagInv'
  <2>1. \/ row'.content = row.content /\ row'.tag = row.tag
        \/ row'.content = Nothing /\ row'.tag = Nothing
    BY <1>1, <1>4, <1>12 DEF ToggleSet, DeleteSet, Rows
  <2> QED
    BY <1>2, <1>3, <1>5, <1>12, <2>1 DEF ToggleSet, DeleteSet
<1>13. ASSUME SourceChanges
       PROVE  TagInv'
  <2>1. PICK u \in Urls : served' = [served EXCEPT ![u] = @ + 1]
    BY <1>13 DEF SourceChanges
  <2>2. \A v \in Urls : served[v] \in Int /\ served'[v] \in Int /\ served[v] <= served'[v]
    BY <1>1, <2>1 DEF Versions
  <2>3. ASSUME NEW c \in Content \cup {Nothing}, Of(c)
        PROVE  c.version <= served'[c.url]
    BY <1>1, <2>2, <2>3 DEF Content, Nothing, Versions
  <2>4. row.content \in Content \cup {Nothing} /\ \A p \in Syncs : sync[p].body \in Content \cup {Nothing}
    BY <1>1 DEF Rows, SyncStates
  <2> QED
    BY <1>2, <1>3, <1>13, <2>3, <2>4 DEF SourceChanges, TagInv, TagVouches
<1> QED
  BY <1>7, <1>8, <1>9, <1>10, <1>11, <1>12, <1>13 DEF RsNext

-----------------------------------------------------------------------------
(* The theorems                                                             *)

LEMMA StepKeeps == EditorInv /\ RuleSetsInv /\ [Next]_vars => EditorInv' /\ RuleSetsInv'
<1> SUFFICES ASSUME EditorInv, RuleSetsInv, [Next]_vars
             PROVE  EditorInv' /\ RuleSetsInv'
  OBVIOUS
<1>1. UNCHANGED atVars => EditorInv'
  <2> SUFFICES ASSUME UNCHANGED atVars
               PROVE  EditorInv'
    OBVIOUS
  <2>1. UNCHANGED <<active, applies, phase, memory, answer, ring, poll>>
    BY DEF atVars
  <2>2. MemoryIsNewest' /\ AnswerOK' /\ PollOK' /\ RingOK'
    BY <2>1, RowsUntouched, ClientsUntouched
  <2>3. AppliesOK' /\ RowsTruthful' /\ RunningIsLast'
    BY <2>1 DEF EditorInv, AppliesOK, RowsTruthful, RunningIsLast, Last
  <2> QED
    BY <2>2, <2>3 DEF EditorInv
<1>2. UNCHANGED rsVars => RuleSetsInv'
  BY DEF rsVars, RuleSetsInv, RsTypeOK
<1>3. CASE RuleSetSteps
  BY <1>1, <1>3, RuleSetsStep DEF RuleSetSteps
<1>4. CASE EditorSteps
  <2>1. AtNext /\ RuleSetsInv'
    BY <1>2, <1>4 DEF EditorSteps
  <2>2. EditorInv'
    BY <2>1, ApplyKeeps, OutcomeKeeps, PersistKeeps, EndVariationKeeps, ReturnKeeps,
       TrackKeeps, PollKeeps, PollFinishKeeps DEF AtNext
  <2> QED
    BY <2>1, <2>2
<1>5. CASE UNCHANGED vars
  BY <1>1, <1>2, <1>5 DEF vars
<1> QED
  BY <1>3, <1>4, <1>5 DEF Next

\* However applies, polls and failed writes interleave, an entry of the apply ring that
\* reports an outcome reports that of its own apply or of a later apply of the same
\* rules (applies.go refreshApplyEntry, ApplyStatusBySnapshot).
THEOREM EntriesAreTruthful == Spec => []TrackedTruthfully
<1>1. EditorInv => TrackedTruthfully
  <2> SUFFICES ASSUME EditorInv
               PROVE  TrackedTruthfully
    OBVIOUS
  <2> DEFINE E == [apply : DOMAIN applies, status : {"pending"} \cup Final]
  <2>1. Last \in Nat /\ DOMAIN applies = 1..Last /\ Last <= MaxApplies /\ MaxApplies \in Nat
    BY TrackingAssumption DEF EditorInv, AppliesOK, Last
  <2>2. ring \in Seq(E)
    BY DEF EditorInv, RingOK
  <2>3. \A k \in DOMAIN ring : ring[k] \in E
    <3> HIDE DEF E
    <3> QED
      BY <2>2
  <2>4. answer.apply \in 0..MaxApplies /\ answer.health \in {"none", "observing", "ended"}
    BY <2>1 DEF EditorInv, AnswerOK, NoAnswer
  <2>5. poll.entry \in 0..MaxApplies /\ poll.verdict \in {"none"} \cup Final
    BY <2>1 DEF EditorInv, PollOK, NoPoll
  <2>6. AtTypeOK
    BY <2>1, <2>3, <2>4, <2>5, RowTypes DEF AtTypeOK, EditorInv, AppliesOK, RingOK, Last
  <2>7. ASSUME NEW k \in DOMAIN ring, ring[k].status /= "pending"
        PROVE  \E i \in ring[k].apply..Last :
                  Snapshot(i) = Snapshot(ring[k].apply) /\ applies[i].outcome = ring[k].status
    <3>1. Vouched(ring[k].apply, ring[k].status) /\ ring[k].apply \in 1..Last
      BY <2>1, <2>3, <2>7 DEF EditorInv, RingOK
    <3> QED
      BY <2>1, <3>1 DEF Vouched
  <2> QED
    BY <2>6, <2>7 DEF TrackedTruthfully
<1> QED
  BY <1>1, InitEditor, InitRuleSets, StepKeeps, PTL DEF Spec

\* The resolver, mihomo and the dry run agree on what the active rules decide, whatever lists
\* are submitted and merged with the rule set. The rule set's state has its types, and however
\* syncs overlap with edits, the tag it sends is that of the content it holds, which its
\* source has served (rules.go handleApply, ruletable.go, mihomo.go, dryrun.go, sync.go).
THEOREM RulesAreConsistent == Spec => []RulesConsistent
<1>1. EditorInv /\ RuleSetsInv /\ TagInv => RulesConsistent
  <2> SUFFICES ASSUME EditorInv, RuleSetsInv, TagInv
               PROVE  RulesConsistent
    OBVIOUS
  <2>1. Validate(active)
    BY DEF EditorInv, AppliesOK
  <2>2. PICK l : l = active
    OBVIOUS
  <2>3. MatchLast(Ranked(l))
    BY <2>1, <2>2, MatchStaysLast
  <2>4. ASSUME NEW q \in Asked, NEW activeExit, NEW baseExit
        PROVE  AgreeOn(Ranked(l), q, activeExit, baseExit)
    BY <2>1, <2>2, AskedAssumption, ValidListsAgree
  <2>5. PlanesClassifyAlike
    BY <2>2, <2>3, <2>4 DEF PlanesClassifyAlike
  <2> QED
    BY <2>5 DEF RuleSetsInv, TagInv, RulesConsistent
<1>2. RuleSetsInv /\ TagInv /\ [Next]_vars => TagInv'
  <2>1. UNCHANGED rsVars /\ TagInv => TagInv'
    BY DEF rsVars, TagInv, TagVouches
  <2> QED
    BY <2>1, TagStep DEF Next, RuleSetSteps, EditorSteps, vars
<1> QED
  BY <1>1, <1>2, InitEditor, InitRuleSets, InitTags, StepKeeps, PTL DEF Spec

=============================================================================
