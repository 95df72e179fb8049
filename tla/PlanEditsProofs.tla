--------------------------- MODULE PlanEditsProofs ---------------------------
(***************************************************************************)
(* Proofs about plans and the commands that edit the TOML plan, for any    *)
(* number of commands, any edits, any hand-written and Nix-emitted plans   *)
(* and every fault.                                                        *)
(***************************************************************************)
EXTENDS PlanEdits, RecursionLemmas, FiniteSetTheorems, TLAPS

-----------------------------------------------------------------------------
(* The two worklists *)

\* The rounds of a worklist: what Visited computes, one round at a time.
IsVisit(f, plan, refs) ==
  LET groups == Ids(plan, "groups")
  IN /\ f \in [0..Cardinality(groups) -> SUBSET groups]
     /\ f[0] = refs \cap groups
     /\ \A n \in 1..Cardinality(groups) :
          f[n] = f[n - 1] \cup UNION {SubGroups(plan, g) : g \in f[n - 1]}

\* Visited is the last of as many rounds as there are groups.
LEMMA VisitedRounds ==
  ASSUME NEW plan, NEW refs, IsFiniteSet(Ids(plan, "groups"))
  PROVE  \E f : IsVisit(f, plan, refs) /\ Visited(plan, refs) = f[Cardinality(Ids(plan, "groups"))]
<1> DEFINE G == Ids(plan, "groups")
           K == Cardinality(G)
           next(x) == x \cup UNION {SubGroups(plan, g) : g \in x}
           step == [x \in SUBSET G |-> next(x)]
           body(h) == [n \in 0..K |-> IF n = 0 THEN refs \cap G ELSE next(h[n - 1])]
           round == CHOOSE h : h = body(h)
<1>1. K \in Nat
  BY FS_CardinalityType
<1>2. step \in [SUBSET G -> SUBSET G] /\ \A x \in SUBSET G : step[x] = next(x)
  BY DEF SubGroups
<1>3. Visited(plan, refs) = round[K]
  BY DEF Visited
<1>4. PICK f \in [0..K -> SUBSET G] : Iterates(f, K, refs \cap G, step)
  <2>1. refs \cap G \in SUBSET G
    OBVIOUS
  <2> HIDE DEF G, K, step
  <2> QED BY <1>1, <1>2, <2>1, IterationExists
<1> HIDE DEF G, K, next, step
<1>5. f = body(f)
  <2>1. ASSUME NEW n \in 0..K PROVE f[n] = body(f)[n]
    <3>1. CASE n = 0
      BY <1>4, <3>1 DEF Iterates
    <3>2. CASE n # 0
      <4>1. n \in 1..K /\ n - 1 \in 0..K
        BY <1>1, <3>2
      <4>2. f[n] = step[f[n - 1]] /\ f[n - 1] \in SUBSET G
        BY <1>4, <4>1 DEF Iterates
      <4> QED BY <1>2, <3>2, <4>2
    <3> QED BY <3>1, <3>2
  <2> QED BY <2>1
<1>6. round = body(round)
  <2> HIDE DEF body
  <2> QED BY <1>5, Zenon
<1> HIDE DEF round
<1>7. /\ DOMAIN round = 0..K /\ round[0] = refs \cap G
      /\ \A n \in 1..K : round[n] = next(round[n - 1])
  <2>1. /\ DOMAIN body(round) = 0..K /\ body(round)[0] = refs \cap G
        /\ \A n \in 1..K : body(round)[n] = next(round[n - 1])
    BY <1>1
  <2> HIDE DEF body
  <2> QED BY <1>6, <2>1
<1> HIDE DEF body
<1>8. \A n \in 0..K : round[n] \in SUBSET G
  <2> DEFINE T == {n \in 0..K : round[n] \in SUBSET G}
  <2>1. 0 \in T
    BY <1>1, <1>7
  <2>2. ASSUME NEW n \in 1..K, n - 1 \in T PROVE n \in T
    <3>1. round[n] = next(round[n - 1]) /\ next(round[n - 1]) = step[round[n - 1]]
      BY <1>2, <1>7, <2>2
    <3> QED BY <1>1, <1>2, <2>2, <3>1
  <2> HIDE DEF T
  <2>3. 0..K \subseteq T
    BY <1>1, <2>1, <2>2, IntervalInduction
  <2> QED BY <2>3 DEF T
<1>9. round \in [0..K -> SUBSET G]
  <2>1. round = [n \in 0..K |-> round[n]]
    BY <1>6, <1>7 DEF body
  <2> QED BY <1>8, <2>1
<1>10. IsVisit(round, plan, refs)
  BY <1>7, <1>9 DEF IsVisit, G, K, next
<1> QED BY <1>3, <1>10 DEF G, K

Closed(plan, set) == \A g \in set : SubGroups(plan, g) \subseteq set

\* As many rounds as there are groups suffice: the worklist visits the least set of
\* groups that holds the references and is closed under membership.
LEMMA VisitedIsClosure ==
  ASSUME NEW plan, NEW refs, IsFiniteSet(Ids(plan, "groups"))
  PROVE  /\ refs \cap Ids(plan, "groups") \subseteq Visited(plan, refs)
         /\ Visited(plan, refs) \subseteq Ids(plan, "groups")
         /\ Closed(plan, Visited(plan, refs))
         /\ \A C \in SUBSET Ids(plan, "groups") :
              refs \cap Ids(plan, "groups") \subseteq C /\ Closed(plan, C) => Visited(plan, refs) \subseteq C
<1> DEFINE G == Ids(plan, "groups")
           K == Cardinality(G)
<1>1. K \in Nat
  BY FS_CardinalityType
<1>2. PICK f : IsVisit(f, plan, refs) /\ Visited(plan, refs) = f[K]
  BY VisitedRounds
<1>3. /\ f \in [0..K -> SUBSET G] /\ f[0] = refs \cap G
      /\ \A n \in 1..K : f[n] = f[n - 1] \cup UNION {SubGroups(plan, g) : g \in f[n - 1]}
  BY <1>2 DEF IsVisit
<1> HIDE DEF K, G
<1>4. refs \cap G \subseteq f[K]
  <2> DEFINE T == {n \in 0..K : refs \cap G \subseteq f[n]}
  <2>1. 0 \in T
    BY <1>1, <1>3
  <2>2. ASSUME NEW n \in 1..K, n - 1 \in T PROVE n \in T
    BY <1>1, <1>3, <2>2
  <2> HIDE DEF T
  <2>3. 0..K \subseteq T
    BY <1>1, <2>1, <2>2, IntervalInduction
  <2> QED BY <1>1, <2>3 DEF T
<1>5. ASSUME NEW C \in SUBSET G, refs \cap G \subseteq C, Closed(plan, C) PROVE f[K] \subseteq C
  <2> DEFINE T == {n \in 0..K : f[n] \subseteq C}
  <2>1. 0 \in T
    BY <1>1, <1>3, <1>5
  <2>2. ASSUME NEW n \in 1..K, n - 1 \in T PROVE n \in T
    BY <1>1, <1>3, <1>5, <2>2 DEF Closed
  <2> HIDE DEF T
  <2>3. 0..K \subseteq T
    BY <1>1, <2>1, <2>2, IntervalInduction
  <2> QED BY <1>1, <2>3 DEF T
<1>6. IsFiniteSet(G) /\ \A n \in 0..K : IsFiniteSet(f[n]) /\ Cardinality(f[n]) \in Nat
  BY <1>3, FS_Subset, FS_CardinalityType DEF G
<1>7. Closed(plan, f[K])
  <2> DEFINE T == {n \in 0..K : Closed(plan, f[n]) \/ n + 1 <= Cardinality(f[n])}
  <2>1. 0 \in T
    <3>1. CASE f[0] = {}
      BY <1>1, <3>1 DEF Closed
    <3>2. CASE f[0] # {}
      <4>1. Cardinality(f[0]) \in Nat \ {0}
        BY <1>1, <1>6, <3>2, FS_EmptySet
      <4> QED BY <1>1, <4>1
    <3> QED BY <3>1, <3>2
  <2>2. ASSUME NEW n \in 1..K, n - 1 \in T PROVE n \in T
    <3>1. n \in 0..K /\ n - 1 \in 0..K /\ f[n] \in SUBSET G /\ f[n - 1] \subseteq f[n]
      BY <1>1, <1>3
    <3>2. CASE f[n] = f[n - 1]
      <4>1. Closed(plan, f[n])
        BY <1>3, <3>1, <3>2 DEF Closed
      <4> QED BY <3>1, <4>1
    <3>3. CASE f[n] # f[n - 1]
      <4>1. ~Closed(plan, f[n - 1])
        <5> SUFFICES ASSUME Closed(plan, f[n - 1]) PROVE FALSE
          OBVIOUS
        <5>1. f[n] = f[n - 1] \cup UNION {SubGroups(plan, g) : g \in f[n - 1]}
          BY <1>3
        <5>2. UNION {SubGroups(plan, g) : g \in f[n - 1]} \subseteq f[n - 1]
          BY DEF Closed
        <5> QED BY <3>3, <5>1, <5>2
      <4>2. n <= Cardinality(f[n - 1])
        BY <2>2, <4>1
      <4>3. Cardinality(f[n - 1]) <= Cardinality(f[n]) /\ Cardinality(f[n - 1]) # Cardinality(f[n])
        <5>1. IsFiniteSet(f[n]) /\ f[n - 1] \in SUBSET f[n]
          BY <1>6, <3>1
        <5> QED BY <3>3, <5>1, FS_Subset
      <4>4. Cardinality(f[n - 1]) \in Nat /\ Cardinality(f[n]) \in Nat
        BY <1>6, <3>1
      <4>5. n + 1 <= Cardinality(f[n])
        <5>1. \A a, b \in Nat : n <= a /\ a <= b /\ a # b => n + 1 <= b
          OBVIOUS
        <5> QED BY <4>2, <4>3, <4>4, <5>1
      <4> QED BY <3>1, <4>5
    <3> QED BY <3>2, <3>3
  <2> HIDE DEF T
  <2>3. 0..K \subseteq T
    BY <1>1, <2>1, <2>2, IntervalInduction
  <2>4. Closed(plan, f[K]) \/ K + 1 <= Cardinality(f[K])
    BY <1>1, <2>3 DEF T
  <2>5. Cardinality(f[K]) <= K
    <3>1. f[K] \in SUBSET G
      BY <1>1, <1>3
    <3> QED BY <1>6, <3>1, FS_Subset DEF K
  <2>6. Cardinality(f[K]) \in Nat
    BY <1>1, <1>6
  <2> QED BY <1>1, <2>4, <2>5, <2>6
<1>8. f[K] \subseteq G
  BY <1>1, <1>3
<1>9. Visited(plan, refs) = f[K]
  BY <1>2
<1> QED BY <1>4, <1>5, <1>7, <1>8, <1>9 DEF G

\* The rounds of Kahn's algorithm.
IsPop(f, plan) ==
  LET groups == Ids(plan, "groups")
  IN /\ f \in [0..Cardinality(groups) -> SUBSET groups]
     /\ f[0] = {}
     /\ \A n \in 1..Cardinality(groups) :
          f[n] = {g \in groups : SubGroups(plan, g) \subseteq f[n - 1]}

\* Popped is the last of as many rounds as there are groups.
LEMMA PoppedRounds ==
  ASSUME NEW plan, IsFiniteSet(Ids(plan, "groups"))
  PROVE  \E f : IsPop(f, plan) /\ Popped(plan) = f[Cardinality(Ids(plan, "groups"))]
<1> DEFINE G == Ids(plan, "groups")
           K == Cardinality(G)
           next(x) == {g \in G : SubGroups(plan, g) \subseteq x}
           step == [x \in SUBSET G |-> next(x)]
           body(h) == [n \in 0..K |-> IF n = 0 THEN {} ELSE next(h[n - 1])]
           round == CHOOSE h : h = body(h)
<1>1. K \in Nat
  BY FS_CardinalityType
<1>2. step \in [SUBSET G -> SUBSET G] /\ \A x \in SUBSET G : step[x] = next(x)
  OBVIOUS
<1>3. Popped(plan) = round[K]
  BY DEF Popped
<1>4. PICK f \in [0..K -> SUBSET G] : Iterates(f, K, {}, step)
  <2>1. {} \in SUBSET G
    OBVIOUS
  <2> HIDE DEF G, K, step
  <2> QED BY <1>1, <1>2, <2>1, IterationExists
<1> HIDE DEF G, K, next, step
<1>5. f = body(f)
  <2>1. ASSUME NEW n \in 0..K PROVE f[n] = body(f)[n]
    <3>1. CASE n = 0
      BY <1>4, <3>1 DEF Iterates
    <3>2. CASE n # 0
      <4>1. n \in 1..K /\ n - 1 \in 0..K
        BY <1>1, <3>2
      <4>2. f[n] = step[f[n - 1]] /\ f[n - 1] \in SUBSET G
        BY <1>4, <4>1 DEF Iterates
      <4> QED BY <1>2, <3>2, <4>2
    <3> QED BY <3>1, <3>2
  <2> QED BY <2>1
<1>6. round = body(round)
  <2> HIDE DEF body
  <2> QED BY <1>5, Zenon
<1> HIDE DEF round
<1>7. /\ DOMAIN round = 0..K /\ round[0] = {}
      /\ \A n \in 1..K : round[n] = next(round[n - 1])
  <2>1. /\ DOMAIN body(round) = 0..K /\ body(round)[0] = {}
        /\ \A n \in 1..K : body(round)[n] = next(round[n - 1])
    BY <1>1
  <2> HIDE DEF body
  <2> QED BY <1>6, <2>1
<1>8. \A n \in 0..K : round[n] \in SUBSET G
  <2>1. ASSUME NEW n \in 0..K PROVE round[n] \in SUBSET G
    <3>1. CASE n = 0
      BY <1>7, <3>1
    <3>2. CASE n \in 1..K
      BY <1>7, <3>2 DEF next
    <3> QED BY <1>1, <3>1, <3>2
  <2> QED BY <2>1
<1>9. round \in [0..K -> SUBSET G]
  <2>1. round = [n \in 0..K |-> round[n]]
    BY <1>6, <1>7 DEF body
  <2> QED BY <1>8, <2>1
<1>10. IsPop(round, plan)
  BY <1>7, <1>9 DEF IsPop, G, K, next
<1> QED BY <1>3, <1>10 DEF G, K

\* Where every group is popped none is among its own members, however deep.
LEMMA PoppedIsAcyclic ==
  ASSUME NEW plan, IsFiniteSet(Ids(plan, "groups")), Popped(plan) = Ids(plan, "groups"),
         NEW g \in Ids(plan, "groups")
  PROVE  g \notin Members(plan, g)
<1> DEFINE G == Ids(plan, "groups")
           K == Cardinality(G)
           U == UNION {plan.groups[h] : h \in Ids(plan, "groups")}
<1>1. K \in Nat
  BY FS_CardinalityType
<1>2. PICK f : IsPop(f, plan) /\ Popped(plan) = f[K]
  BY PoppedRounds
<1>3. /\ f \in [0..K -> SUBSET G] /\ f[0] = {} /\ f[K] = G
      /\ \A n \in 1..K : f[n] = {h \in G : SubGroups(plan, h) \subseteq f[n - 1]}
  BY <1>2 DEF IsPop
<1> HIDE DEF K
<1>4. \A n \in 1..K : f[n - 1] \subseteq f[n]
  <2> DEFINE T == {n \in 0..K : n = 0 \/ f[n - 1] \subseteq f[n]}
  <2>1. 0 \in T
    BY <1>1
  <2>2. ASSUME NEW n \in 1..K, n - 1 \in T PROVE n \in T
    <3>1. CASE n = 1
      BY <1>1, <1>3, <3>1
    <3>2. CASE n # 1
      <4>1. n - 1 \in 1..K /\ n - 1 - 1 = n - 2 /\ f[n - 2] \subseteq f[n - 1]
        BY <1>1, <2>2, <3>2
      <4>2. /\ f[n] = {h \in G : SubGroups(plan, h) \subseteq f[n - 1]}
            /\ f[n - 1] = {h \in G : SubGroups(plan, h) \subseteq f[n - 2]}
        BY <1>3, <4>1
      <4>3. f[n - 1] \subseteq f[n]
        BY <4>1, <4>2
      <4> QED BY <1>1, <4>3
    <3> QED BY <3>1, <3>2
  <2> HIDE DEF T
  <2>3. 0..K \subseteq T
    BY <1>1, <2>1, <2>2, IntervalInduction
  <2> QED BY <1>1, <2>3 DEF T
<1>5. PICK n \in 1..K : g \in f[n] /\ g \notin f[n - 1]
  <2> DEFINE T == {n \in 0..K : g \notin f[n]}
  <2> SUFFICES ASSUME \A n \in 1..K : g \in f[n] => g \in f[n - 1] PROVE FALSE
    OBVIOUS
  <2>1. 0 \in T
    BY <1>1, <1>3
  <2>2. ASSUME NEW n \in 1..K, n - 1 \in T PROVE n \in T
    BY <1>1, <2>2
  <2> HIDE DEF T
  <2>3. 0..K \subseteq T
    BY <1>1, <2>1, <2>2, IntervalInduction
  <2> QED BY <1>1, <1>3, <2>3 DEF T
<1> DEFINE C == {x \in U : x \in G => x \in f[n - 1]}
<1>6. C \in SUBSET U /\ g \notin C
  BY <1>5
<1>7. plan.groups[g] \subseteq C
  <2>1. SubGroups(plan, g) \subseteq f[n - 1]
    BY <1>3, <1>5
  <2> QED BY <2>1 DEF SubGroups
<1>8. ASSUME NEW h \in C \cap G PROVE plan.groups[h] \subseteq C
  <2>1. h \in f[n] /\ h \in G
    BY <1>4, <1>8
  <2>2. SubGroups(plan, h) \subseteq f[n - 1]
    BY <1>3, <2>1
  <2> QED BY <2>1, <2>2 DEF SubGroups
<1> QED BY <1>6, <1>7, <1>8 DEF Members

-----------------------------------------------------------------------------
(* What a valid plan means *)

\* The merge of two plans is a plan.
LEMMA MergedIsPlan ==
  ASSUME NEW left, NEW right, IsPlan(left), IsPlan(right)
  PROVE  IsPlan(Merge(left, right))
<1> DEFINE plan == Merge(left, right)
<1>1. DOMAIN plan = Collections
  BY DEF Merge
<1>2. ASSUME NEW c \in Collections PROVE IsFiniteSet(DOMAIN plan[c])
  <2>1. DOMAIN plan[c] = DOMAIN left[c] \cup DOMAIN right[c]
    BY DEF Merge
  <2>2. IsFiniteSet(DOMAIN left[c]) /\ IsFiniteSet(DOMAIN right[c])
    BY DEF IsPlan
  <2> QED BY <2>1, <2>2, FS_Union
<1> QED BY <1>1, <1>2 DEF IsPlan

\* A plan has finitely many identities of any kind.
LEMMA FiniteKinds ==
  ASSUME NEW plan, IsPlan(plan), NEW kinds
  PROVE  IsFiniteSet(OfKind(plan, kinds))
<1>1. IsFiniteSet(Ids(plan, "identities"))
  BY DEF IsPlan, Collections, Ids
<1> QED BY <1>1, FS_Subset DEF OfKind

\* A member that resolves once is declared.
LEMMA ResolvedIsDeclared ==
  ASSUME NEW plan, NEW m, ResolvesOnce(plan, m)
  PROVE  m \in Ids(plan, "identities") \cup Ids(plan, "groups") \cup Ids(plan, "targets")
<1>1. {c \in {"groups", "targets", "identities"} : m \in Ids(plan, c)} # {}
  BY FS_EmptySet DEF ResolvesOnce
<1> QED BY <1>1

\* Every secret of a valid plan can be approved.
LEMMA ValidIsApprovable ==
  ASSUME NEW plan, IsPlan(plan), Validate(plan), NEW s \in Ids(plan, "secrets")
  PROVE  ~ApprovalFails(plan, Secret(plan, s))
<1> DEFINE secret == Secret(plan, s)
<1>1. ValidSecret(plan, secret)
  BY DEF Validate
<1> HIDE DEF secret
<1>2. CASE secret.approval = NoId
  <2>1. OfKind(plan, {"signer"}) # {} /\ IsFiniteSet(OfKind(plan, {"signer"}))
    BY <1>1, <1>2, FiniteKinds DEF ValidSecret
  <2>2. Cardinality(OfKind(plan, {"signer"})) \in Nat \ {0}
    BY <2>1, FS_EmptySet, FS_CardinalityType
  <2>3. 1 \in 1 .. Cardinality(OfKind(plan, {"signer"}))
    BY <2>2
  <2> QED BY <1>2, <2>3 DEF ApprovalFails, ApprovalSigners, ApprovalThreshold, secret
<1>3. CASE secret.approval # NoId
  <2>1. secret.approval \in Ids(plan, "approvals")
    BY <1>1, <1>3 DEF ValidSecret
  <2>2. ValidApproval(plan, plan.approvals[secret.approval])
    BY <2>1 DEF Validate
  <2> QED BY <1>3, <2>1, <2>2 DEF ApprovalFails, ApprovalSigners, ApprovalThreshold, secret,
          ValidApproval
<1> QED BY <1>2, <1>3

\* Validation, with its two worklists, ensures what WellFormed states without them.
LEMMA ValidIsWellFormed ==
  ASSUME NEW plan, IsPlan(plan), Validate(plan)
  PROVE  WellFormed(plan)
<1> DEFINE all == Ids(plan, "identities") \cup Ids(plan, "groups") \cup Ids(plan, "targets")
<1>1. \A g \in Ids(plan, "groups") : plan.groups[g] \subseteq all
  BY ResolvedIsDeclared DEF Validate, ValidGroupGraph
<1>2. ASSUME NEW s \in Ids(plan, "secrets")
      PROVE  /\ Secret(plan, s).administrators \subseteq all
             /\ Secret(plan, s).consumers \subseteq all
             /\ Secret(plan, s).selectors.groups \subseteq all
  BY <1>2 DEF Validate, ValidSecret, ValidSelectors
<1>3. \A a \in Ids(plan, "approvals") : plan.approvals[a].signers \subseteq all
  BY DEF Validate, ValidApproval, OfKind
<1>4. \A t \in Ids(plan, "targets") : plan.targets[t].identity \in all
  BY DEF Validate, ValidTargets, OfKind
<1>5. Referenced(plan) \subseteq all
  <2> HIDE DEF all
  <2> QED BY <1>1, <1>2, <1>3, <1>4 DEF Referenced
<1>6. \A g \in Ids(plan, "groups") : g \notin Members(plan, g)
  <2>1. IsFiniteSet(Ids(plan, "groups"))
    BY DEF IsPlan, Collections, Ids
  <2> QED BY <2>1, PoppedIsAcyclic DEF Validate, ValidGroupGraph
<1> QED BY <1>5, <1>6, ValidIsApprovable DEF WellFormed

\* Whoever may activate a secret is selected for it.
LEMMA ConsumerIsSelected ==
  ASSUME NEW plan, IsPlan(plan), Validate(plan), NEW s \in Ids(plan, "secrets"),
         NEW t \in Ids(plan, "targets"), TargetIsConsumer(plan, Secret(plan, s), t)
  PROVE  t \in SelectedConsumerTargets(plan, Secret(plan, s))
<1>1. t \notin Ids(plan, "groups")
  BY DEF Validate, ValidNamespace
<1> QED BY <1>1 DEF TargetIsConsumer, SelectedConsumerTargets, ExpandGroupLeaves

\* No reference, no group.
LEMMA NothingVisited ==
  ASSUME NEW plan, IsPlan(plan)
  PROVE  Visited(plan, {}) = {}
<1>1. IsFiniteSet(Ids(plan, "groups"))
  BY DEF IsPlan, Collections, Ids
<1>2. Closed(plan, {}) /\ {} \in SUBSET Ids(plan, "groups") /\ {} \cap Ids(plan, "groups") = {}
  BY DEF Closed
<1>3. Visited(plan, {}) \subseteq {}
  BY <1>1, <1>2, VisitedIsClosure
<1> QED BY <1>3

\* The projections of a valid plan.
LEMMA ValidIsProjectable ==
  ASSUME NEW plan, IsPlan(plan), Validate(plan)
  PROVE  /\ \A s \in Ids(plan, "secrets") :
              /\ ~RecipientsFail(plan, s)
              /\ OfKind(plan, {"recovery"}) \subseteq SecretRecipients(plan, s)
              /\ Secret(plan, s).repositoryOnly =>
                   \A t \in Ids(plan, "targets") : s \notin TargetSecrets(plan, t)
         /\ \A t \in Ids(plan, "targets") :
              /\ ~TargetPolicyFails(plan, t)
              /\ \A s \in TargetSecrets(plan, t) :
                   Secret(plan, s).delivery = "direct" =>
                     plan.targets[t].identity \in SecretRecipients(plan, s)
<1>1. ASSUME NEW s \in Ids(plan, "secrets") PROVE ValidSecret(plan, Secret(plan, s))
  BY DEF Validate
<1>2. \A t \in Ids(plan, "targets") : plan.targets[t].identity \in Ids(plan, "identities")
  BY DEF Validate, ValidTargets, OfKind
<1>3. ASSUME NEW s \in Ids(plan, "secrets") PROVE ~RecipientsFail(plan, s)
  <2> DEFINE secret == Secret(plan, s)
             selected == SelectedConsumerTargets(plan, secret)
  <2>1. ValidSecret(plan, secret)
    BY <1>1, <1>3
  <2> HIDE DEF secret
  <2>2. AdministratorIds(plan, secret) \subseteq OfKind(plan, Custodians)
    BY <2>1 DEF AdministratorIds, ValidSecret
  <2>3. ~SelectionFails(plan, secret) /\ selected \subseteq Ids(plan, "targets")
    BY <2>1 DEF ValidSecret
  <2>4. AdministratorIds(plan, secret) # {} \/ (secret.delivery = "direct" /\ selected # {})
    <3>1. CASE HasAdministrator(plan, secret)
      BY <2>1, <3>1 DEF HasAdministrator, AdministratorIds, ValidSecret
    <3> QED BY <2>1, <3>1 DEF ValidSecret
  <2> HIDE DEF selected
  <2>5. SecretRecipients(plan, s) # {}
    BY <2>4 DEF SecretRecipients, secret, selected
  <2>6. SecretRecipients(plan, s) \subseteq Ids(plan, "identities")
    BY <1>2, <2>2, <2>3 DEF SecretRecipients, OfKind, secret, selected
  <2> QED BY <2>2, <2>3, <2>5, <2>6 DEF RecipientsFail, secret
<1>4. ASSUME NEW s \in Ids(plan, "secrets"), Secret(plan, s).repositoryOnly,
             NEW t \in Ids(plan, "targets"), s \in TargetSecrets(plan, t)
      PROVE  FALSE
  <2>1. Secret(plan, s).consumers = {} /\ Secret(plan, s).selectors = NoSelectors
    BY <1>1, <1>4 DEF ValidSecret, ValidRepositoryOnly
  <2>2. SelectedConsumerTargets(plan, Secret(plan, s)) = {}
    BY <2>1, NothingVisited DEF SelectedConsumerTargets, ExpandGroupLeaves
  <2> QED BY <1>4, <2>2, ConsumerIsSelected DEF TargetSecrets
<1>5. ASSUME NEW t \in Ids(plan, "targets") PROVE ~TargetPolicyFails(plan, t)
  <2>1. \A s \in TargetSecrets(plan, t) : ~ApprovalFails(plan, Secret(plan, s))
    BY ValidIsApprovable DEF TargetSecrets
  <2>2. \A m \in TargetTemplates(plan, t) : ValidTemplate(plan, plan.templates[m])
    BY DEF TargetTemplates, Validate
  <2> QED BY <1>2, <2>1, <2>2 DEF TargetPolicyFails
<1>6. ASSUME NEW t \in Ids(plan, "targets"), NEW s \in TargetSecrets(plan, t),
             Secret(plan, s).delivery = "direct"
      PROVE  plan.targets[t].identity \in SecretRecipients(plan, s)
  <2>1. s \in Ids(plan, "secrets") /\ t \in SelectedConsumerTargets(plan, Secret(plan, s))
    BY ConsumerIsSelected DEF TargetSecrets
  <2> QED BY <1>6, <2>1 DEF SecretRecipients
<1>7. \A s \in Ids(plan, "secrets") : OfKind(plan, {"recovery"}) \subseteq SecretRecipients(plan, s)
  BY DEF SecretRecipients
<1> QED BY <1>3, <1>4, <1>5, <1>6, <1>7

-----------------------------------------------------------------------------
(* The inductive invariant *)

Steps == {"idle", "load", "validate", "persist", "sync"}

\* A command that has begun holds the lock.
HolderInv(p) == pc[p] # "idle" => lock = p

\* What a command has staged is its edit of the plan that is still on disk, and
\* what it is about to rename was accepted.
StagedInv(p) ==
  /\ pc[p] \in {"validate", "persist"} => staged[p] = Mutate(edit[p], toml)
  /\ pc[p] = "persist" => Accepted(edit[p], staged[p])

\* A command works on one of the invocations, and past its load on one that was
\* not refused.
EditInv(p) ==
  /\ pc[p] # "idle" => edit[p] \in Edits
  /\ pc[p] \in {"validate", "persist"} => ~EditRefused(edit[p], toml)

IndInv ==
  /\ pc \in [Procs -> Steps]
  /\ DOMAIN edit = Procs
  /\ DOMAIN staged = Procs
  /\ IsPlan(toml) /\ IsPlan(nix)
  /\ \A p \in Procs : HolderInv(p) /\ StagedInv(p) /\ EditInv(p)

\* An edited plan is a plan.
LEMMA MutatedIsPlan ==
  ASSUME NEW e, e.op \in Operations, NEW plan, IsPlan(plan)
  PROVE  IsPlan(Mutate(e, plan))
<1> DEFINE new == Mutate(e, plan)
<1>1. DOMAIN new = Collections
  BY DEF Mutate, IsPlan, Operations, Collections
<1>2. ASSUME NEW c \in Collections PROVE IsFiniteSet(DOMAIN new[c])
  <2>1. /\ IsFiniteSet(DOMAIN plan[c] \cup {e.id}) /\ IsFiniteSet(DOMAIN plan[c] \ {e.id})
        /\ IsFiniteSet(DOMAIN plan[c])
    BY FS_AddElement, FS_RemoveElement DEF IsPlan
  <2>2. DOMAIN new[c] \in {DOMAIN plan[c], DOMAIN plan[c] \cup {e.id}, DOMAIN plan[c] \ {e.id}}
    BY DEF Mutate, IsPlan, Operations, Collections, With, Without
  <2> QED BY <2>1, <2>2
<1> QED BY <1>1, <1>2 DEF IsPlan

\* A step of the holder that leaves the plans alone, or after which the holder is
\* not about to use what it staged, disturbs no other command.
LEMMA Others ==
  ASSUME IndInv, NEW p \in Procs, NEW q \in Procs, q # p,
         pc[p] # "idle", pc'[q] = pc[q]
  PROVE  HolderInv(q)' /\ StagedInv(q)' /\ EditInv(q)'
<1>1. pc[q] = "idle"
  BY DEF IndInv, HolderInv
<1> QED BY <1>1 DEF HolderInv, StagedInv, EditInv

\* Every return, with or without an error, preserves the invariant.
LEMMA ReturnInv ==
  ASSUME IndInv, NEW p \in Procs, pc[p] # "idle", Return(p), UNCHANGED <<toml, nix>>
  PROVE  IndInv'
<1>1. pc' \in [Procs -> Steps] /\ DOMAIN edit' = Procs /\ DOMAIN staged' = Procs
  BY DEF IndInv, Return, Steps
<1>2. pc'[p] = "idle" /\ \A q \in Procs \ {p} : pc'[q] = pc[q]
  BY DEF IndInv, Return
<1>3. HolderInv(p)' /\ StagedInv(p)' /\ EditInv(p)'
  BY <1>2 DEF HolderInv, StagedInv, EditInv
<1>4. \A q \in Procs \ {p} : HolderInv(q)' /\ StagedInv(q)' /\ EditInv(q)'
  BY <1>2, Others
<1>5. IsPlan(toml)' /\ IsPlan(nix)'
  BY DEF IndInv
<1> QED BY <1>1, <1>3, <1>4, <1>5 DEF IndInv

\* The invariant holds at first.
LEMMA InitInv == Init => IndInv
BY PlanEditsAssumption DEF Init, IndInv, HolderInv, StagedInv, EditInv, Steps

\* Every step preserves the invariant.
LEMMA StepInv ==
  ASSUME IndInv, [Next]_vars
  PROVE  IndInv'
<1>1. CASE UNCHANGED vars
  BY <1>1 DEF vars, IndInv, HolderInv, StagedInv, EditInv, Accepted, Given
<1>2. ASSUME NEW p \in Procs, Lock(p)
      PROVE  IndInv'
  <2>1. /\ pc' \in [Procs -> Steps] /\ DOMAIN edit' = Procs /\ DOMAIN staged' = Procs
        /\ IsPlan(toml)' /\ IsPlan(nix)'
    BY <1>2 DEF IndInv, Lock, Steps
  <2>2. pc'[p] = "load" /\ edit'[p] \in Edits /\ \A q \in Procs \ {p} : pc'[q] = pc[q]
    BY <1>2 DEF IndInv, Lock
  <2>3. \A q \in Procs : pc[q] = "idle"
    BY <1>2, PlanEditsAssumption DEF IndInv, Lock, HolderInv
  <2>4. HolderInv(p)' /\ StagedInv(p)' /\ EditInv(p)'
    BY <1>2, <2>2 DEF HolderInv, StagedInv, EditInv, Lock
  <2>5. \A q \in Procs \ {p} : HolderInv(q)' /\ StagedInv(q)' /\ EditInv(q)'
    BY <2>2, <2>3 DEF HolderInv, StagedInv, EditInv
  <2> QED BY <2>1, <2>4, <2>5 DEF IndInv
<1>3. ASSUME NEW p \in Procs, Load(p)
      PROVE  IndInv'
  <2>1. /\ pc' \in [Procs -> Steps] /\ DOMAIN edit' = Procs /\ DOMAIN staged' = Procs
        /\ IsPlan(toml)' /\ IsPlan(nix)'
    BY <1>3 DEF IndInv, Load, Steps
  <2>2. pc'[p] = "validate" /\ \A q \in Procs \ {p} : pc'[q] = pc[q]
    BY <1>3 DEF IndInv, Load
  <2>3. HolderInv(p)'
    BY <1>3, <2>2 DEF IndInv, Load, HolderInv
  <2>4. /\ staged'[p] = Mutate(edit[p], toml) /\ edit' = edit /\ toml' = toml
        /\ ~EditRefused(edit[p], toml) /\ edit[p] \in Edits
    BY <1>3 DEF IndInv, Load, EditInv
  <2>5. StagedInv(p)' /\ EditInv(p)'
    BY <2>2, <2>4 DEF StagedInv, EditInv
  <2>6. \A q \in Procs \ {p} : HolderInv(q)' /\ StagedInv(q)' /\ EditInv(q)'
    BY <1>3, <2>2, Others DEF Load
  <2> QED BY <2>1, <2>3, <2>5, <2>6 DEF IndInv
<1>4. ASSUME NEW p \in Procs, Check(p)
      PROVE  IndInv'
  <2>1. /\ pc' \in [Procs -> Steps] /\ DOMAIN edit' = Procs /\ DOMAIN staged' = Procs
        /\ IsPlan(toml)' /\ IsPlan(nix)'
    BY <1>4 DEF IndInv, Check, Steps
  <2>2. pc'[p] = "persist" /\ \A q \in Procs \ {p} : pc'[q] = pc[q]
    BY <1>4 DEF IndInv, Check
  <2>3. HolderInv(p)'
    BY <1>4, <2>2 DEF IndInv, Check, HolderInv
  <2>4. StagedInv(p)' /\ EditInv(p)'
    BY <1>4, <2>2 DEF IndInv, Check, StagedInv, EditInv, Accepted, Given
  <2>5. \A q \in Procs \ {p} : HolderInv(q)' /\ StagedInv(q)' /\ EditInv(q)'
    BY <1>4, <2>2, Others DEF Check
  <2> QED BY <2>1, <2>3, <2>4, <2>5 DEF IndInv
<1>5. ASSUME NEW p \in Procs, Persist(p)
      PROVE  IndInv'
  <2>1. /\ pc' \in [Procs -> Steps] /\ DOMAIN edit' = Procs /\ DOMAIN staged' = Procs
        /\ IsPlan(nix)'
    BY <1>5 DEF IndInv, Persist, Steps
  <2>2. pc'[p] = "sync" /\ \A q \in Procs \ {p} : pc'[q] = pc[q]
    BY <1>5 DEF IndInv, Persist
  <2>3. toml' = Mutate(edit[p], toml) /\ edit[p].op \in Operations
    BY <1>5, PlanEditsAssumption DEF IndInv, Persist, StagedInv, EditInv
  <2>4. IsPlan(toml')
    BY <2>3, MutatedIsPlan DEF IndInv
  <2>5. HolderInv(p)' /\ StagedInv(p)' /\ EditInv(p)'
    BY <1>5, <2>2 DEF IndInv, Persist, HolderInv, StagedInv, EditInv
  <2>6. \A q \in Procs \ {p} : HolderInv(q)' /\ StagedInv(q)' /\ EditInv(q)'
    BY <1>5, <2>2, Others DEF Persist
  <2> QED BY <2>1, <2>4, <2>5, <2>6 DEF IndInv
<1>6. ASSUME NEW p \in Procs,
             Refuse(p) \/ Reject(p) \/ PersistFails(p) \/ Sync(p) \/ Kill(p)
      PROVE  IndInv'
  <2>1. pc[p] # "idle" /\ Return(p) /\ UNCHANGED <<toml, nix>>
    BY <1>6 DEF Refuse, Reject, PersistFails, Sync, Kill
  <2> QED BY <2>1, ReturnInv
<1> QED BY <1>1, <1>2, <1>3, <1>4, <1>5, <1>6 DEF Next

\* The inductive invariant of the plan editors: one command at a time is between
\* its lock and its return, and what it staged is still an edit of what is on
\* disk.  (mutate_toml_plan)
THEOREM PlanEditsInductive == Spec => []IndInv
BY InitInv, StepInv, PTL DEF Spec

\* A commit replaces the plan by the edit of one command, which accepted it.
LEMMA CommitStep ==
  ASSUME IndInv, [Next]_vars, toml' # toml
  PROVE  \E p \in Procs :
           /\ pc[p] = "persist" /\ \A q \in Procs \ {p} : pc[q] = "idle"
           /\ edit[p] \in Edits /\ ~EditRefused(edit[p], toml)
           /\ toml' = Mutate(edit[p], toml) /\ Accepted(edit[p], toml') /\ nix' = nix
<1>1. PICK p \in Procs : Persist(p)
  BY DEF Next, vars, Lock, Load, Refuse, Check, Reject, PersistFails, Sync, Kill
<1>2. toml' = staged[p] /\ nix' = nix /\ pc[p] = "persist"
  BY <1>1 DEF Persist
<1>3. staged[p] = Mutate(edit[p], toml) /\ Accepted(edit[p], staged[p])
  BY <1>2 DEF IndInv, StagedInv
<1>4. edit[p] \in Edits /\ ~EditRefused(edit[p], toml)
  BY <1>2 DEF IndInv, EditInv
<1>5. \A q \in Procs \ {p} : pc[q] = "idle"
  BY <1>2 DEF IndInv, HolderInv
<1>6. Accepted(edit[p], toml')
  BY <1>2, <1>3
<1> QED BY <1>2, <1>3, <1>4, <1>5, <1>6

\* What a command was given is a plan.
LEMMA GivenIsPlan ==
  ASSUME NEW e, NEW plan, IsPlan(plan), IsPlan(nix)
  PROVE  IsPlan(Given(e, plan))
BY MergedIsPlan DEF Given

\* Concurrent editors are serialised: no edit is lost, whatever commands run side
\* by side and wherever they fail or are killed.  (mutate_toml_plan)
THEOREM EditsAreSerialized == Spec => EditsSerialized
<1>1. ASSUME IndInv, [Next]_vars
      PROVE  toml' # toml => \E p \in Procs : toml' = Mutate(edit[p], toml)
  BY <1>1, CommitStep
<1>2. IndInv /\ [Next]_vars => [toml' # toml => \E p \in Procs : toml' = Mutate(edit[p], toml)]_vars
  BY <1>1
<1> QED BY <1>2, PlanEditsInductive, PTL DEF Spec, EditsSerialized

\* If every command is given the Nix-emitted plan, none leaves sources that do not
\* compile: once they merge and validate they always do, and a commit repairs
\* them when they did not.  (mutate_toml_plan_locked with --nix-plan)
THEOREM CommitsCompile ==
  ASSUME \A e \in Edits : e.nix
  PROVE  Spec => [][toml' # toml \/ Compiles => Compiles']_vars
<1>1. ASSUME IndInv, [Next]_vars, toml' # toml
      PROVE  Compiles'
  <2>1. PICK p \in Procs : edit[p].nix /\ Accepted(edit[p], toml') /\ nix' = nix
    BY <1>1, CommitStep
  <2>2. ~Conflicts(toml', nix) /\ Validate(Merge(toml', nix))
    BY <2>1 DEF Accepted, Given
  <2> QED BY <2>1, <2>2 DEF Compiles, Merged
<1>2. ASSUME IndInv, [Next]_vars, Compiles, toml' = toml
      PROVE  Compiles'
  <2>1. nix' = nix
    BY <1>2 DEF Next, vars, Lock, Load, Refuse, Check, Reject, Persist, PersistFails, Sync, Kill
  <2> QED BY <1>2, <2>1 DEF Compiles, Merged
<1>3. IndInv /\ [Next]_vars => [toml' # toml \/ Compiles => Compiles']_vars
  BY <1>1, <1>2
<1> QED BY <1>3, PlanEditsInductive, PTL DEF Spec

\* Whatever was written by hand and edited since, the projections of two sources
\* that compile succeed and agree on who consumes a secret.  (validate,
\* target_policy, secret_recipients)
THEOREM ProjectionsAlwaysAgree == Spec => []ProjectionsAgree
<1>1. ASSUME IndInv, Compiles PROVE IsPlan(Merged) /\ Validate(Merged)
  BY <1>1, MergedIsPlan DEF IndInv, Compiles, Merged
<1>2. IndInv => ProjectionsAgree
  BY <1>1, ValidIsProjectable DEF ProjectionsAgree
<1> QED BY <1>2, PlanEditsInductive, PTL

\* No command leaves the policy it was given naming what is not declared, with a
\* group inside itself or a secret nobody can approve, for plans of any size: the
\* merge with --nix-plan, the TOML plan without.  (validate,
\* mutate_toml_plan_locked)
THEOREM CommitsAreAlwaysWellFormed == Spec => CommitsAreWellFormed
<1>1. ASSUME IndInv, IndInv', [Next]_vars, NEW p \in Procs, Commits(p)
      PROVE  WellFormed(Given(edit[p], toml'))
  <2>1. Accepted(edit[p], toml') /\ IsPlan(toml') /\ IsPlan(nix)
    BY <1>1, CommitStep DEF IndInv, Commits
  <2>2. IsPlan(Given(edit[p], toml')) /\ Validate(Given(edit[p], toml'))
    BY <2>1, GivenIsPlan DEF Accepted
  <2> QED BY <2>2, ValidIsWellFormed
<1>2. IndInv /\ IndInv' /\ [Next]_vars =>
        [\A p \in Procs : Commits(p) => WellFormed(Given(edit[p], toml'))]_vars
  BY <1>1
<1> QED BY <1>2, PlanEditsInductive, PTL DEF Spec, CommitsAreWellFormed

-----------------------------------------------------------------------------
(* Edits keep authority *)

\* More groups, none of which the plan knew: what they add cannot be reached.
Grows(plan, more) ==
  /\ Ids(plan, "groups") \subseteq Ids(more, "groups")
  /\ \A g \in Ids(plan, "groups") :
       more.groups[g] = plan.groups[g]
         /\ plan.groups[g] \cap Ids(more, "groups") \subseteq Ids(plan, "groups")

\* Groups that cannot be reached are not visited.
LEMMA SameVisited ==
  ASSUME NEW plan, NEW more, IsPlan(plan), IsPlan(more), Grows(plan, more),
         NEW refs, refs \cap Ids(more, "groups") \subseteq Ids(plan, "groups")
  PROVE  Visited(more, refs) = Visited(plan, refs)
<1> DEFINE G == Ids(plan, "groups")
           H == Ids(more, "groups")
           V == Visited(plan, refs)
           W == Visited(more, refs)
<1>1. IsFiniteSet(G) /\ IsFiniteSet(H)
  BY DEF IsPlan, Collections, Ids
<1>2. refs \cap G = refs \cap H /\ G \subseteq H
  BY DEF Grows
<1>3. \A g \in G : SubGroups(more, g) = SubGroups(plan, g)
  BY DEF Grows, SubGroups
<1>4. /\ refs \cap G \subseteq V /\ V \subseteq G /\ Closed(plan, V)
      /\ \A C \in SUBSET G : refs \cap G \subseteq C /\ Closed(plan, C) => V \subseteq C
  BY <1>1, VisitedIsClosure
<1>5. /\ refs \cap H \subseteq W /\ W \subseteq H /\ Closed(more, W)
      /\ \A C \in SUBSET H : refs \cap H \subseteq C /\ Closed(more, C) => W \subseteq C
  BY <1>1, VisitedIsClosure
<1> HIDE DEF G, H, V, W
<1>6. Closed(more, V)
  BY <1>3, <1>4 DEF Closed
<1>7. W \subseteq V
  BY <1>2, <1>4, <1>5, <1>6
<1>8. Closed(plan, W)
  BY <1>3, <1>4, <1>5, <1>7 DEF Closed
<1>9. V \subseteq W
  BY <1>2, <1>4, <1>5, <1>7, <1>8
<1> QED BY <1>7, <1>9 DEF V, W

\* Nor do they change what references stand for.
LEMMA SameLeaves ==
  ASSUME NEW plan, NEW more, IsPlan(plan), IsPlan(more), Grows(plan, more),
         NEW refs, refs \cap Ids(more, "groups") \subseteq Ids(plan, "groups")
  PROVE  ExpandGroupLeaves(more, refs) = ExpandGroupLeaves(plan, refs)
<1>1. Visited(more, refs) = Visited(plan, refs)
  BY SameVisited
<1>2. IsFiniteSet(Ids(plan, "groups"))
  BY DEF IsPlan, Collections, Ids
<1>3. Visited(plan, refs) \subseteq Ids(plan, "groups")
  BY <1>2, VisitedIsClosure
<1>4. \A g \in Visited(plan, refs) :
        more.groups[g] = plan.groups[g]
          /\ plan.groups[g] \cap Ids(more, "groups") \subseteq Ids(plan, "groups")
  BY <1>3 DEF Grows
<1>5. Ids(plan, "groups") \subseteq Ids(more, "groups")
  BY DEF Grows
<1>6. UNION {more.groups[g] : g \in Visited(more, refs)}
        = UNION {plan.groups[g] : g \in Visited(plan, refs)}
  BY <1>1, <1>4
<1> DEFINE members == UNION {plan.groups[g] : g \in Visited(plan, refs)}
           G == Ids(plan, "groups")
           H == Ids(more, "groups")
<1>7. members \cap H \subseteq G
  <2>1. ASSUME NEW x \in members, x \in H PROVE x \in G
    <3>1. PICK g \in Visited(plan, refs) : x \in plan.groups[g]
      OBVIOUS
    <3> QED BY <1>4, <2>1, <3>1
  <2> QED BY <2>1
<1>8. ExpandGroupLeaves(more, refs) = (refs \cup members) \ H
  BY <1>6 DEF ExpandGroupLeaves
<1>9. ExpandGroupLeaves(plan, refs) = (refs \cup members) \ G
  BY DEF ExpandGroupLeaves
<1>10. refs \cap H \subseteq G /\ G \subseteq H
  BY <1>5
<1> HIDE DEF members, G, H
<1> QED BY <1>7, <1>8, <1>9, <1>10

\* Plans that differ in identities, or by groups the smaller one does not name.
Extends(plan, more) ==
  /\ Grows(plan, more)
  /\ \A c \in Collections \ {"identities", "groups"} : more[c] = plan[c]
  /\ \A s \in Ids(plan, "secrets") :
       (Secret(plan, s).consumers \cup Secret(plan, s).administrators
          \cup Secret(plan, s).selectors.groups) \cap Ids(more, "groups")
         \subseteq Ids(plan, "groups")

\* Such plans agree on the administrators and the consumers of every secret.
LEMMA SameConsumers ==
  ASSUME NEW plan, NEW more, IsPlan(plan), IsPlan(more), Extends(plan, more),
         NEW s \in Ids(plan, "secrets")
  PROVE  /\ Secret(more, s) = Secret(plan, s)
         /\ ExpandGroupLeaves(more, Secret(plan, s).administrators)
              = ExpandGroupLeaves(plan, Secret(plan, s).administrators)
         /\ SelectedConsumerTargets(more, Secret(plan, s))
              = SelectedConsumerTargets(plan, Secret(plan, s))
         /\ \A t : TargetIsConsumer(more, Secret(plan, s), t)
                     <=> TargetIsConsumer(plan, Secret(plan, s), t)
<1> DEFINE secret == Secret(plan, s)
<1>1. more.secrets = plan.secrets /\ more.targets = plan.targets
  BY DEF Extends, Collections
<1>2. Secret(more, s) = secret /\ Ids(more, "targets") = Ids(plan, "targets")
  BY <1>1 DEF Secret, Ids
<1>3. \A refs \in {secret.consumers, secret.administrators, secret.selectors.groups} :
        refs \cap Ids(more, "groups") \subseteq Ids(plan, "groups")
  BY DEF Extends
<1>4. Grows(plan, more)
  BY DEF Extends
<1> HIDE DEF secret
<1>5. \A refs \in {secret.consumers, secret.administrators, secret.selectors.groups} :
        ExpandGroupLeaves(more, refs) = ExpandGroupLeaves(plan, refs)
  BY <1>3, <1>4, SameLeaves
<1>6. Candidates(more, secret.selectors) = Candidates(plan, secret.selectors)
  BY <1>2, <1>5 DEF Candidates
<1>7. SelectedConsumerTargets(more, secret) = SelectedConsumerTargets(plan, secret)
  BY <1>1, <1>2, <1>5, <1>6 DEF SelectedConsumerTargets
<1>8. SelectionFails(more, secret) <=> SelectionFails(plan, secret)
  BY <1>2, <1>7 DEF SelectionFails
<1>9. Visited(more, secret.consumers) = Visited(plan, secret.consumers)
  BY <1>3, <1>4, SameVisited
<1>10. \A g \in Visited(plan, secret.consumers) : more.groups[g] = plan.groups[g]
  <2>1. IsFiniteSet(Ids(plan, "groups"))
    BY DEF IsPlan, Collections, Ids
  <2>2. Visited(plan, secret.consumers) \subseteq Ids(plan, "groups")
    BY <2>1, VisitedIsClosure
  <2> QED BY <1>4, <2>2 DEF Grows
<1>11. ASSUME NEW t
       PROVE  TargetIsConsumer(more, secret, t) <=> TargetIsConsumer(plan, secret, t)
  <2>1. (\E g \in Visited(more, secret.consumers) : t \in more.groups[g])
          <=> (\E g \in Visited(plan, secret.consumers) : t \in plan.groups[g])
    BY <1>9, <1>10
  <2>2. TargetIsConsumer(more, secret, t) <=>
          \/ ~SelectionFails(plan, secret) /\ t \in SelectedConsumerTargets(plan, secret)
          \/ t \in secret.consumers
          \/ \E g \in Visited(plan, secret.consumers) : t \in plan.groups[g]
    BY <1>7, <1>8, <2>1 DEF TargetIsConsumer
  <2> QED BY <2>2 DEF TargetIsConsumer
<1>12. ExpandGroupLeaves(more, secret.administrators) = ExpandGroupLeaves(plan, secret.administrators)
  BY <1>5
<1>13. \A t : TargetIsConsumer(more, secret, t) <=> TargetIsConsumer(plan, secret, t)
  BY <1>11
<1> QED BY <1>2, <1>7, <1>12, <1>13 DEF secret

\* One plan has all the groups of the other, with the same members.
HasGroups(more, plan) ==
  /\ Ids(plan, "groups") \subseteq Ids(more, "groups")
  /\ \A g \in Ids(plan, "groups") : more.groups[g] = plan.groups[g]

\* A group neither source named before it was added, or after it was removed, is
\* not reachable.  (group_references, validate)
LEMMA UnnamedGroups ==
  ASSUME NEW plan, NEW more, Validate(plan), ValidNamespace(more),
         \A c \in Collections \ {"groups"} : more[c] = plan[c],
         HasGroups(more, plan)
  PROVE  Extends(plan, more)
<1> DEFINE G == Ids(plan, "groups")
           H == Ids(more, "groups")
           I == Ids(plan, "identities")
           T == Ids(plan, "targets")
<1>1. Ids(more, "identities") = I /\ Ids(more, "targets") = T
  BY DEF Collections, Ids
<1>2. (I \cup T) \cap H = {}
  BY <1>1 DEF ValidNamespace
<1>3. ASSUME NEW g \in G PROVE plan.groups[g] \cap H \subseteq G
  <2>1. ASSUME NEW m \in plan.groups[g] PROVE m \in I \cup G \cup T
    <3>1. ResolvesOnce(plan, m)
      BY DEF Validate, ValidGroupGraph
    <3> QED BY <3>1, ResolvedIsDeclared
  <2> HIDE DEF G, H, I, T
  <2> QED BY <1>2, <2>1
<1>4. Grows(plan, more)
  BY <1>3 DEF Grows, HasGroups
<1>5. ASSUME NEW s \in Ids(plan, "secrets")
      PROVE  (Secret(plan, s).consumers \cup Secret(plan, s).administrators
                \cup Secret(plan, s).selectors.groups) \cap H \subseteq G
  <2> DEFINE secret == Secret(plan, s)
  <2>1. ValidSecret(plan, secret)
    BY DEF Validate
  <2> HIDE DEF secret
  <2>2. /\ secret.consumers \subseteq T \cup G /\ secret.administrators \subseteq I \cup G
        /\ secret.selectors.groups \subseteq G
    BY <2>1 DEF ValidSecret, ValidSelectors
  <2> HIDE DEF G, H, I, T
  <2>3. (secret.consumers \cup secret.administrators \cup secret.selectors.groups) \cap H
          \subseteq G
    BY <1>2, <2>2
  <2> QED BY <2>3 DEF secret
<1> QED BY <1>4, <1>5 DEF Extends

\* The identities of two plans agree, except perhaps one.
SameBut(plan, more, i) ==
  /\ Ids(plan, "identities") \ {i} = Ids(more, "identities") \ {i}
  /\ \A j \in Ids(plan, "identities") \ {i} : more.identities[j] = plan.identities[j]

\* Such plans give the same targets the same secrets, and encrypt to the same
\* identities, except perhaps that one.
LEMMA SameAuthority ==
  ASSUME NEW plan, NEW more, IsPlan(plan), IsPlan(more), Extends(plan, more),
         NEW i, SameBut(plan, more, i)
  PROVE  /\ Ids(more, "targets") = Ids(plan, "targets")
         /\ Ids(more, "secrets") = Ids(plan, "secrets")
         /\ \A t : TargetSecrets(more, t) = TargetSecrets(plan, t)
         /\ \A s \in Ids(plan, "secrets") :
              SecretRecipients(more, s) \ {i} = SecretRecipients(plan, s) \ {i}
<1>1. more.secrets = plan.secrets /\ more.targets = plan.targets
  BY DEF Extends, Collections
<1>2. Ids(more, "targets") = Ids(plan, "targets") /\ Ids(more, "secrets") = Ids(plan, "secrets")
  BY <1>1 DEF Ids
<1>3. ASSUME NEW t PROVE TargetSecrets(more, t) = TargetSecrets(plan, t)
  <2>1. \A s \in Ids(plan, "secrets") :
          TargetIsConsumer(more, Secret(more, s), t) <=> TargetIsConsumer(plan, Secret(plan, s), t)
    BY SameConsumers
  <2> QED BY <1>2, <2>1 DEF TargetSecrets
<1>4. ASSUME NEW kinds PROVE OfKind(more, kinds) \ {i} = OfKind(plan, kinds) \ {i}
  BY DEF OfKind, Identity, SameBut
<1>5. ASSUME NEW s \in Ids(plan, "secrets")
      PROVE  SecretRecipients(more, s) \ {i} = SecretRecipients(plan, s) \ {i}
  <2> DEFINE secret == Secret(plan, s)
             direct(x) == IF secret.delivery # "direct" THEN {}
                          ELSE {plan.targets[t].identity : t \in SelectedConsumerTargets(x, secret)}
  <2>1. /\ Secret(more, s) = secret
        /\ ExpandGroupLeaves(more, secret.administrators)
             = ExpandGroupLeaves(plan, secret.administrators)
        /\ SelectedConsumerTargets(more, secret) = SelectedConsumerTargets(plan, secret)
    BY SameConsumers
  <2> HIDE DEF secret
  <2>2. AdministratorIds(more, secret) \ {i} = AdministratorIds(plan, secret) \ {i}
    BY <1>4, <2>1 DEF AdministratorIds
  <2>3. direct(more) = direct(plan)
    BY <2>1
  <2>4. SecretRecipients(more, s)
          = AdministratorIds(more, secret) \cup OfKind(more, {"recovery"}) \cup direct(more)
    BY <1>1, <2>1 DEF SecretRecipients
  <2>5. SecretRecipients(plan, s)
          = AdministratorIds(plan, secret) \cup OfKind(plan, {"recovery"}) \cup direct(plan)
    BY DEF SecretRecipients, secret
  <2>6. OfKind(more, {"recovery"}) \ {i} = OfKind(plan, {"recovery"}) \ {i}
    BY <1>4
  <2> HIDE DEF direct
  <2> QED BY <2>2, <2>3, <2>4, <2>5, <2>6
<1> QED BY <1>2, <1>3, <1>5

\* What an artifact's hash covers is not in the groups.  (SecretArtifactPolicy)
LEMMA SameArtifacts ==
  ASSUME NEW plan, NEW more, \A c \in Collections \ {"groups"} : more[c] = plan[c],
         NEW t, NEW s
  PROVE  SecretArtifactPolicy(more, t, s) = SecretArtifactPolicy(plan, t, s)
<1>1. /\ more.targets = plan.targets /\ more.secrets = plan.secrets
      /\ more.identities = plan.identities /\ more.approvals = plan.approvals
  BY DEF Collections
<1>2. \A kinds : OfKind(more, kinds) = OfKind(plan, kinds)
  BY <1>1 DEF OfKind, Ids, Identity
<1>3. Secret(more, s) = Secret(plan, s)
  BY <1>1 DEF Secret
<1>4. ASSUME NEW secret
      PROVE  TargetApprovalPolicy(more, secret) = TargetApprovalPolicy(plan, secret)
  <2>1. /\ ApprovalSigners(more, secret) = ApprovalSigners(plan, secret)
        /\ ApprovalThreshold(more, secret) = ApprovalThreshold(plan, secret)
    BY <1>1, <1>2 DEF ApprovalSigners, ApprovalThreshold
  <2> QED BY <1>1, <2>1 DEF TargetApprovalPolicy, Identity
<1>5. TargetSecretPolicy(more, t, s) = TargetSecretPolicy(plan, t, s)
  BY <1>3, <1>4 DEF TargetSecretPolicy
<1> QED BY <1>1, <1>5 DEF SecretArtifactPolicy, Identity

GroupEdits == {"add_group", "remove_group"}
IdentityEdits == {"add_identity", "remove_identity", "rotate_identity"}

\* An identity edit of the TOML plan changes at most the identity it names.
LEMMA IdentityEditAlone ==
  ASSUME NEW e, e.op \in IdentityEdits, NEW plan, IsPlan(plan)
  PROVE  LET new == Mutate(e, plan)
         IN /\ \A c \in Collections \ {"identities"} : new[c] = plan[c]
            /\ SameBut(plan, new, e.id)
<1>1. \A c \in Collections \ {"identities"} : Mutate(e, plan)[c] = plan[c]
  BY DEF Mutate, IdentityEdits, IsPlan, Collections
<1>2. SameBut(plan, Mutate(e, plan), e.id)
  BY DEF Mutate, IdentityEdits, IsPlan, Collections, With, Without, SameBut, Ids
<1> QED BY <1>1, <1>2

\* So it does in what the command was given.
LEMMA IdentityEdit ==
  ASSUME NEW e, e.op \in IdentityEdits, NEW plan, IsPlan(plan), IsPlan(nix)
  PROVE  LET old == Given(e, plan)  new == Given(e, Mutate(e, plan))
         IN Extends(old, new) /\ SameBut(old, new, e.id)
<1> DEFINE mutated == Mutate(e, plan)
           old == Given(e, plan)
           new == Given(e, mutated)
<1>1. \A c \in Collections \ {"identities"} : mutated[c] = plan[c]
  BY IdentityEditAlone
<1>2. SameBut(plan, mutated, e.id)
  BY IdentityEditAlone
<1> HIDE DEF mutated
<1>3. \A c \in Collections \ {"identities"} : new[c] = old[c]
  BY <1>1 DEF Merge, Given
<1>4. SameBut(old, new, e.id)
  <2>1. CASE e.nix
    <3>1. /\ new.identities = [i \in DOMAIN mutated.identities \cup DOMAIN nix.identities |->
                 IF i \in DOMAIN mutated.identities THEN mutated.identities[i] ELSE nix.identities[i]]
          /\ old.identities = [i \in DOMAIN plan.identities \cup DOMAIN nix.identities |->
                 IF i \in DOMAIN plan.identities THEN plan.identities[i] ELSE nix.identities[i]]
      BY <2>1 DEF Merge, Collections, Given
    <3> HIDE DEF new, old
    <3> QED BY <1>2, <3>1 DEF SameBut, Ids
  <2>2. CASE ~e.nix
    BY <1>2, <2>2 DEF Given
  <2> QED BY <2>1, <2>2
<1> HIDE DEF new, old
<1>5. new.groups = old.groups /\ Ids(new, "groups") = Ids(old, "groups")
  BY <1>3 DEF Collections, Ids
<1>6. Extends(old, new)
  BY <1>3, <1>5 DEF Extends, Grows
<1> QED BY <1>4, <1>6 DEF new, old, mutated

\* A group edit of the TOML plan adds or removes one group, and leaves the rest alone.
LEMMA GroupEditAlone ==
  ASSUME NEW e, e.op \in GroupEdits, NEW plan, IsPlan(plan), ~EditRefused(e, plan)
  PROVE  LET new == Mutate(e, plan)
         IN /\ \A c \in Collections \ {"groups"} : new[c] = plan[c]
            /\ e.op = "add_group" => HasGroups(new, plan)
            /\ e.op = "remove_group" => HasGroups(plan, new)
<1> DEFINE new == Mutate(e, plan)
<1>1. \A c \in Collections \ {"groups"} : new[c] = plan[c]
  BY DEF Mutate, GroupEdits, IsPlan, Collections
<1>2. ASSUME e.op = "add_group" PROVE HasGroups(new, plan)
  <2>1. new.groups = With(plan.groups, e.id, e.object) /\ e.id \notin DOMAIN plan.groups
    BY <1>2 DEF Mutate, EditRefused, IsPlan, Collections, Ids
  <2> HIDE DEF new
  <2> QED BY <2>1 DEF With, HasGroups, Ids
<1>3. ASSUME e.op = "remove_group" PROVE HasGroups(plan, new)
  <2>1. new.groups = Without(plan.groups, e.id)
    BY <1>3 DEF Mutate, EditRefused, IsPlan, Collections, Ids
  <2> HIDE DEF new
  <2> QED BY <2>1 DEF Without, HasGroups, Ids
<1> QED BY <1>1, <1>2, <1>3

\* A plan that has more groups still has them beside the same other plan.
LEMMA MergedHasGroups ==
  ASSUME NEW plan, NEW more, NEW other, HasGroups(more, plan),
         ~Conflicts(plan, other), ~Conflicts(more, other)
  PROVE  HasGroups(Merge(more, other), Merge(plan, other))
<1> DEFINE new == Merge(more, other)
           old == Merge(plan, other)
<1>1. /\ new.groups = [i \in DOMAIN more.groups \cup DOMAIN other.groups |->
             IF i \in DOMAIN more.groups THEN more.groups[i] ELSE other.groups[i]]
      /\ old.groups = [i \in DOMAIN plan.groups \cup DOMAIN other.groups |->
             IF i \in DOMAIN plan.groups THEN plan.groups[i] ELSE other.groups[i]]
  BY DEF Merge, Collections
<1>2. DOMAIN plan.groups \cap DOMAIN other.groups = {}
        /\ DOMAIN more.groups \cap DOMAIN other.groups = {}
  BY DEF Conflicts, Collections
<1> HIDE DEF new, old
<1>3. HasGroups(new, old)
  BY <1>1, <1>2 DEF HasGroups, Ids
<1> QED BY <1>3 DEF new, old

\* So it does in what the command was given.
LEMMA GroupEdit ==
  ASSUME NEW e, e.op \in GroupEdits, NEW plan, IsPlan(plan), IsPlan(nix),
         ~EditRefused(e, plan), Accepted(e, plan), Accepted(e, Mutate(e, plan))
  PROVE  LET old == Given(e, plan)  new == Given(e, Mutate(e, plan))
         IN /\ \A c \in Collections \ {"groups"} : new[c] = old[c]
            /\ e.op = "add_group" => HasGroups(new, old)
            /\ e.op = "remove_group" => HasGroups(old, new)
<1> DEFINE mutated == Mutate(e, plan)
<1>1. /\ \A c \in Collections \ {"groups"} : mutated[c] = plan[c]
      /\ e.op = "add_group" => HasGroups(mutated, plan)
      /\ e.op = "remove_group" => HasGroups(plan, mutated)
  BY GroupEditAlone
<1>2. Accepted(e, mutated)
  OBVIOUS
<1> HIDE DEF mutated
<1>3. \A c \in Collections \ {"groups"} : Given(e, mutated)[c] = Given(e, plan)[c]
  BY <1>1 DEF Merge, Given
<1>4. CASE e.nix
  <2>1. ~Conflicts(plan, nix) /\ ~Conflicts(mutated, nix)
    BY <1>2, <1>4 DEF Accepted
  <2>2. Given(e, mutated) = Merge(mutated, nix) /\ Given(e, plan) = Merge(plan, nix)
    BY <1>4 DEF Given
  <2> QED BY <1>1, <1>3, <2>1, <2>2, MergedHasGroups DEF mutated
<1>5. CASE ~e.nix
  <2>1. Given(e, mutated) = mutated /\ Given(e, plan) = plan
    BY <1>5 DEF Given
  <2> QED BY <1>1, <1>3, <2>1 DEF mutated
<1> QED BY <1>4, <1>5

\* A commit never widens or narrows what a target may activate under the policy the
\* command was given, if it was valid before: no identity or group command changes
\* which secrets a target gets, only the identity it names can gain or lose a
\* canonical ciphertext, and a group command leaves every artifact valid.
\* (run_identity, run_group, target_policy, secret_recipients)
THEOREM AuthorityIsAlwaysKept == Spec => EditsKeepAuthority
<1>1. ASSUME IndInv, IndInv', [Next]_vars, NEW p \in Procs, Commits(p), Accepted(edit[p], toml)
      PROVE  KeepsAuthority(p)
  <2> DEFINE e == edit[p]
             new == Given(e, toml')
             old == Given(e, toml)
  <2>1. /\ toml' = Mutate(e, toml) /\ Accepted(e, toml')
        /\ e.op \in Operations /\ ~EditRefused(e, toml)
    BY <1>1, CommitStep, PlanEditsAssumption DEF Commits
  <2>2. IsPlan(toml) /\ IsPlan(nix) /\ IsPlan(toml')
    BY <1>1 DEF IndInv
  <2>3. Validate(old) /\ IsPlan(old) /\ Validate(new) /\ IsPlan(new)
    BY <1>1, <2>1, <2>2, GivenIsPlan DEF Accepted
  <2>4. CASE e.op \in IdentityEdits
    <3>1. Extends(old, new) /\ SameBut(old, new, e.id)
      BY <2>1, <2>2, <2>4, IdentityEdit
    <3> HIDE DEF old, new, e
    <3>2. /\ Ids(new, "secrets") = Ids(old, "secrets")
          /\ \A t : TargetSecrets(new, t) = TargetSecrets(old, t)
          /\ \A s \in Ids(old, "secrets") :
               SecretRecipients(new, s) \ {e.id} = SecretRecipients(old, s) \ {e.id}
      BY <2>3, <3>1, SameAuthority
    <3>3. e.op \notin {"add_group", "remove_group"}
      BY <2>4 DEF IdentityEdits
    <3>4. \A s \in Ids(new, "secrets") :
            (SecretRecipients(old, s) \cup SecretRecipients(new, s))
               \ (SecretRecipients(old, s) \cap SecretRecipients(new, s)) \subseteq {e.id}
      BY <3>2
    <3> QED BY <3>2, <3>3, <3>4 DEF old, new, e, KeepsAuthority
  <2>5. CASE e.op \in GroupEdits
    <3>1. /\ \A c \in Collections \ {"groups"} : new[c] = old[c]
          /\ e.op = "add_group" => HasGroups(new, old)
          /\ e.op = "remove_group" => HasGroups(old, new)
      BY <1>1, <2>1, <2>2, <2>5, GroupEdit
    <3>2. ValidNamespace(old) /\ ValidNamespace(new)
      BY <2>3 DEF Validate
    <3> HIDE DEF old, new, e
    <3>3. SameBut(old, new, e.id) /\ SameBut(new, old, e.id)
      BY <3>1 DEF SameBut, Ids, Collections
    <3>4. /\ Ids(new, "secrets") = Ids(old, "secrets")
          /\ \A t : TargetSecrets(new, t) = TargetSecrets(old, t)
          /\ \A s \in Ids(old, "secrets") :
               SecretRecipients(new, s) \ {e.id} = SecretRecipients(old, s) \ {e.id}
      <4>1. CASE e.op = "add_group"
        <5>1. Extends(old, new)
          BY <2>3, <3>1, <3>2, <4>1, UnnamedGroups
        <5> QED BY <2>3, <3>3, <5>1, SameAuthority
      <4>2. CASE e.op = "remove_group"
        <5>1. Extends(new, old)
          BY <2>3, <3>1, <3>2, <4>2, UnnamedGroups
        <5>2. /\ Ids(old, "secrets") = Ids(new, "secrets")
              /\ \A t : TargetSecrets(old, t) = TargetSecrets(new, t)
              /\ \A s \in Ids(new, "secrets") :
                   SecretRecipients(old, s) \ {e.id} = SecretRecipients(new, s) \ {e.id}
          BY <2>3, <3>3, <5>1, SameAuthority
        <5> QED BY <5>2
      <4> QED BY <2>5, <4>1, <4>2 DEF GroupEdits
    <3>5. \A t, s : SecretArtifactPolicy(new, t, s) = SecretArtifactPolicy(old, t, s)
      BY <3>1, SameArtifacts
    <3>6. \A s \in Ids(new, "secrets") :
            (SecretRecipients(old, s) \cup SecretRecipients(new, s))
               \ (SecretRecipients(old, s) \cap SecretRecipients(new, s)) \subseteq {e.id}
      BY <3>4
    <3> QED BY <3>4, <3>5, <3>6 DEF old, new, e, KeepsAuthority
  <2> QED BY <2>1, <2>4, <2>5 DEF Operations, IdentityEdits, GroupEdits
<1>2. IndInv /\ IndInv' /\ [Next]_vars =>
        [\A p \in Procs : Commits(p) /\ Accepted(edit[p], toml) => KeepsAuthority(p)]_vars
  BY <1>1
<1> QED BY <1>2, PlanEditsInductive, PTL DEF Spec, EditsKeepAuthority

=============================================================================
