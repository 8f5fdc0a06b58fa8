--------------------------- MODULE TabPipelineProofs ---------------------------
(***************************************************************************)
(* Theorems about TabPipeline, for sessions with any number of tabs,       *)
(* workspaces and panes and for files with any number of profiles.         *)
(*                                                                         *)
(* First what the pure parts compute: Resolve applies the profiles in      *)
(* order (ResolvesInOrder), Build numbers the tabs of each workspace       *)
(* (BuildsContexts), SelectPane finds the pane that the layout designates  *)
(* (SelectsShown).  Each is an induction over the sequence that FoldLeft   *)
(* goes through; FoldExists unfolds it, Induction does without a predicate *)
(* as a parameter.                                                         *)
(*                                                                         *)
(* Then the inductive invariant, Known, in layers: snapshots stay well     *)
(* formed (SessionOK); a pass decides by its contexts (PassOK,             *)
(* DecisionOK); every label that the plugin has written is on file, with   *)
(* the user's label it replaced, or will be when the pass commits          *)
(* (Memory); while nothing changes, the tabs a pass has come to show the   *)
(* right label (QuietOK).  Memory is what the rest needs: without it a     *)
(* pass might take a label of its own for one of the user's, and label a   *)
(* tab after it.                                                           *)
(***************************************************************************)
EXTENDS TabPipeline, WellFoundedInduction, FiniteSetTheorems, TLAPS

-----------------------------------------------------------------------------
(* Numbers, and folding from the left.                                     *)

(***************************************************************************)
(* A set of natural numbers that is not empty has a least element.         *)
(***************************************************************************)
LEMMA Least ==
  ASSUME NEW S, S \subseteq Nat, S # {}
  PROVE  \E m \in S : \A k \in S : m <= k
<1> DEFINE R == {ss \in Nat \X Nat : ss[1] < ss[2]}
<1>1. IsWellFoundedOn(R, Nat)   BY NatLessThanWellFounded DEF OpToRel
<1>2. \E x \in S : \A y \in S : ~ (<<y, x>> \in R)
  <2> HIDE DEF R
  <2> QED BY <1>1, WFMin
<1>3. \A x, y \in S : y < x => <<y, x>> \in R   OBVIOUS
<1> HIDE DEF R
<1>4. PICK x \in S : \A y \in S : ~ (<<y, x>> \in R)   BY <1>2
<1>5. \A y \in S : x <= y
  <2> TAKE y \in S
  <2>1. x \in Nat /\ y \in Nat  OBVIOUS
  <2>2. ~ (y < x)  BY <1>3, <1>4
  <2> QED BY <2>1, <2>2
<1> QED BY <1>5

(***************************************************************************)
(* Induction as a fact about sets, which needs no predicate as a           *)
(* parameter.                                                              *)
(***************************************************************************)
LEMMA Induction ==
  ASSUME NEW S, 0 \in S, \A n \in S \cap Nat : n + 1 \in S
  PROVE  Nat \subseteq S
<1> SUFFICES ASSUME Nat \ S # {} PROVE FALSE  OBVIOUS
<1>1. PICK m \in Nat \ S : \A k \in Nat \ S : m <= k   BY Least
<1>2. m # 0 /\ m - 1 \in Nat   OBVIOUS
<1>3. m - 1 \in S   BY <1>1, <1>2
<1>4. (m - 1) + 1 \in S   BY <1>2, <1>3
<1> QED BY <1>4

(***************************************************************************)
(* Max of a set of indices is the greatest of them.                        *)
(***************************************************************************)
LEMMA MaxIn ==
  ASSUME NEW n \in Nat, NEW s \in SUBSET (1..n), s # {}
  PROVE  Max(s) \in s /\ \A k \in s : k <= Max(s)
<1> DEFINE T == {n - k : k \in s}
<1>1. T # {}  OBVIOUS
<1>0. \A k \in s : n - k \in Nat  OBVIOUS
<1>5. T \subseteq Nat  BY <1>0
<1> HIDE DEF T
<1>2. PICK m \in T : \A k \in T : m <= k  BY <1>1, <1>5, Least
<1>3. PICK x \in s : m = n - x   BY DEF T
<1>4. \A y \in s : x >= y
  <2> TAKE y \in s
  <2>1. n - y \in T BY DEF T
  <2>2. n - x <= n - y BY <1>2, <1>3, <2>1
  <2> QED BY <2>2
<1> QED BY <1>4 DEF Max

(***************************************************************************)
(* Min of a set of indices is the least of them.                           *)
(***************************************************************************)
LEMMA MinIn ==
  ASSUME NEW n \in Nat, NEW s \in SUBSET (1..n), s # {}
  PROVE  Min(s) \in s /\ \A k \in s : Min(s) <= k
<1>1. s \subseteq Nat  OBVIOUS
<1>2. \E x \in s : \A y \in s : x <= y  BY <1>1, Least
<1> QED BY <1>2 DEF Min

(***************************************************************************)
(* The greatest of the first i indices is i.                               *)
(***************************************************************************)
LEMMA MaxOfPrefix ==
  ASSUME NEW n \in Nat, NEW i \in 1..n
  PROVE  Max(1..i) = i
<1>1. i \in 1..i /\ 1..i \in SUBSET (1..n) /\ 1..i # {}  OBVIOUS
<1>2. Max(1..i) \in 1..i /\ i <= Max(1..i)  BY <1>1, MaxIn
<1> QED BY <1>2

\* iter computes what FoldLeft does, over the sets of indices, the greatest of a
\* set last.
Recurs(iter, n, base, op) ==
    iter = [s \in SUBSET (1..n) |->
              IF s = {} THEN base ELSE op[<<iter[s \ {Max(s)}], Max(s)>>]]

(***************************************************************************)
(* FoldLeft's recursion over the sets of indices has a solution, if op     *)
(* keeps what it works on in A. FoldLeft chooses one, so it computes by    *)
(* that recursion.                                                         *)
(***************************************************************************)
LEMMA FoldExists ==
  ASSUME NEW n \in Nat, NEW A, NEW base \in A, NEW op \in [A \X (1..n) -> A]
  PROVE  \E iter \in [SUBSET (1..n) -> A] : Recurs(iter, n, base, op)
<1> DEFINE Solves(k, iter) == 
      iter = [s \in SUBSET (1..k) |->
                      IF s = {} THEN base ELSE op[<<iter[s \ {Max(s)}], Max(s)>>]]
           Solvable(k) == \E iter \in [SUBSET (1..k) -> A] : Solves(k, iter)
           S == {k \in Nat : k <= n => Solvable(k)}
<1>1. 0 \in S
  <2> DEFINE iter == [s \in SUBSET (1..0) |-> base]
  <2>1. iter \in [SUBSET (1..0) -> A]  OBVIOUS
  <2>2. Solves(0, iter)
    <3>1. \A s \in SUBSET (1..0) : s = {}  OBVIOUS
    <3> QED BY <3>1
  <2> QED BY <2>1, <2>2
<1>2. ASSUME NEW k \in S \cap Nat PROVE k + 1 \in S
  <2> SUFFICES ASSUME k + 1 <= n  PROVE  Solvable(k + 1)
    <3> HIDE DEF Solvable
    <3> QED OBVIOUS
  <2>0. Solvable(k)
    <3> HIDE DEF Solvable
    <3> QED OBVIOUS
  <2>1. PICK old \in [SUBSET (1..k) -> A] : Solves(k, old)  BY <2>0
  <2> DEFINE iter == [s \in SUBSET (1..k+1) |->
                        IF k + 1 \in s THEN op[<<old[s \ {k + 1}], k + 1>>] ELSE old[s]]
  <2>2. \A s \in SUBSET (1..k+1) : k + 1 \notin s => s \in SUBSET (1..k)
    OBVIOUS
  <2>3. \A s \in SUBSET (1..k+1) : s \ {k + 1} \in SUBSET (1..k)
    OBVIOUS
  <2>4. k + 1 \in 1..n  OBVIOUS
  <2>5. iter \in [SUBSET (1..k+1) -> A]
    BY <2>2, <2>3, <2>4
  <2>6. ASSUME NEW s \in SUBSET (1..k+1)
        PROVE  iter[s] = IF s = {} THEN base ELSE op[<<iter[s \ {Max(s)}], Max(s)>>]
    <3>1. CASE k + 1 \in s
      <4>0. Max(s) \in s /\ \A j \in s : j <= Max(s)  BY <3>1, MaxIn, k + 1 \in Nat
      <4>3. Max(s) \in 1..k+1 /\ k + 1 <= Max(s)  BY <3>1, <4>0
      <4>1. Max(s) = k + 1  BY <4>3
      <4>2. iter[s \ {k + 1}] = old[s \ {k + 1}]  BY <2>3
      <4> QED BY <3>1, <4>1, <4>2
    <3>2. CASE k + 1 \notin s
      <4>1. s \in SUBSET (1..k) BY <2>2, <3>2
      <4>2. old[s] = IF s = {} THEN base ELSE op[<<old[s \ {Max(s)}], Max(s)>>]
        BY <2>1, <4>1
      <4>3. iter[s] = old[s]  BY <3>2
      <4>4. iter[s \ {Max(s)}] = old[s \ {Max(s)}]  BY <3>2
      <4> QED BY <4>2, <4>3, <4>4
    <3> QED BY <3>1, <3>2
  <2>7. Solves(k + 1, iter) 
    <3> DEFINE F == [s \in SUBSET (1..k+1) |->
                      IF s = {} THEN base ELSE op[<<iter[s \ {Max(s)}], Max(s)>>]]
    <3>1. \A s \in SUBSET (1..k+1) : iter[s] = F[s]  BY <2>6
    <3>2. DOMAIN iter = DOMAIN F OBVIOUS
    <3>3. iter = [s \in SUBSET (1..k+1) |-> iter[s]] OBVIOUS
    <3>4. F = [s \in SUBSET (1..k+1) |-> F[s]] OBVIOUS
    <3> HIDE DEF iter
    <3> QED BY <3>1, <3>3
  <2> QED BY <2>5, <2>7
<1> HIDE DEF S
<1>3. n \in S  BY <1>1, <1>2, Induction
<1>4. Solvable(n)
  <2> HIDE DEF Solvable
  <2> QED BY <1>3 DEF S
<1> QED BY <1>4 DEF Recurs

-----------------------------------------------------------------------------
(* Profiles.                                                               *)

\* One turn of Resolve's loop.
Applied(effective, profile, context) ==
    IF Matches(profile.match, context) THEN Override(effective, profile) ELSE effective

\* What Resolve starts from.
Base0(config) ==
    [mode |-> config.mode, template |-> config.template, maxWidth |-> config.maxWidth,
     profileName |-> "default"]

(***************************************************************************)
(* Resolve applies the profiles one at a time, from the first to the last: *)
(* f[i] is what the first i of them make of the defaults.                  *)
(***************************************************************************)
LEMMA ResolveUnfolds ==
  ASSUME NEW config, config.profiles \in Seq(ToSet(config.profiles)), NEW context
  PROVE  \E f : /\ f[0] = Base0(config)
                /\ \A i \in 1..Len(config.profiles) :
                      f[i] = Applied(f[i - 1], config.profiles[i], context)
                /\ Resolve(config, context) = f[Len(config.profiles)]
<1> DEFINE profiles == config.profiles
           n == Len(profiles)
           M == {config.mode} \cup {profiles[i].mode : i \in 1..n}
           T == {config.template} \cup {profiles[i].template : i \in 1..n}
           W == {config.maxWidth} \cup {profiles[i].maxWidth : i \in 1..n}
           N == {"default"} \cup {profiles[i].name : i \in 1..n}
           A == [mode : M, template : T, maxWidth : W, profileName : N]
           op == [p \in A \X (1..n) |-> Applied(p[1], profiles[p[2]], context)]
           Folds(iter) == iter = [s \in SUBSET (1..n) |->
                             IF s = {} THEN Base0(config)
                             ELSE Applied(iter[s \ {Max(s)}], profiles[Max(s)], context)]
           iter == CHOOSE iter : Folds(iter)
<1>1. n \in Nat /\ DOMAIN profiles = 1..n
  OBVIOUS
<1>2. Base0(config) \in A
  BY DEF Base0
<1>3. ASSUME NEW a \in A, NEW i \in 1..n
      PROVE  Applied(a, profiles[i], context) \in A
  <2>1. /\ a.mode \in M /\ a.template \in T /\ a.maxWidth \in W /\ a.profileName \in N
        /\ profiles[i].mode \in M /\ profiles[i].template \in T
        /\ profiles[i].maxWidth \in W /\ profiles[i].name \in N
    OBVIOUS
  <2> HIDE DEF M, T, W, N
  <2> QED BY <2>1 DEF Applied, Override, Coalesce
<1>4. op \in [A \X (1..n) -> A]
  <2> HIDE DEF A
  <2> QED BY <1>3
<1>5. PICK it \in [SUBSET (1..n) -> A] : Recurs(it, n, Base0(config), op)
  <2> HIDE DEF n, op, A
  <2> QED BY <1>1, <1>2, <1>4, FoldExists
<1>6. ASSUME NEW s \in SUBSET (1..n), s # {}
      PROVE  op[<<it[s \ {Max(s)}], Max(s)>>]
                = Applied(it[s \ {Max(s)}], profiles[Max(s)], context)
  <2>1. Max(s) \in 1..n  BY <1>1, <1>6, MaxIn
  <2>2. it[s \ {Max(s)}] \in A  BY <1>5
  <2> HIDE DEF A
  <2> QED BY <2>1, <2>2
<1>7. Folds(it)
  <2> HIDE DEF op
  <2> QED BY <1>5, <1>6 DEF Recurs
<1>8. Folds(iter)
  <2> HIDE DEF Folds
  <2> QED BY <1>7
<1>9. Resolve(config, context) = iter[1..n]
  BY <1>1 DEF Resolve, FoldLeft, MapThenFoldSet, Applied, Base0
<1> HIDE DEF iter, op, A
<1> DEFINE f == [i \in 0..n |-> iter[1..i]]
<1>10. f[0] = Base0(config)
  <2>1. 1..0 = {} /\ {} \in SUBSET (1..n) /\ 0 \in 0..n  BY <1>1
  <2> QED BY <1>8, <2>1
<1>11. ASSUME NEW i \in 1..n  PROVE  f[i] = Applied(f[i - 1], profiles[i], context)
  <2>1. Max(1..i) = i  BY <1>1, MaxOfPrefix
  <2>2. (1..i) \ {i} = 1..i-1 /\ 1..i \in SUBSET (1..n) /\ 1..i # {}
    <3>1. \A k \in 1..i : k \in 1..n  BY <1>1
    <3>2. i \in 1..i  BY <1>1
    <3>3. (1..i) \ {i} = 1..i-1  BY <1>1
    <3> QED BY <3>1, <3>2, <3>3
  <2>3. iter[1..i] = Applied(iter[1..i-1], profiles[i], context)  BY <1>8, <2>1, <2>2
  <2>4. i \in 0..n /\ i - 1 \in 0..n  BY <1>1
  <2> QED BY <2>3, <2>4
<1>12. f[n] = iter[1..n]  BY <1>1
<1> HIDE DEF f
<1> QED BY <1>9, <1>10, <1>11, <1>12

\* Profile i sets any of the settings.
Sets(config, settings, i) == \E x \in settings : config.profiles[i][x] # Nothing

\* Those of the matched profiles that are among the first k.
Among(matched, k) == matched \cap 1..k

(***************************************************************************)
(* Of the first k profiles, the last that matched and sets a setting is    *)
(* the k-th, or the last among those before it.                            *)
(***************************************************************************)
LEMMA LastSetterStep ==
  ASSUME NEW config, NEW settings, NEW n \in Nat, NEW k \in 1..n,
         NEW matched, matched \in SUBSET (1..n)
  PROVE  LastToSet(config, settings, Among(matched, k))
            = IF k \in matched /\ Sets(config, settings, k) THEN k
              ELSE LastToSet(config, settings, Among(matched, k - 1))
<1> DEFINE now == {i \in matched \cap 1..k : Sets(config, settings, i)}
           before == {i \in matched \cap 1..k - 1 : Sets(config, settings, i)}
<1>1. CASE k \in matched /\ Sets(config, settings, k)
  <2>1. k \in now /\ now \in SUBSET (1..n) /\ \A i \in now : i <= k  BY <1>1
  <2> HIDE DEF now
  <2>2. Max(now) \in now /\ k <= Max(now)  BY <2>1, MaxIn
  <2>4. Max(now) \in 1..n  BY <2>1, <2>2
  <2>3. Max(now) = k /\ now # {}  BY <2>1, <2>2, <2>4
  <2> QED BY <1>1, <2>3 DEF LastToSet, Among, now, Sets
<1>2. CASE ~(k \in matched /\ Sets(config, settings, k))
  <2>1. now = before  BY <1>2
  <2> HIDE DEF now, before
  <2> QED BY <1>2, <2>1 DEF LastToSet, Among, now, before, Sets
<1> QED BY <1>1, <1>2

(***************************************************************************)
(* Applying the matching profiles in turn gives every setting the value of *)
(* the last of them that sets it: Resolve, which overwrites as it goes,    *)
(* and AsDeclared, which looks for the last, agree for every file and      *)
(* context.                                                                *)
(***************************************************************************)
LEMMA ResolvesInOrder ==
  ASSUME NEW config, config.profiles \in Seq(ToSet(config.profiles)), NEW context
  PROVE  Resolve(config, context) = AsDeclared(config, context)
<1> DEFINE profiles == config.profiles
           n == Len(profiles)
           matched == MatchedBy(config, context)
           LastOf(settings, k) == LastToSet(config, settings, Among(matched, k))
           Setting(x, k) == IF LastOf({x}, k) = 0 THEN config[x]
                            ELSE profiles[LastOf({x}, k)][x]
           Name(k) == IF LastOf({"mode", "template", "maxWidth"}, k) = 0 THEN "default"
                      ELSE profiles[LastOf({"mode", "template", "maxWidth"}, k)].name
           UpTo(k) == [mode |-> Setting("mode", k), template |-> Setting("template", k),
                       maxWidth |-> Setting("maxWidth", k), profileName |-> Name(k)]
<1>1. PICK f : /\ f[0] = Base0(config)
               /\ \A i \in 1..n : f[i] = Applied(f[i - 1], profiles[i], context)
               /\ Resolve(config, context) = f[n]
  BY ResolveUnfolds
<1>2. n \in Nat /\ matched \subseteq 1..n
  BY DEF MatchedBy
<1>3. \A k \in 1..n : k \in matched <=> Matches(profiles[k].match, context)
  <2> TAKE k \in 1..n
  <2>1. k \in matched <=>
           \A c \in Categories :
              profiles[k].match[c] # {} => Subject(context)[c] \in UNION profiles[k].match[c]
    <3>1. DOMAIN profiles = 1..n  OBVIOUS
    <3> QED BY <3>1 DEF MatchedBy
  <2>2. \A c \in Categories :
           (profiles[k].match[c] # {} => Subject(context)[c] \in UNION profiles[k].match[c])
             <=> OneMatches(profiles[k].match[c], Subject(context)[c])
    BY DEF OneMatches
  <2> HIDE DEF matched
  <2> QED BY <2>1, <2>2 DEF Matches
<1> HIDE DEF matched, n
<1>4. \A settings : LastOf(settings, 0) = 0
  <2>1. Among(matched, 0) = {}  BY DEF Among
  <2> QED BY <2>1 DEF LastToSet
<1>5. \A settings : \A k \in 1..n :
         LastOf(settings, k) = IF k \in matched /\ Sets(config, settings, k) THEN k
                               ELSE LastOf(settings, k - 1)
  <2>1. matched \in SUBSET (1..n)  BY <1>2
  <2> QED BY <1>2, <2>1, LastSetterStep
<1> HIDE DEF LastOf
<1>6. ASSUME NEW k \in 1..n  PROVE  UpTo(k) = Applied(UpTo(k - 1), profiles[k], context)
  <2>1. k # 0  OBVIOUS
  <2>2. CASE k \in matched
    <3>1. \A x : Setting(x, k) = Coalesce(profiles[k][x], Setting(x, k - 1))
      BY <1>5, <2>1, <2>2 DEF Coalesce, Sets
    <3>2. Name(k) = IF \E x \in {"mode", "template", "maxWidth"} : profiles[k][x] # Nothing
                    THEN profiles[k].name ELSE Name(k - 1)
      BY <1>5, <2>1, <2>2 DEF Sets
    <3> HIDE DEF Setting, Name
    <3> QED BY <1>3, <2>2, <3>1, <3>2 DEF Applied, Override
  <2>3. CASE k \notin matched
    <3>1. \A settings : LastOf(settings, k) = LastOf(settings, k - 1)  BY <1>5, <2>3
    <3>2. UpTo(k) = UpTo(k - 1)  BY <3>1
    <3> HIDE DEF UpTo
    <3> QED BY <1>3, <2>3, <3>2 DEF Applied
  <2> QED BY <2>2, <2>3
<1> DEFINE S == {k \in Nat : k <= n => f[k] = UpTo(k)}
<1>7. 0 \in S
  <2>1. UpTo(0) = Base0(config)  BY <1>4 DEF Base0
  <2> HIDE DEF UpTo
  <2> QED BY <1>1, <2>1
<1>8. ASSUME NEW k \in S \cap Nat  PROVE  k + 1 \in S
  <2> HIDE DEF UpTo
  <2> SUFFICES ASSUME k + 1 <= n  PROVE  f[k + 1] = UpTo(k + 1)  OBVIOUS
  <2>1. k + 1 \in 1..n /\ (k + 1) - 1 = k /\ f[k] = UpTo(k)  BY <1>2
  <2> QED BY <1>1, <1>6, <2>1
<1>9. n \in S
  <2> HIDE DEF S
  <2> QED BY <1>2, <1>7, <1>8, Induction
<1>10. f[n] = UpTo(n)
  <2> HIDE DEF UpTo
  <2> QED BY <1>2, <1>9
<1>11. Among(matched, n) = matched  BY <1>2 DEF Among
<1>12. UpTo(n) = AsDeclared(config, context)
  BY <1>11 DEF AsDeclared, LastOf, matched
<1> QED BY <1>1, <1>10, <1>12

(***************************************************************************)
(* What LastToSet finds matched, and sets one of the settings.             *)
(***************************************************************************)
LEMMA LastIsSetter ==
  ASSUME NEW config, NEW settings, NEW n \in Nat, NEW matched, matched \in SUBSET (1..n),
         LastToSet(config, settings, matched) # 0
  PROVE  /\ LastToSet(config, settings, matched) \in matched
         /\ Sets(config, settings, LastToSet(config, settings, matched))
<1> DEFINE setters == {i \in matched : Sets(config, settings, i)}
<1>1. setters # {} /\ LastToSet(config, settings, matched) = Max(setters)
  BY DEF LastToSet, Sets
<1>2. setters \in SUBSET (1..n)  OBVIOUS
<1> HIDE DEF setters
<1>3. Max(setters) \in setters  BY <1>1, <1>2, MaxIn
<1> QED BY <1>1, <1>3 DEF setters

(***************************************************************************)
(* A file that validation accepts gives every tab a valid mode and a valid *)
(* width, whichever profiles match.                                        *)
(***************************************************************************)
LEMMA DeclaredIsValid ==
  ASSUME NEW source \in Sources, Accepted(source), NEW context
  PROVE  /\ AsDeclared(Compile(source), context).mode \in Modes
         /\ AsDeclared(Compile(source), context).maxWidth \in 0..1024
<1> DEFINE config == Compile(source)
           n == Len(source.profiles)
           matched == MatchedBy(config, context)
           Final(x) == LastToSet(config, {x}, matched)
           Setting(x) == IF Final(x) = 0 THEN config[x] ELSE config.profiles[Final(x)][x]
<1>1. n \in Nat /\ DOMAIN source.profiles = 1..n
  BY SourcesAssumption
<1>2. config.profiles = source.profiles  BY DEF Compile
<1>3. matched \in SUBSET (1..n)  BY <1>1, <1>2 DEF MatchedBy
<1>4. ASSUME NEW x, Final(x) # 0
      PROVE  Final(x) \in 1..n /\ source.profiles[Final(x)][x] # Nothing
  <2> HIDE DEF matched, config, n
  <2>1. Final(x) \in matched /\ Sets(config, {x}, Final(x))
    BY <1>1, <1>3, <1>4, LastIsSetter
  <2> HIDE DEF Final
  <2> QED BY <1>2, <1>3, <2>1 DEF Sets
<1>5. Setting("mode") \in Modes
  <2>1. CASE Final("mode") = 0
    BY <2>1 DEF Accepted, ValidMode, Compile
  <2>2. CASE Final("mode") # 0
    <3>1. Final("mode") \in 1..n /\ source.profiles[Final("mode")].mode # Nothing
      BY <1>4, <2>2
    <3> HIDE DEF Final, n, config
    <3>2. source.profiles[Final("mode")].mode \in Modes
      BY <1>1, <3>1 DEF Accepted, ValidProfile, ValidMode
    <3> QED BY <1>2, <2>2, <3>2
  <2> QED BY <2>1, <2>2
<1>6. Setting("maxWidth") \in 0..1024
  <2>1. CASE Final("maxWidth") = 0
    BY <2>1 DEF Accepted, ValidWidth, Compile
  <2>2. CASE Final("maxWidth") # 0
    <3>1. Final("maxWidth") \in 1..n /\ source.profiles[Final("maxWidth")].maxWidth # Nothing
      BY <1>4, <2>2
    <3> HIDE DEF Final, n, config
    <3>2. ValidWidth(source.profiles[Final("maxWidth")].maxWidth)
      BY <1>1, <3>1 DEF Accepted, ValidProfile
    <3> QED BY <1>2, <2>2, <3>2 DEF ValidWidth
  <2> QED BY <2>1, <2>2
<1> HIDE DEF config
<1>7. /\ AsDeclared(config, context).mode = Setting("mode")
      /\ AsDeclared(config, context).maxWidth = Setting("maxWidth")
  BY DEF AsDeclared
<1> HIDE DEF Setting
<1>8. /\ AsDeclared(config, context).mode \in Modes
      /\ AsDeclared(config, context).maxWidth \in 0..1024
  BY <1>5, <1>6, <1>7
<1> QED BY <1>8 DEF config

\* The configuration in force is that of an accepted file.
CompiledOK == \E source \in Sources : Accepted(source) /\ compiled = Compile(source)

(***************************************************************************)
(* No step changes the configuration in force.                             *)
(***************************************************************************)
LEMMA CompiledStays ==
  ASSUME [Next]_vars
  PROVE  compiled' = compiled
<1>1. CASE Herdr
  BY <1>1 DEF Herdr, MoveTab, OpenTab, CloseTab, UserRename, MovePane, FocusPane, IdentifyAgent,
              RunProcess, Change, Edit
<1>2. CASE BeginAuto \/ BeginAction
  BY <1>2 DEF BeginAuto, BeginAction, Begin
<1>3. CASE TakeSnapshot
  BY <1>3 DEF TakeSnapshot
<1>4. CASE PassOver \/ ProcessInfoFails \/ LeaveLabel \/ RenameTab \/ RenameRefused
  BY <1>4 DEF PassOver, ProcessInfoFails, LeaveLabel, RenameTab, RenameRefused, Reach
<1>5. CASE Commit \/ TargetMissing
  BY <1>5 DEF Commit, TargetMissing, EndPass
<1>6. CASE UNCHANGED vars
  BY <1>6 DEF vars
<1> QED BY <1>1, <1>2, <1>3, <1>4, <1>5, <1>6 DEF Next

(***************************************************************************)
(* The configuration in force is always that of an accepted file.          *)
(***************************************************************************)
LEMMA CompiledInvariant == Spec => []CompiledOK
<1>1. Init => CompiledOK  BY DEF Init, CompiledOK
<1>2. CompiledOK /\ [Next]_vars => CompiledOK'
  BY CompiledStays DEF CompiledOK
<1> QED BY <1>1, <1>2, PTL DEF Spec

(***************************************************************************)
(* For the configuration in force, Resolve is as declared.                 *)
(***************************************************************************)
LEMMA CompiledResolves ==
  ASSUME CompiledOK, NEW context
  PROVE  Resolve(compiled, context) = AsDeclared(compiled, context)
<1>1. PICK source \in Sources : compiled = Compile(source)  BY DEF CompiledOK
<1>2. compiled.profiles \in Seq(ToSet(compiled.profiles))
  BY <1>1, SourcesAssumption DEF Compile
<1> QED BY <1>2, ResolvesInOrder

(***************************************************************************)
(* For every accepted file, with any number of profiles, each tab a pass   *)
(* comes to gets each of its settings from the last profile that matches   *)
(* it and sets it, and its settings are valid, whatever runs in it.        *)
(***************************************************************************)
THEOREM ProfilesApplyInOrder == Spec => []ResolvesAsDeclared
<1>1. CompiledOK => ResolvesAsDeclared
  <2>1. ASSUME CompiledOK, NEW context
        PROVE  /\ Resolve(compiled, context) = AsDeclared(compiled, context)
               /\ AsDeclared(compiled, context).mode \in Modes
               /\ AsDeclared(compiled, context).maxWidth \in 0..1024
    BY <2>1, CompiledResolves, DeclaredIsValid DEF CompiledOK
  <2>2. ASSUME CompiledOK, NEW info \in Infos
        PROVE  LET context   == AttachProcess(Reached, info)
                   effective == Resolve(compiled, context)
               IN  /\ effective = AsDeclared(compiled, context)
                   /\ effective.mode \in Modes
                   /\ effective.maxWidth \in 0..1024
    <3> DEFINE context == AttachProcess(Reached, info)
    <3>1. /\ Resolve(compiled, context) = AsDeclared(compiled, context)
          /\ AsDeclared(compiled, context).mode \in Modes
          /\ AsDeclared(compiled, context).maxWidth \in 0..1024
      <4> HIDE DEF context
      <4> QED BY <2>1, <2>2
    <3> QED BY <3>1
  <2> QED BY <2>2 DEF ResolvesAsDeclared
<1> QED BY <1>1, CompiledInvariant, PTL

-----------------------------------------------------------------------------
(* Contexts.                                                               *)

\* The position of tab i among the tabs of its workspace.
Position(tabs, i, w) == Cardinality({j \in 1..i : tabs[j].workspace = w})

(***************************************************************************)
(* Positions count up by one at each tab of the workspace.                 *)
(***************************************************************************)
LEMMA PositionStep ==
  ASSUME NEW tabs, NEW n \in Nat, NEW i \in 1..n, NEW w
  PROVE  /\ Position(tabs, 0, w) = 0
         /\ Position(tabs, i, w) \in Nat
         /\ Position(tabs, i, w) = IF tabs[i].workspace = w THEN Position(tabs, i - 1, w) + 1
                                   ELSE Position(tabs, i - 1, w)
<1> DEFINE Of(k) == {j \in 1..k : tabs[j].workspace = w}
<1>1. ASSUME NEW k \in Nat  PROVE  IsFiniteSet(Of(k)) /\ Cardinality(Of(k)) \in Nat
  <2>1. IsFiniteSet(1..k)  BY FS_Interval
  <2> QED BY <2>1, FS_Subset, FS_CardinalityType
<1>2. Of(0) = {}  OBVIOUS
<1>3. CASE tabs[i].workspace = w
  <2>1. Of(i) = Of(i - 1) \cup {i}  BY <1>3
  <2>2. i \notin Of(i - 1) /\ i - 1 \in Nat /\ i \in Nat  OBVIOUS
  <2> HIDE DEF Of
  <2>3. Cardinality(Of(i)) = Cardinality(Of(i - 1)) + 1
    BY <1>1, <2>1, <2>2, FS_AddElement
  <2>4. Cardinality({}) = 0 BY FS_EmptySet
  <2> QED BY <1>1, <1>2, <1>3, <2>2, <2>3, <2>4 DEF Position, Of
<1>4. CASE tabs[i].workspace # w
  <2>1. Of(i) = Of(i - 1)  BY <1>4
  <2>2. i \in Nat  OBVIOUS
  <2> HIDE DEF Of
  <2>4. Cardinality({}) = 0 BY FS_EmptySet
  <2> QED BY <1>1, <1>2, <1>4, <2>1, <2>2, <2>4 DEF Position, Of
<1> QED BY <1>3, <1>4

\* One turn of Build's loop.
Extended(snapshot, hists, built, raw) ==
    [positions |-> [built.positions EXCEPT
                       ![raw.workspace] = NextNumber(built.positions, raw.workspace)],
     contexts  |-> Append(built.contexts,
                          Context(snapshot, hists, raw,
                                  NextNumber(built.positions, raw.workspace)))]

\* The tabs' workspaces.
Workspaces(tabs) == {raw.workspace : raw \in ToSet(tabs)}

\* The contexts that Build may make of the tabs.
Contexts(snapshot, hists) ==
    {Context(snapshot, hists, raw, k) : raw \in ToSet(snapshot.tabs), k \in Nat}

\* What Build may have built after some of the tabs.
Built(snapshot, hists) ==
    [positions : [Workspaces(snapshot.tabs) -> Nat], contexts : Seq(Contexts(snapshot, hists))]

\* What Build starts from.
NothingBuilt(tabs) == [positions |-> [w \in Workspaces(tabs) |-> 0], contexts |-> <<>>]

(***************************************************************************)
(* Build goes through the tabs in order: f[i] is what it has built from    *)
(* the first i of them, the number every workspace has reached and the     *)
(* contexts so far.                                                        *)
(***************************************************************************)
LEMMA BuildUnfolds ==
  ASSUME NEW snapshot, snapshot.tabs \in Seq(ToSet(snapshot.tabs)), NEW hists
  PROVE  \E f : /\ f[0] = NothingBuilt(snapshot.tabs)
                /\ \A i \in 0..Len(snapshot.tabs) : f[i] \in Built(snapshot, hists)
                /\ \A i \in 1..Len(snapshot.tabs) :
                      f[i] = Extended(snapshot, hists, f[i - 1], snapshot.tabs[i])
                /\ Build(snapshot, hists) = f[Len(snapshot.tabs)].contexts
<1> DEFINE tabs == snapshot.tabs
           n == Len(tabs)
           workspaces == Workspaces(tabs)
           C == Contexts(snapshot, hists)
           A == Built(snapshot, hists)
           base == NothingBuilt(tabs)
           op == [p \in A \X (1..n) |-> Extended(snapshot, hists, p[1], tabs[p[2]])]
           Folds(iter) == iter = [s \in SUBSET (1..n) |->
                             IF s = {} THEN base
                             ELSE Extended(snapshot, hists, iter[s \ {Max(s)}], tabs[Max(s)])]
           iter == CHOOSE iter : Folds(iter)
<1>1. n \in Nat /\ DOMAIN tabs = 1..n
  OBVIOUS
<1>0. ASSUME NEW i \in 1..n  PROVE  tabs[i] \in ToSet(tabs) /\ tabs[i].workspace \in workspaces
  BY <1>1 DEF ToSet, Workspaces
<1>2. base \in A
  BY DEF NothingBuilt, Built
<1>3. ASSUME NEW a \in A, NEW i \in 1..n
      PROVE  Extended(snapshot, hists, a, tabs[i]) \in A
  <2> DEFINE w == tabs[i].workspace
             number == NextNumber(a.positions, w)
  <2>1. a.positions \in [workspaces -> Nat] /\ a.contexts \in Seq(C)
    BY DEF Built
  <2>0. w \in workspaces  BY <1>0
  <2> HIDE DEF w
  <2>2. number \in Nat
    BY <2>0, <2>1 DEF NextNumber
  <2> HIDE DEF number
  <2>3. Context(snapshot, hists, tabs[i], number) \in C
    BY <1>0, <2>2 DEF Contexts
  <2>4. [a.positions EXCEPT ![w] = number] \in [workspaces -> Nat]
    BY <2>0, <2>1, <2>2
  <2>5. Append(a.contexts, Context(snapshot, hists, tabs[i], number)) \in Seq(C)
    BY <2>1, <2>3
  <2>6. [positions |-> [a.positions EXCEPT ![w] = number],
         contexts  |-> Append(a.contexts, Context(snapshot, hists, tabs[i], number))] \in A
    BY <2>4, <2>5 DEF Built
  <2> QED BY <2>6 DEF Extended, w, number
<1>4. op \in [A \X (1..n) -> A]
  <2> HIDE DEF A
  <2> QED BY <1>3
<1>5. PICK it \in [SUBSET (1..n) -> A] : Recurs(it, n, base, op)
  <2> HIDE DEF n, op, A, base
  <2> QED BY <1>1, <1>2, <1>4, FoldExists
<1>6. ASSUME NEW s \in SUBSET (1..n), s # {}
      PROVE  op[<<it[s \ {Max(s)}], Max(s)>>]
                = Extended(snapshot, hists, it[s \ {Max(s)}], tabs[Max(s)])
  <2>1. Max(s) \in 1..n  BY <1>1, <1>6, MaxIn
  <2>2. it[s \ {Max(s)}] \in A  BY <1>5
  <2> HIDE DEF A
  <2> QED BY <2>1, <2>2
<1>7. Folds(it)
  <2> HIDE DEF op
  <2> QED BY <1>5, <1>6 DEF Recurs
<1>8. Folds(iter)
  <2> HIDE DEF Folds
  <2> QED BY <1>7
<1>9. Build(snapshot, hists) = iter[1..n].contexts
  BY <1>1 DEF Build, FoldLeft, MapThenFoldSet, Extended, NothingBuilt, Workspaces
<1> HIDE DEF iter, op, n, A, base
<1>10. ASSUME NEW i \in 1..n
       PROVE iter[1..i] = Extended(snapshot, hists, iter[1..i-1], tabs[i])
  <2>1. Max(1..i) = i  BY <1>1, MaxOfPrefix
  <2>2. (1..i) \ {i} = 1..i-1 /\ 1..i \in SUBSET (1..n) /\ 1..i # {}
    <3>1. \A k \in 1..i : k \in 1..n  BY <1>1
    <3>2. i \in 1..i  BY <1>1
    <3>3. (1..i) \ {i} = 1..i-1  BY <1>1
    <3> QED BY <3>1, <3>2, <3>3
  <2> HIDE DEF base
  <2> QED BY <1>8, <2>1, <2>2
<1>11. iter[1..0] = base
  <2>1. 1..0 = {} /\ {} \in SUBSET (1..n)  BY <1>1
  <2> HIDE DEF base
  <2> QED BY <1>8, <2>1
<1> DEFINE f == [i \in 0..n |-> iter[1..i]]
<1>12. f[0] = base
  <2>1. 0 \in 0..n  BY <1>1
  <2> HIDE DEF base
  <2> QED BY <1>11, <2>1
<1>13. ASSUME NEW i \in 1..n
       PROVE  f[i] = Extended(snapshot, hists, f[i - 1], tabs[i])
  <2>1. i \in 0..n /\ i - 1 \in 0..n  BY <1>1
  <2> QED BY <1>10, <2>1
<1>14. f[n] = iter[1..n]  BY <1>1
<1> HIDE DEF f, Folds
<1> DEFINE S == {k \in Nat : k <= n => f[k] \in A}
<1>15. \A i \in 0..n : f[i] \in A
  <2> HIDE DEF A, base
  <2>1. 0 \in S  BY <1>2, <1>12
  <2>2. ASSUME NEW k \in S \cap Nat  PROVE  k + 1 \in S
    <3> SUFFICES ASSUME k + 1 <= n  PROVE  f[k + 1] \in A  OBVIOUS
    <3>1. k + 1 \in 1..n /\ (k + 1) - 1 = k /\ f[k] \in A  BY <1>1
    <3> QED BY <1>3, <1>13, <3>1
  <2> HIDE DEF S
  <2>3. Nat \subseteq S  BY <2>1, <2>2, Induction
  <2> QED BY <1>1, <2>3 DEF S
<1> QED BY <1>9, <1>12, <1>13, <1>14, <1>15 DEF A, base, n

(***************************************************************************)
(* Build makes one context of each tab, in their order, and the number in  *)
(* it is the tab's position in its own workspace, however the workspaces   *)
(* are interleaved.                                                        *)
(***************************************************************************)
LEMMA BuildsContexts ==
  ASSUME NEW snapshot, snapshot.tabs \in Seq(ToSet(snapshot.tabs)), NEW hists
  PROVE  LET built == Build(snapshot, hists)
             tabs  == snapshot.tabs
         IN  /\ built \in Seq(ToSet(built))
             /\ Len(built) = Len(tabs)
             /\ \A i \in 1..Len(tabs) :
                   built[i] = Context(snapshot, hists, tabs[i],
                                      Position(tabs, i, tabs[i].workspace))
<1> DEFINE tabs == snapshot.tabs
           n == Len(tabs)
           workspaces == Workspaces(tabs)
           C == Contexts(snapshot, hists)
           built == Build(snapshot, hists)
           Told(i) == Context(snapshot, hists, tabs[i], Position(tabs, i, tabs[i].workspace))
<1>1. PICK f : /\ f[0] = NothingBuilt(tabs)
               /\ \A i \in 0..n : f[i] \in Built(snapshot, hists)
               /\ \A i \in 1..n : f[i] = Extended(snapshot, hists, f[i - 1], tabs[i])
               /\ built = f[n].contexts
  BY BuildUnfolds
<1>2. n \in Nat /\ \A i \in 1..n : tabs[i].workspace \in workspaces
  <2>1. n \in Nat /\ DOMAIN tabs = 1..n  OBVIOUS
  <2> HIDE DEF n
  <2> QED BY <2>1 DEF ToSet, Workspaces
<1> HIDE DEF n, workspaces, C, Told
<1>3. \A i \in 0..n : f[i].positions \in [workspaces -> Nat] /\ f[i].contexts \in Seq(C)
  BY <1>1 DEF Built, workspaces, C
<1>4. ASSUME NEW i \in 1..n
      PROVE  /\ f[i].positions = [f[i - 1].positions EXCEPT
                                    ![tabs[i].workspace] = f[i - 1].positions[tabs[i].workspace] + 1]
             /\ f[i].contexts = Append(f[i - 1].contexts,
                                       Context(snapshot, hists, tabs[i],
                                               f[i - 1].positions[tabs[i].workspace] + 1))
  <2>1. f[i] = Extended(snapshot, hists, f[i - 1], tabs[i])  BY <1>1
  <2> HIDE DEF tabs
  <2> QED BY <2>1 DEF Extended, NextNumber
<1> DEFINE Right(k) == /\ \A w \in workspaces : f[k].positions[w] = Position(tabs, k, w)
                       /\ Len(f[k].contexts) = k
                       /\ \A i \in 1..k : f[k].contexts[i] = Told(i)
           S == {k \in Nat : k <= n => Right(k)}
<1>5. 0 \in S
  <2>1. \A w : Position(tabs, 0, w) = 0
    <3>1. \A w : {j \in 1..0 : tabs[j].workspace = w} = {}  OBVIOUS
    <3> QED BY <3>1, FS_EmptySet DEF Position
  <2>2. /\ f[0].positions = [w \in workspaces |-> 0] /\ f[0].contexts = <<>>
    BY <1>1 DEF NothingBuilt, workspaces
  <2> QED BY <2>1, <2>2
<1>6. ASSUME NEW k \in S \cap Nat  PROVE  k + 1 \in S
  <2> SUFFICES ASSUME k + 1 <= n  PROVE  Right(k + 1)
    <3> HIDE DEF Right
    <3> QED OBVIOUS
  <2> DEFINE i == k + 1
  <2>1. i \in 1..n /\ i - 1 = k /\ k \in 0..n /\ Right(k)
    <3> HIDE DEF Right
    <3> QED BY <1>2
  <2> HIDE DEF i
  <2>2. f[k].positions \in [workspaces -> Nat] /\ f[k].contexts \in Seq(C)
    BY <1>3, <2>1
  <2>3. /\ f[i].positions = [f[k].positions EXCEPT
                               ![tabs[i].workspace] = f[k].positions[tabs[i].workspace] + 1]
        /\ f[i].contexts = Append(f[k].contexts,
                                  Context(snapshot, hists, tabs[i],
                                          f[k].positions[tabs[i].workspace] + 1))
    BY <1>4, <2>1
  <2>4. ASSUME NEW w \in workspaces
        PROVE  f[i].positions[w] = Position(tabs, i, w)
    <3>1. Position(tabs, i, w) = IF tabs[i].workspace = w THEN Position(tabs, k, w) + 1
                                 ELSE Position(tabs, k, w)
      BY <1>2, <2>1, PositionStep
    <3>2. f[k].positions[w] = Position(tabs, k, w)  BY <2>1
    <3> QED BY <1>2, <2>1, <2>2, <2>3, <3>1, <3>2
  <2>5. tabs[i].workspace \in workspaces  BY <1>2, <2>1
  <2>6. f[k].positions[tabs[i].workspace] + 1 = Position(tabs, i, tabs[i].workspace)
    <3>1. Position(tabs, i, tabs[i].workspace) = Position(tabs, k, tabs[i].workspace) + 1
      BY <1>2, <2>1, PositionStep
    <3> QED BY <2>1, <2>5, <3>1
  <2>7. f[i].contexts = Append(f[k].contexts, Told(i))
    BY <2>3, <2>6 DEF Told
  <2>8. Len(f[k].contexts) = k /\ \A j \in 1..k : f[k].contexts[j] = Told(j)
    BY <2>1
  <2>9. Len(f[i].contexts) = i
    BY <2>1, <2>2, <2>7, <2>8
  <2>10. \A j \in 1..i : f[i].contexts[j] = Told(j)
    <3> TAKE j \in 1..i
    <3>1. CASE j = i  BY <2>1, <2>2, <2>7, <2>8, <3>1
    <3>2. CASE j # i
      <4>1. j \in 1..k  BY <2>1, <3>2
      <4> QED BY <2>2, <2>7, <2>8, <4>1
    <3> QED BY <3>1, <3>2
  <2> QED BY <2>4, <2>9, <2>10 DEF i
<1>7. Right(n)
  <2> HIDE DEF S
  <2>1. n \in S  BY <1>2, <1>5, <1>6, Induction
  <2> HIDE DEF Right
  <2> QED BY <1>2, <2>1 DEF S
<1>8. built \in Seq(C) /\ Len(built) = n /\ \A i \in 1..n : built[i] = Told(i)
  <2>1. n \in 0..n  BY <1>2
  <2> QED BY <1>1, <1>3, <1>7, <2>1
<1>9. built \in Seq(ToSet(built))
  <2>1. DOMAIN built = 1..n  BY <1>8
  <2>2. built = [i \in 1..n |-> built[i]]  BY <1>8
  <2> HIDE DEF built
  <2>3. \A i \in 1..n : built[i] \in ToSet(built)  BY <2>1 DEF ToSet
  <2> QED BY <1>2, <2>2, <2>3
<1> QED BY <1>8, <1>9 DEF Told, n

-----------------------------------------------------------------------------
(* Panes.                                                                  *)

(***************************************************************************)
(* The rank of a pane: 0 if its layout focuses it, then its first place    *)
(* among the marked panes, then its place in the snapshot.                 *)
(***************************************************************************)
LEMMA RankIs ==
  ASSUME NEW layout, layout.marked \in Seq(ToSet(layout.marked)), NEW pane, NEW i \in Nat
  PROVE  /\ pane.id = layout.focused => Rank(pane, layout, i) = 0
         /\ pane.id # layout.focused /\ pane.id \in ToSet(layout.marked) =>
               /\ Rank(pane, layout, i) \in 1..Len(layout.marked)
               /\ layout.marked[Rank(pane, layout, i)] = pane.id
               /\ \A j \in 1..Rank(pane, layout, i) - 1 : layout.marked[j] # pane.id
         /\ pane.id # layout.focused /\ pane.id \notin ToSet(layout.marked) =>
               Rank(pane, layout, i) = Len(layout.marked) + i
<1> DEFINE n == Len(layout.marked)
           Marked(k) == layout.marked[k] = pane.id
           First(k) == Marked(k) /\ \A j \in 1..k - 1 : ~Marked(j)
           at == {k \in 1..n : Marked(k)}
<1>1. n \in Nat /\ DOMAIN layout.marked = 1..n  OBVIOUS
<1>2. ASSUME pane.id \in ToSet(layout.marked)
      PROVE  LET k == CHOOSE k \in 1..n : First(k) IN k \in 1..n /\ First(k)
  <2>1. at # {}  BY <1>1, <1>2 DEF ToSet
  <2> HIDE DEF n, Marked
  <2>2. at \in SUBSET (1..n)  OBVIOUS
  <2> HIDE DEF at
  <2>3. Min(at) \in at /\ \A k \in at : Min(at) <= k  BY <1>1, <2>1, <2>2, MinIn
  <2> DEFINE m == Min(at)
  <2> HIDE DEF m
  <2>4. m \in at /\ \A k \in at : m <= k  BY <2>3 DEF m
  <2>5. m \in 1..n /\ Marked(m)  BY <2>4 DEF at
  <2>6. \A j \in 1..m - 1 : j \in 1..n /\ j < m  BY <1>1, <2>5
  <2>7. \A j \in 1..m - 1 : ~Marked(j)
    <3> TAKE j \in 1..m - 1
    <3>1. j \in 1..n /\ ~(m <= j)  BY <1>1, <2>5
    <3> QED BY <2>4, <3>1 DEF at
  <2>8. First(m)  BY <2>5, <2>7
  <2> HIDE DEF First
  <2> QED BY <2>5, <2>8
<1>3. pane.id = layout.focused => Rank(pane, layout, i) = 0  BY DEF Rank
<1>4. pane.id # layout.focused /\ pane.id \in ToSet(layout.marked) =>
         Rank(pane, layout, i) = CHOOSE k \in 1..n : First(k)
  BY <1>1 DEF Rank
<1>5. pane.id # layout.focused /\ pane.id \notin ToSet(layout.marked) =>
         Rank(pane, layout, i) = n + i
  BY DEF Rank
<1> QED BY <1>2, <1>3, <1>4, <1>5

(***************************************************************************)
(* SelectPane, which searches the snapshot for each pane the layout        *)
(* designates, in turn, finds the pane of the lowest rank: PaneShown. Pane *)
(* ids must be unique.                                                     *)
(***************************************************************************)
LEMMA SelectsShown ==
  ASSUME NEW snapshot, NEW tab,
         snapshot.panes \in Seq(ToSet(snapshot.panes)), Unique(snapshot.panes),
         snapshot.layouts[tab].marked \in Seq(ToSet(snapshot.layouts[tab].marked))
  PROVE  /\ SelectPane(snapshot, tab) = PaneShown(snapshot, tab)
         /\ \/ PaneShown(snapshot, tab) = NoPane
            \/ \E k \in DOMAIN snapshot.panes : PaneShown(snapshot, tab) = snapshot.panes[k]
<1> DEFINE panes == snapshot.panes
           layout == snapshot.layouts[tab]
           p == Len(panes)
           l == Len(layout.marked)
           indices == {i \in 1..p : panes[i].tab = tab}
           with(id) == {i \in 1..p : panes[i].tab = tab /\ panes[i].id = id}
           Find(id) == IF with(id) # {} THEN Min(with(id)) ELSE 0
           named == <<layout.focused>> \o layout.marked
           found == {d \in 1..l + 1 : Find(named[d]) # 0}
           Selected == IF found # {} THEN panes[Find(named[Min(found)])]
                       ELSE IF indices # {} THEN panes[Min(indices)]
                       ELSE NoPane
           RankOf(i) == Rank(panes[i], layout, i)
<1>1. p \in Nat /\ DOMAIN panes = 1..p /\ l \in Nat /\ DOMAIN layout.marked = 1..l
  OBVIOUS
<1>2. \A i, j \in 1..p : panes[i].id = panes[j].id => i = j
  BY <1>1 DEF Unique
<1>3. Len(named) = l + 1 /\ named[1] = layout.focused
      /\ \A d \in 1..l : named[d + 1] = layout.marked[d]
  BY <1>1
<1>4. SelectPane(snapshot, tab) = Selected
  <2> HIDE DEF named
  <2>1. SelectPane(snapshot, tab) =
          LET found2 == {d \in 1..Len(named) : Find(named[d]) # 0} IN
          IF (IF found2 # {} THEN Min(found2) ELSE 0) # 0
          THEN panes[Find(named[IF found2 # {} THEN Min(found2) ELSE 0])]
          ELSE IF (IF indices # {} THEN Min(indices) ELSE 0) # 0
          THEN panes[IF indices # {} THEN Min(indices) ELSE 0]
          ELSE NoPane
    BY DEF SelectPane, SelectInSeq, named
  <2>2. found # {} => Min(found) # 0
    <3> HIDE DEF Find
    <3>1. found \in SUBSET (1..l + 1) /\ l + 1 \in Nat  BY <1>1
    <3> HIDE DEF found
    <3>2. found # {} => Min(found) \in 1..l + 1  BY <3>1, MinIn
    <3> QED BY <1>1, <3>2
  <2>3. indices # {} => Min(indices) # 0
    <3>1. indices \in SUBSET (1..p)  OBVIOUS
    <3> HIDE DEF indices, p
    <3>2. indices # {} => Min(indices) \in 1..p  BY <1>1, <3>1, MinIn
    <3> QED BY <1>1, <3>2
  <2> HIDE DEF Find, indices, panes, layout
  <2> QED BY <1>3, <2>1, <2>2, <2>3
<1>5. PaneShown(snapshot, tab) =
        IF indices = {} THEN NoPane
        ELSE panes[CHOOSE i \in indices : \A j \in indices : RankOf(i) <= RankOf(j)]
  BY <1>1 DEF PaneShown
<1> HIDE DEF p, l, panes, layout, named
<1>6. ASSUME NEW i \in indices  PROVE  Find(panes[i].id) = i
  <2> DEFINE id == panes[i].id
  <2>1. with(id) = {i}  BY <1>2
  <2>2. i \in 1..p OBVIOUS
  <2> HIDE DEF id, with
  <2>3. {i} \in SUBSET (1..p) /\ {i} # {}  BY <2>2
  <2>4. Min({i}) \in {i}  BY <1>1, <2>3, MinIn
  <2> QED BY <2>1, <2>4 DEF id
<1>7. ASSUME NEW id, Find(id) # 0
      PROVE  Find(id) \in indices /\ panes[Find(id)].id = id
  <2>1. with(id) \in SUBSET (1..p) /\ with(id) # {}  BY <1>7
  <2>2. Min(with(id)) \in with(id)
    <3> HIDE DEF with
    <3> QED BY <1>1, <2>1, MinIn
  <2> QED BY <2>1, <2>2
<1>8. ASSUME NEW i \in indices  PROVE  i \in 1..p /\ i \in Nat /\ i # 0 /\ panes[i].tab = tab
  BY <1>1
<1>9. ASSUME NEW i \in indices
      PROVE  /\ panes[i].id = layout.focused => RankOf(i) = 0
             /\ panes[i].id # layout.focused /\ panes[i].id \in ToSet(layout.marked) =>
                   /\ RankOf(i) \in 1..l
                   /\ layout.marked[RankOf(i)] = panes[i].id
                   /\ \A j \in 1..RankOf(i) - 1 : layout.marked[j] # panes[i].id
             /\ panes[i].id # layout.focused /\ panes[i].id \notin ToSet(layout.marked) =>
                   RankOf(i) = l + i
             /\ RankOf(i) \in Nat
  <2>1. layout.marked \in Seq(ToSet(layout.marked))  BY DEF layout
  <2>2. i \in Nat  BY <1>8
  <2> HIDE DEF indices
  <2>3. /\ panes[i].id = layout.focused => RankOf(i) = 0
        /\ panes[i].id # layout.focused /\ panes[i].id \in ToSet(layout.marked) =>
              /\ RankOf(i) \in 1..l
              /\ layout.marked[RankOf(i)] = panes[i].id
              /\ \A j \in 1..RankOf(i) - 1 : layout.marked[j] # panes[i].id
        /\ panes[i].id # layout.focused /\ panes[i].id \notin ToSet(layout.marked) =>
              RankOf(i) = l + i
    BY <2>1, <2>2, RankIs DEF l
  <2> HIDE DEF RankOf
  <2> QED BY <1>1, <2>2, <2>3
<1> HIDE DEF Find, RankOf
<1>10. ASSUME NEW m \in indices, \A i \in indices : i # m => RankOf(m) < RankOf(i)
       PROVE  PaneShown(snapshot, tab) = panes[m]
  <2>1. \A i \in indices : RankOf(i) \in Nat  BY <1>9
  <2>2. \A j \in indices : RankOf(m) <= RankOf(j)
    <3> TAKE j \in indices
    <3>1. RankOf(m) \in Nat /\ RankOf(j) \in Nat  BY <2>1
    <3> QED BY <1>10, <3>1
  <2>3. \A i \in indices : (\A j \in indices : RankOf(i) <= RankOf(j)) => i = m
    <3> TAKE i \in indices
    <3>1. RankOf(m) \in Nat /\ RankOf(i) \in Nat  BY <2>1
    <3> QED BY <1>10, <3>1
  <2> HIDE DEF indices
  <2>4. (CHOOSE i \in indices : \A j \in indices : RankOf(i) <= RankOf(j)) = m
    BY <2>2, <2>3
  <2> QED BY <1>5, <2>4
<1>11. CASE found # {}
  <2> DEFINE d == Min(found)
             m == Find(named[d])
  <2>1. found \in SUBSET (1..l + 1) /\ l + 1 \in Nat  BY <1>1
  <2>2. d \in found /\ \A k \in found : d <= k
    <3> HIDE DEF found
    <3> QED BY <1>11, <2>1, MinIn
  <2> HIDE DEF d
  <2>3. d \in 1..l + 1 /\ Find(named[d]) # 0  BY <2>2
  <2>4. \A k \in 1..l + 1 : Find(named[k]) # 0 => d <= k  BY <2>2
  <2>5. m \in indices /\ panes[m].id = named[d] /\ m \in 1..p  BY <1>7, <1>8, <2>3
  <2> HIDE DEF m
  <2>6. ASSUME NEW i \in indices, i # m  PROVE  RankOf(m) < RankOf(i)
    <3>1. panes[i].id # panes[m].id  BY <1>2, <1>8, <2>5, <2>6
    <3>2. Find(panes[i].id) # 0 /\ i \in Nat /\ i # 0  BY <1>6, <1>8
    <3>3. CASE d = 1
      <4>1. RankOf(m) = 0  BY <1>3, <1>9, <2>5, <3>3
      <4>2. RankOf(i) # 0 /\ RankOf(i) \in Nat
        <5>1. panes[i].id # layout.focused  BY <1>3, <2>5, <3>1, <3>3
        <5> QED BY <1>1, <1>9, <3>2, <5>1
      <4> QED BY <4>1, <4>2
    <3>4. CASE d # 1
      <4> DEFINE k == d - 1
      <4>1. k \in 1..l /\ k + 1 = d  BY <1>1, <2>3, <3>4
      <4> HIDE DEF k
      <4>2. named[d] = layout.marked[k]  BY <1>3, <4>1
      <4>3. ASSUME NEW j \in indices  PROVE  panes[j].id # layout.focused
        <5> SUFFICES ASSUME panes[j].id = layout.focused  PROVE FALSE  OBVIOUS
        <5>1. Find(named[1]) # 0  BY <1>3, <1>6, <1>8
        <5>2. 1 \in 1..l + 1  BY <1>1
        <5>3. d <= 1  BY <2>4, <5>1, <5>2
        <5> QED BY <2>3, <3>4, <5>3, <1>1
      <4>4. ASSUME NEW j \in indices, panes[j].id \in ToSet(layout.marked)
            PROVE  RankOf(j) \in 1..l /\ layout.marked[RankOf(j)] = panes[j].id /\ k <= RankOf(j)
        <5>1. RankOf(j) \in 1..l /\ layout.marked[RankOf(j)] = panes[j].id
          BY <1>9, <4>3, <4>4
        <5>2. Find(named[RankOf(j) + 1]) # 0 /\ RankOf(j) + 1 \in 1..l + 1
          BY <1>1, <1>3, <1>6, <1>8, <5>1
        <5>3. d <= RankOf(j) + 1  BY <2>4, <5>2
        <5> QED BY <1>1, <4>1, <5>1, <5>3
      <4>5. panes[m].id \in ToSet(layout.marked)
        BY <1>1, <2>5, <4>1, <4>2 DEF ToSet
      <4>6. RankOf(m) = k
        <5>1. RankOf(m) \in 1..l /\ k <= RankOf(m)  BY <2>5, <4>4, <4>5
        <5>2. \A j \in 1..RankOf(m) - 1 : layout.marked[j] # panes[m].id
          BY <1>9, <2>5, <4>3, <4>5
        <5>3. layout.marked[k] = panes[m].id  BY <2>5, <4>2
        <5>4. ~ (k \in 1..RankOf(m) - 1)  BY <5>2, <5>3
        <5> QED BY <1>1, <4>1, <5>1, <5>4
      <4>7. CASE panes[i].id \in ToSet(layout.marked)
        <5>1. RankOf(i) \in 1..l /\ layout.marked[RankOf(i)] = panes[i].id /\ k <= RankOf(i)
          BY <4>4, <4>7
        <5>2. RankOf(i) # k  BY <2>5, <3>1, <4>2, <5>1
        <5> QED BY <1>1, <4>1, <4>6, <5>1, <5>2
      <4>8. CASE panes[i].id \notin ToSet(layout.marked)
        <5>1. RankOf(i) = l + i  BY <1>9, <4>3, <4>8
        <5> QED BY <1>1, <3>2, <4>1, <4>6, <5>1
      <4> QED BY <4>7, <4>8
    <3> QED BY <3>3, <3>4
  <2> HIDE DEF indices
  <2>7. PaneShown(snapshot, tab) = panes[m]  BY <1>10, <2>5, <2>6
  <2>8. SelectPane(snapshot, tab) = panes[m]  BY <1>4, <1>11 DEF m, d
  <2> QED BY <1>1, <2>5, <2>7, <2>8 DEF panes
<1>12. CASE found = {} /\ indices # {}
  <2> DEFINE m == Min(indices)
  <2>1. indices \in SUBSET (1..p)  OBVIOUS
  <2>2. m \in indices /\ \A k \in indices : m <= k
    <3> HIDE DEF indices
    <3> QED BY <1>1, <1>12, <2>1, MinIn
  <2> HIDE DEF m
  <2>3. \A k \in 1..l + 1 : Find(named[k]) = 0  BY <1>12
  <2>4. ASSUME NEW i \in indices  PROVE  RankOf(i) = l + i
    <3>1. Find(panes[i].id) # 0  BY <1>6, <1>8
    <3>2. panes[i].id # layout.focused
      <4>1. 1 \in 1..l + 1  BY <1>1
      <4> QED BY <1>3, <2>3, <3>1, <4>1
    <3>3. panes[i].id \notin ToSet(layout.marked)
      <4> SUFFICES ASSUME NEW k \in 1..l, layout.marked[k] = panes[i].id  PROVE FALSE
        BY <1>1 DEF ToSet
      <4>1. k + 1 \in 1..l + 1 /\ named[k + 1] = panes[i].id  BY <1>1, <1>3
      <4> QED BY <2>3, <3>1, <4>1
    <3> QED BY <1>9, <3>2, <3>3
  <2>5. ASSUME NEW i \in indices, i # m  PROVE  RankOf(m) < RankOf(i)
    <3>1. i \in Nat /\ m \in Nat /\ m <= i  BY <1>8, <2>2
    <3>2. RankOf(m) = l + m /\ RankOf(i) = l + i  BY <2>2, <2>4
    <3> QED BY <1>1, <2>5, <3>1, <3>2
  <2> HIDE DEF indices
  <2>6. PaneShown(snapshot, tab) = panes[m]  BY <1>10, <2>2, <2>5
  <2>7. SelectPane(snapshot, tab) = panes[m]  BY <1>4, <1>12 DEF m
  <2>8. m \in 1..p  BY <1>8, <2>2
  <2> QED BY <1>1, <2>6, <2>7, <2>8 DEF panes
<1>13. CASE found = {} /\ indices = {}
  BY <1>4, <1>5, <1>13
<1> QED BY <1>11, <1>12, <1>13

-----------------------------------------------------------------------------
(* The session.                                                            *)

(***************************************************************************)
(* A sequence is one over its own elements.                                *)
(***************************************************************************)
LEMMA SeqOfOwn ==
  ASSUME NEW X, NEW s \in Seq(X)
  PROVE  s \in Seq(ToSet(s)) /\ ToSet(s) \subseteq X
<1> DEFINE n == Len(s)
<1>1. n \in Nat /\ DOMAIN s = 1..n /\ s = [i \in 1..n |-> s[i]] /\ \A i \in 1..n : s[i] \in X
  OBVIOUS
<1> HIDE DEF n
<1>2. \A i \in 1..n : s[i] \in ToSet(s)  BY <1>1 DEF ToSet
<1>3. s \in Seq(ToSet(s))  BY <1>1, <1>2
<1> QED BY <1>1, <1>3 DEF ToSet

\* The panes that are left when the tab is closed.
Kept(panes, tab) ==
    FoldLeft(LAMBDA kept, pane : IF pane.tab = tab THEN kept ELSE Append(kept, pane),
             <<>>, panes)

(***************************************************************************)
(* Closing a tab leaves a sequence of the other panes, each once.          *)
(***************************************************************************)
LEMMA KeepsOthers ==
  ASSUME NEW panes, panes \in Seq(ToSet(panes)), Unique(panes), NEW tab
  PROVE  Kept(panes, tab) \in Seq(ToSet(panes)) /\ Unique(Kept(panes, tab))
<1> DEFINE n == Len(panes)
           A == Seq(ToSet(panes))
           Keep(kept, i) == IF panes[i].tab = tab THEN kept ELSE Append(kept, panes[i])
           op == [p \in A \X (1..n) |-> Keep(p[1], p[2])]
           Folds(iter) == iter = [s \in SUBSET (1..n) |->
                             IF s = {} THEN <<>> ELSE Keep(iter[s \ {Max(s)}], Max(s))]
           iter == CHOOSE iter : Folds(iter)
<1>1. n \in Nat /\ DOMAIN panes = 1..n
  OBVIOUS
<1>2. <<>> \in A
  OBVIOUS
<1>0. ASSUME NEW i \in 1..n  PROVE panes[i] \in ToSet(panes)
  BY <1>1 DEF ToSet
<1>3. ASSUME NEW a \in A, NEW i \in 1..n  PROVE  Keep(a, i) \in A
  BY <1>0
<1>4. op \in [A \X (1..n) -> A]
  <2> HIDE DEF A, Keep
  <2> QED BY <1>3
<1>5. PICK it \in [SUBSET (1..n) -> A] : Recurs(it, n, <<>>, op)
  <2> HIDE DEF n, op, A
  <2> QED BY <1>1, <1>2, <1>4, FoldExists
<1>6. ASSUME NEW s \in SUBSET (1..n), s # {}
      PROVE  op[<<it[s \ {Max(s)}], Max(s)>>] = Keep(it[s \ {Max(s)}], Max(s))
  <2>1. Max(s) \in 1..n  BY <1>1, <1>6, MaxIn
  <2>2. it[s \ {Max(s)}] \in A  BY <1>5
  <2> HIDE DEF A, Keep
  <2> QED BY <2>1, <2>2
<1>7. Folds(it)
  <2> HIDE DEF op, Keep
  <2> QED BY <1>5, <1>6 DEF Recurs
<1>8. Folds(iter)
  <2> HIDE DEF Folds
  <2> QED BY <1>7
<1>9. Kept(panes, tab) = iter[1..n]
  BY <1>1 DEF Kept, FoldLeft, MapThenFoldSet
<1> HIDE DEF iter, op, n, A
<1>10. ASSUME NEW i \in 1..n  PROVE iter[1..i] = Keep(iter[1..i-1], i)
  <2>1. Max(1..i) = i  BY <1>1, MaxOfPrefix
  <2>2. (1..i) \ {i} = 1..i-1 /\ 1..i \in SUBSET (1..n) /\ 1..i # {}
    <3>1. \A k \in 1..i : k \in 1..n  BY <1>1
    <3>2. i \in 1..i  BY <1>1
    <3>3. (1..i) \ {i} = 1..i-1  BY <1>1
    <3> QED BY <3>1, <3>2, <3>3
  <2> HIDE DEF Keep
  <2> QED BY <1>8, <2>1, <2>2
<1>11. iter[1..0] = <<>>
  <2>1. 1..0 = {} /\ {} \in SUBSET (1..n)  BY <1>1
  <2> QED BY <1>8, <2>1
<1> HIDE DEF Folds
<1> DEFINE Right(k) == /\ iter[1..k] \in A
                       /\ \A x \in DOMAIN iter[1..k] : \E j \in 1..k : iter[1..k][x] = panes[j]
                       /\ Unique(iter[1..k])
           S == {k \in Nat : k <= n => Right(k)}
<1>12. 0 \in S
  <2>1. Right(0)  BY <1>2, <1>11 DEF Unique
  <2> HIDE DEF Right
  <2> QED BY <2>1
<1>13. ASSUME NEW k \in S \cap Nat  PROVE  k + 1 \in S
  <2> SUFFICES ASSUME k + 1 <= n  PROVE  Right(k + 1)
    <3> HIDE DEF Right
    <3> QED OBVIOUS
  <2> DEFINE i == k + 1
             old == iter[1..k]
             new == iter[1..i]
  <2>1. i \in 1..n /\ i - 1 = k /\ Right(k)
    <3> HIDE DEF Right
    <3> QED BY <1>1
  <2>2. new = Keep(old, i)  BY <1>10, <2>1
  <2>3. old \in A /\ Unique(old) /\ \A x \in DOMAIN old : \E j \in 1..k : old[x] = panes[j]
    BY <2>1
  <2> HIDE DEF new, old
  <2>4. CASE panes[i].tab = tab
    <3>1. new = old  BY <2>2, <2>4
    <3>2. \A j \in 1..k : j \in 1..i  OBVIOUS
    <3> QED BY <2>3, <3>1, <3>2 DEF new, old
  <2>5. CASE panes[i].tab # tab
    <3>1. new = Append(old, panes[i])  BY <2>2, <2>5
    <3>2. new \in A  BY <1>3, <2>1, <2>2, <2>3
    <3>3. \A x \in DOMAIN new : \/ x \in DOMAIN old /\ new[x] = old[x]
                                \/ x = Len(old) + 1 /\ new[x] = panes[i]
      BY <2>3, <3>1 DEF A
    <3>4. \A x \in DOMAIN new : \E j \in 1..i : new[x] = panes[j]
      <4>1. \A j \in 1..k : j \in 1..i  OBVIOUS
      <4>2. i \in 1..i  BY <2>1
      <4> HIDE DEF i
      <4> QED BY <2>3, <3>3, <4>1, <4>2
    <3>5. \A x \in DOMAIN old : old[x].id # panes[i].id
      <4> SUFFICES ASSUME NEW x \in DOMAIN old, old[x].id = panes[i].id  PROVE FALSE  OBVIOUS
      <4>1. PICK j \in 1..k : old[x] = panes[j]  BY <2>3
      <4>2. j \in 1..n /\ j # i  BY <1>1, <2>1
      <4> HIDE DEF i
      <4> QED BY <1>1, <2>1, <4>1, <4>2 DEF Unique
    <3>6. Unique(new)
      <4> SUFFICES ASSUME NEW x \in DOMAIN new, NEW y \in DOMAIN new, new[x].id = new[y].id
                   PROVE  x = y
        BY DEF Unique
      <4> HIDE DEF i
      <4> QED BY <2>3, <3>3, <3>5 DEF Unique
    <3> QED BY <3>2, <3>4, <3>6 DEF new
  <2> QED BY <2>4, <2>5
<1>14. Right(n)
  <2> HIDE DEF S
  <2>1. n \in S  BY <1>1, <1>12, <1>13, Induction
  <2> HIDE DEF Right
  <2> QED BY <1>1, <2>1 DEF S
<1> QED BY <1>9, <1>14 DEF A

(***************************************************************************)
(* RemoveAt moves what follows the removed element down by one place.      *)
(***************************************************************************)
LEMMA RemovesOne ==
  ASSUME NEW X, NEW s \in Seq(X), NEW i \in DOMAIN s
  PROVE  /\ RemoveAt(s, i) \in Seq(X)
         /\ \A k \in DOMAIN RemoveAt(s, i) :
               /\ k \in Nat
               /\ k < i  => k \in DOMAIN s /\ RemoveAt(s, i)[k] = s[k]
               /\ k >= i => k + 1 \in DOMAIN s /\ RemoveAt(s, i)[k] = s[k + 1]
<1> DEFINE n == Len(s)
           a == SubSeq(s, 1, i - 1)
           b == SubSeq(s, i + 1, n)
<1>1. n \in Nat /\ DOMAIN s = 1..n /\ i \in 1..n  OBVIOUS
<1>2. a \in Seq(X) /\ Len(a) = i - 1 /\ \A k \in 1..i - 1 : a[k] = s[k]
  BY <1>1
<1>3. b \in Seq(X) /\ Len(b) = n - i /\ \A k \in 1..n - i : b[k] = s[i + k]
  BY <1>1
<1>4. RemoveAt(s, i) = a \o b  BY DEF RemoveAt
<1> HIDE DEF a, b, n
<1>5. a \o b \in Seq(X) /\ Len(a \o b) = n - 1
  <2>0. a \in Seq(X) /\ b \in Seq(X)  BY <1>2, <1>3
  <2>1. a \o b \in Seq(X)  BY <2>0
  <2>3. Len(a \o b) = Len(a) + Len(b)  BY <2>0
  <2>2. (i - 1) + (n - i) = n - 1  BY <1>1
  <2> QED BY <1>2, <1>3, <2>1, <2>2, <2>3
<1>6. ASSUME NEW k \in 1..n - 1
      PROVE  (a \o b)[k] = IF k < i THEN s[k] ELSE s[k + 1]
  <2>1. CASE k < i  BY <1>1, <1>2, <1>3, <2>1
  <2>2. CASE ~(k < i)
    <3>1. k - (i - 1) \in 1..n - i /\ i + (k - (i - 1)) = k + 1  BY <1>1, <2>2
    <3>2. (a \o b)[k] = b[k - (i - 1)]  BY <1>1, <1>2, <1>3, <2>2
    <3> QED BY <1>3, <2>2, <3>1, <3>2
  <2> QED BY <2>1, <2>2
<1>7. DOMAIN (a \o b) = 1..n - 1  BY <1>1, <1>5
<1>8. ASSUME NEW k \in 1..n - 1
      PROVE  /\ k \in Nat
             /\ k < i  => k \in DOMAIN s /\ (a \o b)[k] = s[k]
             /\ k >= i => k + 1 \in DOMAIN s /\ (a \o b)[k] = s[k + 1]
  <2>1. k \in 1..n /\ k + 1 \in 1..n /\ k \in Nat /\ (k >= i <=> ~(k < i))  BY <1>1
  <2> QED BY <1>1, <1>6, <2>1
<1> QED BY <1>4, <1>5, <1>7, <1>8

\* The form of a snapshot: what the assumption says, of the tabs' labels apart.
Formed(s) ==
    /\ DOMAIN s = {"tabs", "panes", "layouts", "agents"}
    /\ s.tabs \in Seq(ToSet(s.tabs)) /\ Unique(s.tabs)
    /\ \A i \in DOMAIN s.tabs :
          DOMAIN s.tabs[i] = {"id", "workspace", "label"} /\ s.tabs[i].id \in DOMAIN s.layouts
    /\ s.panes \in Seq(ToSet(s.panes)) /\ Unique(s.panes)
    /\ \A i \in DOMAIN s.panes : {"id", "tab"} \subseteq DOMAIN s.panes[i]
    /\ \A tab \in DOMAIN s.layouts :
          /\ DOMAIN s.layouts[tab] = {"focused", "marked"}
          /\ s.layouts[tab].marked \in Seq(ToSet(s.layouts[tab].marked))

\* What the session would show is always a well-formed snapshot.
SessionOK == Formed(session)

(***************************************************************************)
(* A snapshot stays well formed when its tabs are replaced by others that  *)
(* are.                                                                    *)
(***************************************************************************)
LEMMA TabsReplaced ==
  ASSUME NEW s, Formed(s), NEW tabs, NEW X, tabs \in Seq(X), Unique(tabs),
         \A i \in DOMAIN tabs : /\ DOMAIN tabs[i] = {"id", "workspace", "label"}
                                /\ tabs[i].id \in DOMAIN s.layouts
  PROVE  Formed([s EXCEPT !.tabs = tabs])
<1> DEFINE r == [s EXCEPT !.tabs = tabs]
<1>1. DOMAIN r = DOMAIN s /\ r.tabs = tabs /\ r.panes = s.panes /\ r.layouts = s.layouts
  BY DEF Formed
<1>2. tabs \in Seq(ToSet(tabs))  BY SeqOfOwn
<1> HIDE DEF r
<1>3. Formed(r)  BY <1>1, <1>2 DEF Formed
<1> QED BY <1>3 DEF r

(***************************************************************************)
(* A snapshot stays well formed when its panes are replaced by others that *)
(* are.                                                                    *)
(***************************************************************************)
LEMMA PanesReplaced ==
  ASSUME NEW s, Formed(s), NEW panes, NEW X, panes \in Seq(X), Unique(panes),
         \A i \in DOMAIN panes : {"id", "tab"} \subseteq DOMAIN panes[i]
  PROVE  Formed([s EXCEPT !.panes = panes])
<1> DEFINE r == [s EXCEPT !.panes = panes]
<1>1. DOMAIN r = DOMAIN s /\ r.tabs = s.tabs /\ r.panes = panes /\ r.layouts = s.layouts
  BY DEF Formed
<1>2. panes \in Seq(ToSet(panes))  BY SeqOfOwn
<1> HIDE DEF r
<1>3. Formed(r)  BY <1>1, <1>2 DEF Formed
<1> QED BY <1>3 DEF r

\* A label of new is one of the user's, or the tab had it in old.
Stays(old, new) ==
    /\ DOMAIN new.layouts = DOMAIN old.layouts
    /\ \A k \in DOMAIN new.tabs :
          \/ new.tabs[k].label \in Names
          \/ \E j \in DOMAIN old.tabs : /\ new.tabs[k].id = old.tabs[j].id
                                        /\ new.tabs[k].label = old.tabs[j].label

(***************************************************************************)
(* What happens in Herdr leaves the snapshot well formed and the pass      *)
(* alone, and gives tabs no label but those of the user.                   *)
(***************************************************************************)
LEMMA HerdrKeeps ==
  ASSUME SessionOK, Herdr
  PROVE  /\ SessionOK' /\ Stays(session, session')
         /\ UNCHANGED <<compiled, history, pass, actions, seen>> /\ quiet' = "no"
<1> DEFINE tabs == session.tabs
           panes == session.panes
<1>0. /\ tabs \in Seq(ToSet(tabs)) /\ Unique(tabs)
      /\ \A i \in DOMAIN tabs :
            DOMAIN tabs[i] = {"id", "workspace", "label"} /\ tabs[i].id \in DOMAIN session.layouts
      /\ panes \in Seq(ToSet(panes)) /\ Unique(panes)
      /\ \A i \in DOMAIN panes : {"id", "tab"} \subseteq DOMAIN panes[i]
      /\ DOMAIN session = {"tabs", "panes", "layouts", "agents"}
  BY DEF SessionOK, Formed
<1>00. /\ DOMAIN tabs = 1..Len(tabs) /\ Len(tabs) \in Nat
       /\ \A i \in DOMAIN tabs : tabs[i] \in ToSet(tabs)
       /\ DOMAIN panes = 1..Len(panes) /\ Len(panes) \in Nat
       /\ \A i \in DOMAIN panes : panes[i] \in ToSet(panes)
  BY <1>0 DEF ToSet
<1> HIDE DEF tabs, panes
<1>1. UNCHANGED <<compiled, history, pass, actions, seen>> /\ quiet' = "no"
  BY DEF Herdr, MoveTab, OpenTab, CloseTab, UserRename, MovePane, FocusPane,
         IdentifyAgent, RunProcess, Change, Edit
<1>2. ASSUME NEW new, NEW X, new \in Seq(X), Unique(new),
             session' = [session EXCEPT !.tabs = new],
             \A k \in DOMAIN new : \E j \in DOMAIN tabs :
                /\ DOMAIN new[k] = {"id", "workspace", "label"}
                /\ new[k].id = tabs[j].id /\ new[k].label \in Names \cup {tabs[j].label}
      PROVE  SessionOK' /\ Stays(session, session')
  <2>1. \A i \in DOMAIN new : /\ DOMAIN new[i] = {"id", "workspace", "label"}
                              /\ new[i].id \in DOMAIN session.layouts
    BY <1>0, <1>2
  <2>2. Formed([session EXCEPT !.tabs = new])
    BY <1>2, <2>1, TabsReplaced DEF SessionOK
  <2>3. session'.tabs = new /\ session'.layouts = session.layouts  BY <1>0, <1>2
  <2>4. Stays(session, session')  BY <1>2, <2>3 DEF Stays, tabs
  <2> QED BY <1>2, <2>2, <2>4 DEF SessionOK
<1>3. ASSUME NEW i \in DOMAIN tabs, MoveTab(i)  PROVE  SessionOK' /\ Stays(session, session')
  <2> DEFINE new == [tabs EXCEPT ![i] = tabs[i + 1], ![i + 1] = tabs[i]]
  <2>1. i + 1 \in DOMAIN tabs /\ session' = [session EXCEPT !.tabs = new]
    BY <1>3 DEF MoveTab, Change, tabs
  <2>2. new \in Seq(ToSet(tabs))  BY <1>0, <1>00, <2>1
  <2>3. /\ DOMAIN new = DOMAIN tabs
        /\ \A k \in DOMAIN tabs : new[k] = IF k = i THEN tabs[i + 1]
                                           ELSE IF k = i + 1 THEN tabs[i] ELSE tabs[k]
    BY <1>00, <2>1
  <2> HIDE DEF new
  <2>4. Unique(new)  BY <1>0, <1>00, <2>1, <2>3 DEF Unique
  <2>5. \A k \in DOMAIN new : \E j \in DOMAIN tabs : new[k] = tabs[j]
    BY <2>1, <2>3
  <2> QED BY <1>0, <1>2, <2>1, <2>2, <2>4, <2>5
<1>4. ASSUME NEW i \in DOMAIN tabs, CloseTab(i)  PROVE  SessionOK' /\ Stays(session, session')
  <2> DEFINE new == RemoveAt(tabs, i)
             kept == Kept(panes, tabs[i].id)
             middle == [session EXCEPT !.panes = kept]
  <2>1. session' = [session EXCEPT !.tabs = new, !.panes = kept]
    BY <1>4 DEF CloseTab, Kept, tabs, panes
  <2>2. kept \in Seq(ToSet(panes)) /\ Unique(kept)
    BY <1>0, KeepsOthers
  <2>3. \A k \in DOMAIN kept : {"id", "tab"} \subseteq DOMAIN kept[k]
    <3> HIDE DEF kept
    <3>1. \A k \in DOMAIN kept : kept[k] \in ToSet(panes)  BY <2>2
    <3> QED BY <1>0, <3>1 DEF ToSet
  <2>4. /\ new \in Seq(ToSet(tabs))
        /\ \A k \in DOMAIN new :
              /\ k \in Nat
              /\ k < i  => k \in DOMAIN tabs /\ new[k] = tabs[k]
              /\ k >= i => k + 1 \in DOMAIN tabs /\ new[k] = tabs[k + 1]
    BY <1>0, RemovesOne
  <2> HIDE DEF new, kept
  <2>5. Unique(new)
    <3> SUFFICES ASSUME NEW k \in DOMAIN new, NEW j \in DOMAIN new, new[k].id = new[j].id
                 PROVE  k = j
      BY DEF Unique
    <3>1. k \in Nat /\ j \in Nat /\ i \in Nat  BY <1>00, <2>4
    <3>2. CASE k < i /\ j < i  BY <1>0, <2>4, <3>2 DEF Unique
    <3>3. CASE k < i /\ j >= i
      <4>1. k \in DOMAIN tabs /\ j + 1 \in DOMAIN tabs /\ tabs[k].id = tabs[j + 1].id
        BY <2>4, <3>3
      <4>2. k = j + 1  BY <1>0, <4>1 DEF Unique
      <4> QED BY <3>1, <3>3, <4>2
    <3>4. CASE k >= i /\ j < i
      <4>1. k + 1 \in DOMAIN tabs /\ j \in DOMAIN tabs /\ tabs[k + 1].id = tabs[j].id
        BY <2>4, <3>4
      <4>2. k + 1 = j  BY <1>0, <4>1 DEF Unique
      <4> QED BY <3>1, <3>4, <4>2
    <3>5. CASE k >= i /\ j >= i
      <4>1. k + 1 \in DOMAIN tabs /\ j + 1 \in DOMAIN tabs /\ tabs[k + 1].id = tabs[j + 1].id
        BY <2>4, <3>5
      <4>2. k + 1 = j + 1  BY <1>0, <4>1 DEF Unique
      <4> QED BY <3>1, <4>2
    <3> QED BY <3>1, <3>2, <3>3, <3>4, <3>5
  <2>6. \A k \in DOMAIN new : \E j \in DOMAIN tabs : new[k] = tabs[j]
    <3> TAKE k \in DOMAIN new
    <3>1. k \in Nat /\ i \in Nat  BY <1>00, <2>4
    <3>2. k < i \/ k >= i  BY <3>1
    <3> QED BY <2>4, <3>2
  <2>7. Formed(middle)
    BY <2>2, <2>3, PanesReplaced DEF SessionOK
  <2>8. /\ session' = [middle EXCEPT !.tabs = new]
        /\ middle.layouts = session.layouts /\ DOMAIN middle = DOMAIN session
    BY <1>0, <2>1
  <2> HIDE DEF middle
  <2>9. \A k \in DOMAIN new : /\ DOMAIN new[k] = {"id", "workspace", "label"}
                              /\ new[k].id \in DOMAIN middle.layouts
    BY <1>0, <2>6, <2>8
  <2>10. Formed([middle EXCEPT !.tabs = new])
    BY <2>4, <2>5, <2>7, <2>9, TabsReplaced
  <2>11. SessionOK'  BY <2>8, <2>10 DEF SessionOK
  <2>12. session'.tabs = new /\ session'.layouts = session.layouts  BY <1>0, <2>8
  <2>13. Stays(session, session')  BY <2>6, <2>12 DEF Stays, tabs
  <2> QED BY <2>11, <2>13
<1>5. ASSUME NEW arrival \in Arrivals, OpenTab(arrival)
      PROVE  SessionOK' /\ Stays(session, session')
  <2> DEFINE new == Append(tabs, arrival.tab)
             more == Append(panes, arrival.pane)
             middle == [session EXCEPT !.panes = more]
  <2>1. /\ session' = [session EXCEPT !.tabs = new, !.panes = more]
        /\ arrival.tab.id \in TabIds \ Tabs /\ arrival.pane.id \notin Panes
    BY <1>5 DEF OpenTab, tabs, panes
  <2>2. /\ DOMAIN arrival.tab = {"id", "workspace", "label"} /\ arrival.tab.label \in Names
        /\ {"id", "tab"} \subseteq DOMAIN arrival.pane
    BY ArrivalsAssumption
  <2>3. /\ \A k \in DOMAIN tabs : tabs[k].id # arrival.tab.id
        /\ \A k \in DOMAIN panes : panes[k].id # arrival.pane.id
    BY <2>1 DEF Tabs, Panes, tabs, panes
  <2> DEFINE allTabs == ToSet(tabs) \cup {arrival.tab}
             allPanes == ToSet(panes) \cup {arrival.pane}
  <2>4. /\ new \in Seq(allTabs)
        /\ \A k \in DOMAIN new : \/ k \in DOMAIN tabs /\ new[k] = tabs[k]
                                 \/ k = Len(tabs) + 1 /\ new[k] = arrival.tab
    <3>1. tabs \in Seq(allTabs)  BY <1>0, <1>00
    <3> HIDE DEF allTabs
    <3>2. arrival.tab \in allTabs  BY DEF allTabs
    <3> QED BY <1>00, <3>1, <3>2
  <2>5. /\ more \in Seq(allPanes)
        /\ \A k \in DOMAIN more : \/ k \in DOMAIN panes /\ more[k] = panes[k]
                                  \/ k = Len(panes) + 1 /\ more[k] = arrival.pane
    <3>1. panes \in Seq(allPanes)  BY <1>0, <1>00
    <3> HIDE DEF allPanes
    <3>2. arrival.pane \in allPanes  BY DEF allPanes
    <3> QED BY <1>00, <3>1, <3>2
  <2> HIDE DEF new, more, allTabs, allPanes
  <2>6. Unique(new)
    <3> SUFFICES ASSUME NEW k \in DOMAIN new, NEW j \in DOMAIN new, new[k].id = new[j].id
                 PROVE  k = j
      BY DEF Unique
    <3> QED BY <1>0, <2>3, <2>4 DEF Unique
  <2>7. Unique(more)
    <3> SUFFICES ASSUME NEW k \in DOMAIN more, NEW j \in DOMAIN more, more[k].id = more[j].id
                 PROVE  k = j
      BY DEF Unique
    <3> QED BY <1>0, <2>3, <2>5 DEF Unique
  <2>8. \A k \in DOMAIN more : {"id", "tab"} \subseteq DOMAIN more[k]
    BY <1>0, <2>2, <2>5
  <2>9. Formed(middle)
    BY <2>5, <2>7, <2>8, PanesReplaced DEF SessionOK
  <2>10. /\ session' = [middle EXCEPT !.tabs = new]
         /\ middle.layouts = session.layouts /\ DOMAIN middle = DOMAIN session
    BY <1>0, <2>1
  <2> HIDE DEF middle
  <2>11. \A k \in DOMAIN new : /\ DOMAIN new[k] = {"id", "workspace", "label"}
                               /\ new[k].id \in DOMAIN middle.layouts
    BY <1>0, <2>1, <2>2, <2>4, <2>10 DEF TabIds
  <2>12. Formed([middle EXCEPT !.tabs = new])
    BY <2>4, <2>6, <2>9, <2>11, TabsReplaced
  <2>13. SessionOK'  BY <2>10, <2>12 DEF SessionOK
  <2>14. session'.tabs = new /\ session'.layouts = session.layouts  BY <1>0, <2>10
  <2>15. Stays(session, session')  BY <2>2, <2>4, <2>14 DEF Stays, tabs
  <2> QED BY <2>13, <2>15
<1>6. ASSUME NEW i \in DOMAIN tabs, NEW name \in Names, UserRename(i, name)
      PROVE  SessionOK' /\ Stays(session, session')
  <2> DEFINE new == [tabs EXCEPT ![i].label = name]
  <2>1. session' = [session EXCEPT !.tabs = new]
    BY <1>6 DEF UserRename, Change, tabs
  <2>2. new = [k \in DOMAIN tabs |-> IF k = i THEN [tabs[k] EXCEPT !.label = name] ELSE tabs[k]]
    OBVIOUS
  <2> DEFINE all == ToSet(tabs) \cup {[tabs[i] EXCEPT !.label = name]}
  <2>3. new \in Seq(all)
    <3>1. \A k \in DOMAIN tabs : new[k] \in all  BY <1>00, <2>2
    <3>2. new = [k \in 1..Len(tabs) |-> new[k]]  BY <1>00, <2>2
    <3> HIDE DEF new, all
    <3> QED BY <1>00, <3>1, <3>2
  <2>4. /\ DOMAIN new = DOMAIN tabs
        /\ \A k \in DOMAIN tabs :
              /\ DOMAIN new[k] = {"id", "workspace", "label"}
              /\ new[k].id = tabs[k].id /\ new[k].label \in Names \cup {tabs[k].label}
    BY <1>0
  <2> HIDE DEF new, all
  <2>5. Unique(new)  BY <1>0, <2>4 DEF Unique
  <2> QED BY <1>2, <2>1, <2>3, <2>4, <2>5
<1>7. ASSUME NEW i \in DOMAIN panes, NEW tab, MovePane(i, tab)
      PROVE  SessionOK' /\ Stays(session, session')
  <2> DEFINE new == [panes EXCEPT ![i].tab = tab]
  <2>1. session' = [session EXCEPT !.panes = new]
    BY <1>7 DEF MovePane, Change, panes
  <2>2. new = [k \in DOMAIN panes |-> IF k = i THEN [panes[k] EXCEPT !.tab = tab] ELSE panes[k]]
    OBVIOUS
  <2> DEFINE all == ToSet(panes) \cup {[panes[i] EXCEPT !.tab = tab]}
  <2>3. new \in Seq(all)
    <3>1. \A k \in DOMAIN panes : new[k] \in all  BY <1>00, <2>2
    <3>2. new = [k \in 1..Len(panes) |-> new[k]]  BY <1>00, <2>2
    <3> HIDE DEF new, all
    <3> QED BY <1>00, <3>1, <3>2
  <2>4. /\ DOMAIN new = DOMAIN panes
        /\ \A k \in DOMAIN panes : {"id", "tab"} \subseteq DOMAIN new[k] /\ new[k].id = panes[k].id
    BY <1>0
  <2> HIDE DEF new, all
  <2>5. Unique(new)  BY <1>0, <2>4 DEF Unique
  <2>6. SessionOK'
    <3>1. Formed([session EXCEPT !.panes = new])
      BY <2>3, <2>4, <2>5, PanesReplaced DEF SessionOK
    <3> QED BY <2>1, <3>1 DEF SessionOK
  <2>7. session'.tabs = session.tabs /\ session'.layouts = session.layouts  BY <1>0, <2>1
  <2> QED BY <2>6, <2>7 DEF Stays
<1>8. ASSUME NEW tab, NEW pane, FocusPane(tab, pane)
      PROVE  SessionOK' /\ Stays(session, session')
  <2> DEFINE new == [session.layouts EXCEPT ![tab].focused = pane]
  <2>1. session' = [session EXCEPT !.layouts = new]
    BY <1>8 DEF FocusPane, Change
  <2>2. /\ session'.tabs = session.tabs /\ session'.panes = session.panes
        /\ session'.layouts = new /\ DOMAIN session' = DOMAIN session
    BY <1>0, <2>1
  <2>3. /\ DOMAIN new = DOMAIN session.layouts
        /\ \A t \in DOMAIN session.layouts :
              /\ DOMAIN new[t] = {"focused", "marked"}
              /\ new[t].marked = session.layouts[t].marked
    BY DEF SessionOK, Formed
  <2> HIDE DEF new
  <2>4. SessionOK'  BY <2>2, <2>3 DEF SessionOK, Formed
  <2> QED BY <2>2, <2>3, <2>4 DEF Stays
<1>9. ASSUME NEW pane, NEW agent, IdentifyAgent(pane, agent)
      PROVE  SessionOK' /\ Stays(session, session')
  <2> DEFINE new == [p \in DOMAIN session.agents \cup {pane} |->
                         IF p = pane THEN agent ELSE session.agents[p]]
  <2>1. session' = [session EXCEPT !.agents = new]
    BY <1>9 DEF IdentifyAgent, Change
  <2> HIDE DEF new
  <2>2. /\ session'.tabs = session.tabs /\ session'.panes = session.panes
        /\ session'.layouts = session.layouts /\ DOMAIN session' = DOMAIN session
    BY <1>0, <2>1
  <2>4. SessionOK'  BY <2>2 DEF SessionOK, Formed
  <2> QED BY <2>2, <2>4 DEF Stays
<1>10. ASSUME NEW pane, NEW info, RunProcess(pane, info)
      PROVE  SessionOK' /\ Stays(session, session')
  <2>1. session' = session  BY <1>10 DEF RunProcess
  <2> QED BY <2>1 DEF Stays, SessionOK
<1>11. \/ \E i \in DOMAIN tabs : MoveTab(i)
       \/ \E i \in DOMAIN tabs : CloseTab(i)
       \/ \E i \in DOMAIN tabs, name \in Names : UserRename(i, name)
       \/ \E arrival \in Arrivals : OpenTab(arrival)
       \/ \E i \in DOMAIN panes, tab \in Tabs : MovePane(i, tab)
       \/ \E tab \in Tabs, pane \in Panes : FocusPane(tab, pane)
       \/ \E pane \in Panes, agent \in Agents : IdentifyAgent(pane, agent)
       \/ \E pane \in Panes, info \in Infos : RunProcess(pane, info)
  BY DEF Herdr, tabs, panes
<1> QED BY <1>1, <1>3, <1>4, <1>5, <1>6, <1>7, <1>8, <1>9, <1>10, <1>11

(***************************************************************************)
(* A tab is found by its id.                                               *)
(***************************************************************************)
LEMMA IndexIs ==
  ASSUME SessionOK, NEW i \in DOMAIN session.tabs
  PROVE  Index(session.tabs[i].id) = i /\ LabelOf(session.tabs[i].id) = session.tabs[i].label
<1>1. \A j \in DOMAIN session.tabs : session.tabs[j].id = session.tabs[i].id => j = i
  BY DEF SessionOK, Formed, Unique
<1>2. Index(session.tabs[i].id) = i  BY <1>1 DEF Index
<1> QED BY <1>2 DEF LabelOf

(***************************************************************************)
(* A rename changes the label of the tab it names, and nothing else.       *)
(***************************************************************************)
LEMMA RenameKeeps ==
  ASSUME SessionOK, RenameTab
  PROVE  /\ SessionOK'
         /\ session'.panes = session.panes /\ session'.layouts = session.layouts
         /\ session'.agents = session.agents
         /\ DOMAIN session'.tabs = DOMAIN session.tabs
         /\ \E i \in DOMAIN session.tabs :
               /\ session.tabs[i].id = Reached.tab
               /\ \A k \in DOMAIN session.tabs :
                     /\ session'.tabs[k].id = session.tabs[k].id
                     /\ session'.tabs[k].workspace = session.tabs[k].workspace
                     /\ session'.tabs[k].label =
                           IF k = i THEN Desired(Reached, InfoOf(Reached))
                           ELSE session.tabs[k].label
<1> DEFINE tabs == session.tabs
           desired == Desired(Reached, InfoOf(Reached))
<1>1. PICK i \in DOMAIN tabs : tabs[i].id = Reached.tab
  BY DEF RenameTab, Tabs
<1>2. Index(Reached.tab) = i  BY <1>1, IndexIs
<1> DEFINE new == [tabs EXCEPT ![i].label = desired]
<1>3. session' = [session EXCEPT !.tabs = new]
  BY <1>2 DEF RenameTab
<1>4. /\ tabs \in Seq(ToSet(tabs)) /\ Unique(tabs)
      /\ \A k \in DOMAIN tabs :
            DOMAIN tabs[k] = {"id", "workspace", "label"} /\ tabs[k].id \in DOMAIN session.layouts
      /\ DOMAIN session = {"tabs", "panes", "layouts", "agents"}
  BY DEF SessionOK, Formed
<1>5. /\ DOMAIN tabs = 1..Len(tabs) /\ Len(tabs) \in Nat
      /\ \A k \in DOMAIN tabs : tabs[k] \in ToSet(tabs)
  BY <1>4 DEF ToSet
<1> HIDE DEF tabs, desired
<1>6. new = [k \in DOMAIN tabs |-> IF k = i THEN [tabs[k] EXCEPT !.label = desired] ELSE tabs[k]]
  OBVIOUS
<1> DEFINE all == ToSet(tabs) \cup {[tabs[i] EXCEPT !.label = desired]}
<1>7. new \in Seq(all)
  <2>1. \A k \in DOMAIN tabs : new[k] \in all  BY <1>5, <1>6
  <2>2. new = [k \in 1..Len(tabs) |-> new[k]]  BY <1>5, <1>6
  <2> HIDE DEF new, all
  <2> QED BY <1>5, <2>1, <2>2
<1>8. /\ DOMAIN new = DOMAIN tabs
      /\ \A k \in DOMAIN tabs :
            /\ DOMAIN new[k] = {"id", "workspace", "label"}
            /\ new[k].id = tabs[k].id /\ new[k].workspace = tabs[k].workspace
            /\ new[k].label = IF k = i THEN desired ELSE tabs[k].label
  BY <1>4
<1> HIDE DEF new, all
<1>9. Unique(new)  BY <1>4, <1>8 DEF Unique
<1>10. Formed([session EXCEPT !.tabs = new])
  BY <1>4, <1>7, <1>8, <1>9, TabsReplaced DEF SessionOK
<1>11. SessionOK'  BY <1>3, <1>10 DEF SessionOK
<1>12. /\ session'.tabs = new /\ session'.panes = session.panes
       /\ session'.layouts = session.layouts /\ session'.agents = session.agents
  BY <1>3, <1>4
<1> QED BY <1>1, <1>8, <1>11, <1>12 DEF tabs, desired

\* The steps that reach a context and rename no tab.
ReachOnly == PassOver \/ ProcessInfoFails \/ LeaveLabel \/ RenameRefused

(***************************************************************************)
(* Sessions start well formed.                                             *)
(***************************************************************************)
LEMMA SessionInit == Init => SessionOK
<1> SUFFICES ASSUME NEW s \in Sessions  PROVE  Formed(s)
  BY DEF Init, SessionOK
<1>1. /\ DOMAIN s = {"tabs", "panes", "layouts", "agents"}
      /\ s.tabs \in Seq(ToSet(s.tabs)) /\ Unique(s.tabs)
      /\ \A tab \in ToSet(s.tabs) :
            DOMAIN tab = {"id", "workspace", "label"} /\ tab.id \in DOMAIN s.layouts
      /\ s.panes \in Seq(ToSet(s.panes)) /\ Unique(s.panes)
      /\ \A pane \in ToSet(s.panes) : {"id", "tab"} \subseteq DOMAIN pane
      /\ \A tab \in DOMAIN s.layouts :
            /\ DOMAIN s.layouts[tab] = {"focused", "marked"}
            /\ s.layouts[tab].marked \in Seq(ToSet(s.layouts[tab].marked))
  BY SessionsAssumption
<1>2. /\ \A i \in DOMAIN s.tabs : s.tabs[i] \in ToSet(s.tabs)
      /\ \A i \in DOMAIN s.panes : s.panes[i] \in ToSet(s.panes)
  BY DEF ToSet
<1> QED BY <1>1, <1>2 DEF Formed

(***************************************************************************)
(* Sessions stay well formed.                                              *)
(***************************************************************************)
LEMMA SessionStep ==
  ASSUME SessionOK, [Next]_vars
  PROVE  SessionOK'
<1>1. CASE Herdr  BY <1>1, HerdrKeeps
<1>2. CASE RenameTab  BY <1>2, RenameKeeps
<1>3. CASE BeginAuto \/ BeginAction \/ TakeSnapshot
  <2>1. session' = session
    BY <1>3 DEF BeginAuto, BeginAction, Begin, TakeSnapshot
  <2> QED BY <2>1 DEF SessionOK
<1>4. CASE ReachOnly \/ Commit \/ TargetMissing
  <2>1. session' = session
    BY <1>4 DEF ReachOnly, PassOver, ProcessInfoFails, LeaveLabel, RenameRefused, Commit,
                TargetMissing, EndPass
  <2> QED BY <2>1 DEF SessionOK
<1>5. CASE UNCHANGED vars
  <2>1. session' = session  BY <1>5 DEF vars
  <2> QED BY <2>1 DEF SessionOK
<1> QED BY <1>1, <1>2, <1>3, <1>4, <1>5 DEF Next, ReachOnly

-----------------------------------------------------------------------------
(* Preview.                                                                *)

ContextFields ==
    {"tab", "workspace", "number", "label", "currentLabel", "pane", "cwd", "agent",
     "process", "leader"}

\* Outside the loop over the tabs there are no contexts; within it the next one is
\* among those built.
PassOK ==
    /\ pc \in {"idle", "snapshot", "tabs"}
    /\ pc # "tabs" => contexts = <<>> /\ reached = 0 /\ decision = Nothing
    /\ contexts \in Seq(ToSet(contexts)) /\ reached \in 0..Len(contexts)
    /\ \A i \in DOMAIN contexts : DOMAIN contexts[i] = ContextFields

\* What the pass did with the last tab follows from its context and its process.
DecisionOK ==
    decision # Nothing =>
        /\ DOMAIN decision.context = ContextFields
        /\ decision.action \in {"rename", "leave"} =>
              decision.label = Desired(decision.context, decision.info)
        /\ decision.action = "pass over" =>
              ~Eligible(Resolve(compiled, decision.context).mode)

(***************************************************************************)
(* The context a pass comes to is one it has built.                        *)
(***************************************************************************)
LEMMA ReachesOne ==
  ASSUME PassOK, pc = "tabs", reached < Len(contexts)
  PROVE  /\ reached + 1 \in DOMAIN contexts /\ reached + 1 \in 1..Len(contexts)
         /\ reached \in Nat /\ Len(contexts) \in Nat
         /\ Reached = contexts[reached + 1] /\ DOMAIN Reached = ContextFields
BY DEF PassOK, Reached

(***************************************************************************)
(* Every context has its ten fields.                                       *)
(***************************************************************************)
LEMMA BuildsFields ==
  ASSUME SessionOK, NEW hists
  PROVE  /\ Build(session, hists) \in Seq(ToSet(Build(session, hists)))
         /\ \A i \in DOMAIN Build(session, hists) :
               DOMAIN Build(session, hists)[i] = ContextFields
<1> DEFINE built == Build(session, hists)
<1>1. session.tabs \in Seq(ToSet(session.tabs))  BY DEF SessionOK, Formed
<1>2. /\ built \in Seq(ToSet(built)) /\ Len(built) = Len(session.tabs)
      /\ \A i \in 1..Len(session.tabs) :
            built[i] = Context(session, hists, session.tabs[i],
                               Position(session.tabs, i, session.tabs[i].workspace))
  BY <1>1, BuildsContexts
<1> HIDE DEF built
<1>3. DOMAIN built = 1..Len(session.tabs)  BY <1>2
<1>4. \A raw, number : DOMAIN Context(session, hists, raw, number) = ContextFields
  BY DEF Context, ContextFields
<1>5. \A i \in DOMAIN built : DOMAIN built[i] = ContextFields  BY <1>2, <1>3, <1>4
<1> QED BY <1>2, <1>5 DEF built

(***************************************************************************)
(* A pass stays within its contexts, and what it has decided on a tab is   *)
(* what the configuration asks for of that context. Commit and             *)
(* TargetMissing forget the decision; no other step changes what it        *)
(* depends on.                                                             *)
(***************************************************************************)
LEMMA PassStep ==
  ASSUME SessionOK, PassOK, DecisionOK, [Next]_vars
  PROVE  PassOK' /\ DecisionOK'
<1> USE DEF PassOK
<1>1. CASE Herdr \/ UNCHANGED vars
  <2>1. UNCHANGED <<compiled, pc, target, contexts, reached, decision>>
    BY <1>1, HerdrKeeps DEF pass, vars
  <2> QED BY <2>1 DEF DecisionOK, Desired, Eligible, Trigger
<1>2. CASE BeginAuto \/ BeginAction
  <2>1. pc = "idle" /\ pc' = "snapshot" /\ UNCHANGED <<contexts, reached, decision>>
    BY <1>2 DEF BeginAuto, BeginAction, Begin
  <2> QED BY <2>1 DEF DecisionOK
<1>3. CASE TakeSnapshot
  <2>1. /\ pc = "snapshot" /\ pc' = "tabs" /\ contexts' = Build(session, hist)
        /\ UNCHANGED <<reached, decision>>
    BY <1>3 DEF TakeSnapshot
  <2>2. /\ contexts' \in Seq(ToSet(contexts'))
        /\ \A i \in DOMAIN contexts' : DOMAIN contexts'[i] = ContextFields
    BY <2>1, BuildsFields
  <2>3. reached' = 0 /\ Len(contexts') \in Nat  BY <2>1, <2>2
  <2>4. reached' \in 0..Len(contexts')  BY <2>3
  <2> QED BY <2>1, <2>2, <2>4 DEF DecisionOK
<1>4. CASE ReachOnly \/ RenameTab
  <2>1. /\ pc = "tabs" /\ reached < Len(contexts) /\ reached' = reached + 1
        /\ UNCHANGED <<compiled, pc, target, contexts>>
    BY <1>4 DEF ReachOnly, PassOver, ProcessInfoFails, LeaveLabel, RenameRefused, RenameTab,
                Reach
  <2>2. reached' \in 0..Len(contexts) /\ DOMAIN Reached = ContextFields
    BY <2>1, ReachesOne
  <2>3. PassOK'  BY <2>1, <2>2
  <2>4. /\ decision'.context = Reached
        /\ decision'.action \in {"rename", "leave"} =>
              decision'.label = Desired(Reached, decision'.info)
        /\ decision'.action = "pass over" => ~Eligible(Resolve(compiled, Reached).mode)
    <3>0. \A action, label, info :
             Reach(action, label, info) =>
                /\ decision'.action = action /\ decision'.context = Reached
                /\ decision'.label = label /\ decision'.info = info
      BY DEF Reach
    <3>1. CASE PassOver
      <4>1. /\ Reach(IF Considered THEN "pass over" ELSE "ignore", Nothing, Nothing)
            /\ ~WorthQuerying
        BY <3>1 DEF PassOver
      <4>2. /\ decision'.action = IF Considered THEN "pass over" ELSE "ignore"
            /\ decision'.context = Reached
        BY <3>0, <4>1
      <4> QED BY <4>1, <4>2 DEF WorthQuerying
    <3>2. CASE ProcessInfoFails \/ RenameRefused
      <4>1. decision'.action = "fail" /\ decision'.context = Reached
        BY <3>0, <3>2 DEF ProcessInfoFails, RenameRefused
      <4> QED BY <4>1
    <3>3. CASE LeaveLabel
      <4>1. Reach("leave", Desired(Reached, InfoOf(Reached)), InfoOf(Reached))
        BY <3>3 DEF LeaveLabel
      <4>2. /\ decision'.action = "leave" /\ decision'.context = Reached
            /\ decision'.label = Desired(Reached, InfoOf(Reached))
            /\ decision'.info = InfoOf(Reached)
        BY <3>0, <4>1
      <4> QED BY <4>2
    <3>4. CASE RenameTab
      <4>1. Reach("rename", Desired(Reached, InfoOf(Reached)), InfoOf(Reached))
        BY <3>4 DEF RenameTab
      <4>2. /\ decision'.action = "rename" /\ decision'.context = Reached
            /\ decision'.label = Desired(Reached, InfoOf(Reached))
            /\ decision'.info = InfoOf(Reached)
        BY <3>0, <4>1
      <4> QED BY <4>2
    <3> QED BY <1>4, <3>1, <3>2, <3>3, <3>4 DEF ReachOnly
  <2>5. DecisionOK'
    BY <2>1, <2>2, <2>4 DEF DecisionOK, Desired, Eligible, Trigger
  <2> QED BY <2>3, <2>5
<1>5. CASE Commit \/ TargetMissing
  <2>1. pc' = "idle" /\ contexts' = <<>> /\ reached' = 0 /\ decision' = Nothing
    BY <1>5 DEF Commit, TargetMissing, EndPass
  <2>2. contexts' \in Seq(ToSet(contexts')) /\ DOMAIN contexts' = {} /\ Len(contexts') = 0
    BY <2>1
  <2>3. reached' \in 0..Len(contexts')  BY <2>1, <2>2
  <2>4. PassOK'  BY <2>1, <2>2, <2>3
  <2> QED BY <2>1, <2>4 DEF DecisionOK
<1> QED BY <1>1, <1>2, <1>3, <1>4, <1>5 DEF Next, ReachOnly

(***************************************************************************)
(* Where no profile that matches on the process sets the mode, the mode    *)
(* does not depend on the process.                                         *)
(***************************************************************************)
LEMMA ModeWithoutProcess ==
  ASSUME CompiledOK, ~ProcessSetsMode, NEW context, DOMAIN context = ContextFields, NEW info
  PROVE  Resolve(compiled, AttachProcess(context, info)).mode = Resolve(compiled, context).mode
<1> DEFINE known == AttachProcess(context, info)
           Setters(c) == {i \in MatchedBy(compiled, c) : compiled.profiles[i].mode # Nothing}
<1>1. \A c \in Categories \ {"process"} : Subject(known)[c] = Subject(context)[c]
  BY DEF AttachProcess, ContextFields, Subject, Categories
<1>2. \A i \in DOMAIN compiled.profiles :
         compiled.profiles[i].mode # Nothing => compiled.profiles[i].match["process"] = {}
  BY DEF ProcessSetsMode
<1> HIDE DEF known
<1>3. Setters(known) = Setters(context)
  BY <1>1, <1>2 DEF MatchedBy
<1>4. \A c : LastToSet(compiled, {"mode"}, MatchedBy(compiled, c)) =
                IF Setters(c) = {} THEN 0 ELSE Max(Setters(c))
  BY DEF LastToSet
<1> HIDE DEF Setters
<1>5. AsDeclared(compiled, known).mode = AsDeclared(compiled, context).mode
  BY <1>3, <1>4 DEF AsDeclared
<1> QED BY <1>5, CompiledResolves DEF known

(***************************************************************************)
(* SessionOK, PassOK and DecisionOK always hold.                           *)
(***************************************************************************)
LEMMA PassInvariant == Spec => [](SessionOK /\ PassOK /\ DecisionOK)
<1>1. Init => SessionOK /\ PassOK /\ DecisionOK
  <2>1. Init => PassOK /\ DecisionOK
    BY DEF Init, PassOK, DecisionOK
  <2> QED BY <2>1, SessionInit
<1>2. SessionOK /\ PassOK /\ DecisionOK /\ [Next]_vars => (SessionOK /\ PassOK /\ DecisionOK)'
  BY SessionStep, PassStep
<1> QED BY <1>1, <1>2, PTL DEF Spec

(***************************************************************************)
(* For every session and file: a label that a pass writes or leaves is the *)
(* one that preview prints for that context and process, and for a tab it  *)
(* passes over because of its mode preview prints a mode that writes no    *)
(* label, unless a profile makes the mode depend on the process.           *)
(***************************************************************************)
THEOREM PreviewIsWhatIsWritten == Spec => []PreviewAgrees
<1>1. CompiledOK /\ DecisionOK => PreviewAgrees
  <2> SUFFICES ASSUME CompiledOK, DecisionOK, decision # Nothing  PROVE  PreviewAgrees
    BY DEF PreviewAgrees
  <2>1. ASSUME decision.action \in {"rename", "leave"}
        PROVE  LET preview == Preview(decision.context, decision.info)
               IN  decision.label = IF Eligible(preview.mode) THEN preview.label ELSE Nothing
    BY <2>1 DEF DecisionOK, Desired, Preview
  <2>2. ASSUME decision.action = "pass over", ~ProcessSetsMode, NEW info
        PROVE  ~Eligible(Preview(decision.context, info).mode)
    <3>1. ~Eligible(Resolve(compiled, decision.context).mode)  BY <2>2 DEF DecisionOK
    <3>2. DOMAIN decision.context = ContextFields  BY DEF DecisionOK
    <3>3. Preview(decision.context, info).mode
             = Resolve(compiled, AttachProcess(decision.context, info)).mode
      BY DEF Preview
    <3> QED BY <2>2, <3>1, <3>2, <3>3, ModeWithoutProcess
  <2> QED BY <2>1, <2>2 DEF PreviewAgrees
<1> QED BY <1>1, CompiledInvariant, PassInvariant, PTL

-----------------------------------------------------------------------------
(* What the plugin remembers.                                              *)

(***************************************************************************)
(* The hypothesis of what follows, about the values that the model chooses *)
(* to stand for the code's: a rendered label is a record of what it shows, *)
(* so it is none of the user's.  (In the code both are strings; a user who *)
(* types the very label that the plugin has written is not told apart.)    *)
(* The model value Nothing is neither a label nor an entry.                *)
(***************************************************************************)
Distinct ==
    /\ \A source, rendered : [source |-> source, rendered |-> rendered] # Nothing
    /\ \A maxWidth, text : [maxWidth |-> maxWidth, text |-> text] \notin Names \cup {Nothing}

\* A pass works on the history that is still on file; what was rendered is never a
\* label of the user's.
HistoryOK ==
    /\ DOMAIN history = TabIds /\ DOMAIN updates = TabIds /\ DOMAIN seen = TabIds
    /\ \A t \in TabIds : history[t] # Nothing => history[t].rendered \notin Names
    /\ \A t \in TabIds : updates[t] # Nothing => updates[t].rendered \notin Names
    /\ pc # "idle" => hist = history
    /\ pc # "tabs" => updates = NoEntries

\* The contexts are of different tabs, carry the last label the user gave them, and
\* leave out no tab with a label of the plugin's. For those to come nothing is to be
\* merged yet.
ContextsOK ==
    /\ \A i, j \in DOMAIN contexts : contexts[i].tab = contexts[j].tab => i = j
    /\ \A i \in DOMAIN contexts :
          /\ contexts[i].tab \in TabIds
          /\ contexts[i].label = seen[contexts[i].tab]
          /\ i > reached => updates[contexts[i].tab] = Nothing
    /\ pc = "tabs" =>
          \A k \in DOMAIN session.tabs :
              session.tabs[k].label \notin Names => session.tabs[k].id \in Live

\* The state file knows that the label is the plugin's, and the user's label that
\* it replaced.
Filed(t, label) ==
    history[t] = [source |-> seen[t], rendered |-> label] /\ updates[t] = Nothing

\* The pass in progress has written the label and will file it so.
Written(t, label) ==
    /\ pc = "tabs"
    /\ updates[t] = [source |-> seen[t], rendered |-> label]
    /\ target \in {Nothing, t}
    /\ \E i \in 1..reached : contexts[i].tab = t

\* Tab t has the label.
Shows(t, label) ==
    \E k \in DOMAIN session.tabs : session.tabs[k].id = t /\ session.tabs[k].label = label

\* Each label that is not the user's is on file or will be when the pass commits.
MemoryOK ==
    \A t, label : Shows(t, label) /\ label \notin Names => Filed(t, label) \/ Written(t, label)

Memory == HistoryOK /\ ContextsOK /\ MemoryOK

(***************************************************************************)
(* Every tab of the session has a layout.                                  *)
(***************************************************************************)
LEMMA TabsAreKnown ==
  ASSUME SessionOK
  PROVE  Tabs \subseteq TabIds /\ \A k \in DOMAIN session.tabs : session.tabs[k].id \in Tabs
BY DEF SessionOK, Formed, Tabs, TabIds

(***************************************************************************)
(* What a snapshot shows of labels: a label of the user's is the tab's     *)
(* source label from then on; one of the plugin's is filed, so the source  *)
(* label is the one remembered.                                            *)
(***************************************************************************)
LEMMA SnapshotLabels ==
  ASSUME Distinct, SessionOK, Memory, TakeSnapshot
  PROVE  /\ DOMAIN seen' = TabIds
         /\ \A k \in DOMAIN session.tabs :
               LET t     == session.tabs[k].id
                   label == session.tabs[k].label
               IN  /\ seen'[t] = IF label \in Names THEN label ELSE seen[t]
                   /\ SourceLabel(hist, session.tabs[k]) = seen'[t]
                   /\ label \notin Names => Filed(t, label)
         /\ \A t \in TabIds \ Tabs : seen'[t] = seen[t]
<1>1. /\ pc = "snapshot" /\ hist = history
      /\ seen' = [t \in TabIds |-> IF t \in Tabs /\ LabelOf(t) \in Names THEN LabelOf(t)
                                   ELSE seen[t]]
  BY DEF TakeSnapshot, Memory, HistoryOK
<1>2. ASSUME NEW k \in DOMAIN session.tabs
      PROVE  LET t     == session.tabs[k].id
                 label == session.tabs[k].label
             IN  /\ seen'[t] = IF label \in Names THEN label ELSE seen[t]
                 /\ SourceLabel(hist, session.tabs[k]) = seen'[t]
                 /\ label \notin Names => Filed(t, label)
  <2> DEFINE t == session.tabs[k].id
             label == session.tabs[k].label
  <2>1. t \in Tabs /\ t \in TabIds /\ LabelOf(t) = label
    BY TabsAreKnown, IndexIs
  <2>2. SourceLabel(hist, session.tabs[k]) =
           IF history[t] # Nothing /\ label = history[t].rendered THEN history[t].source
           ELSE label
    BY <1>1 DEF SourceLabel
  <2> HIDE DEF t, label
  <2>3. seen'[t] = IF label \in Names THEN label ELSE seen[t]
    BY <1>1, <2>1
  <2>4. label \notin Names => Filed(t, label)
    BY <1>1 DEF Memory, MemoryOK, Shows, Written, t, label
  <2>5. CASE label \in Names
    <3>1. history[t] # Nothing => history[t].rendered # label
      BY <2>1, <2>5 DEF Memory, HistoryOK
    <3> QED BY <2>2, <2>3, <2>5, <3>1 DEF t, label
  <2>6. CASE label \notin Names
    <3>1. history[t] = [source |-> seen[t], rendered |-> label]
      BY <2>4, <2>6 DEF Filed
    <3>2. history[t] # Nothing  BY <3>1 DEF Distinct
    <3>3. history[t].source = seen[t] /\ history[t].rendered = label  BY <3>1
    <3> QED BY <2>2, <2>3, <2>4, <2>6, <3>2, <3>3 DEF t, label
  <2> QED BY <2>5, <2>6
<1>3. DOMAIN seen' = TabIds /\ \A t \in TabIds \ Tabs : seen'[t] = seen[t]
  BY <1>1
<1> QED BY <1>2, <1>3

(***************************************************************************)
(* What a context says of labels.                                          *)
(***************************************************************************)
LEMMA ContextIs ==
  ASSUME NEW snapshot, NEW hists, NEW raw, NEW number
  PROVE  /\ Context(snapshot, hists, raw, number).tab = raw.id
         /\ Context(snapshot, hists, raw, number).label = SourceLabel(hists, raw)
         /\ Context(snapshot, hists, raw, number).currentLabel = raw.label
BY DEF Context

(***************************************************************************)
(* A label that is shown is shown on one tab.                              *)
(***************************************************************************)
LEMMA ShownIsKnown ==
  ASSUME SessionOK, NEW t, NEW label, Shows(t, label)
  PROVE  t \in TabIds /\ t \in Tabs /\ LabelOf(t) = label
BY TabsAreKnown, IndexIs DEF Shows

(***************************************************************************)
(* The contexts of a pass, one for each tab, numbered by the tabs'         *)
(* positions.                                                              *)
(***************************************************************************)
LEMMA SnapshotContexts ==
  ASSUME SessionOK, TakeSnapshot
  PROVE  /\ DOMAIN contexts' = DOMAIN session.tabs
         /\ \A k \in DOMAIN session.tabs :
               contexts'[k] = Context(session, hist, session.tabs[k],
                                      Position(session.tabs, k, session.tabs[k].workspace))
<1>1. session.tabs \in Seq(ToSet(session.tabs)) /\ contexts' = Build(session, hist)
  BY DEF SessionOK, Formed, TakeSnapshot
<1>2. DOMAIN session.tabs = 1..Len(session.tabs)  BY <1>1
<1>3. /\ contexts' \in Seq(ToSet(contexts')) /\ Len(contexts') = Len(session.tabs)
      /\ \A i \in 1..Len(session.tabs) :
            contexts'[i] = Context(session, hist, session.tabs[i],
                                   Position(session.tabs, i, session.tabs[i].workspace))
  BY <1>1, BuildsContexts
<1>4. DOMAIN contexts' = 1..Len(session.tabs)  BY <1>3
<1> QED BY <1>2, <1>3, <1>4

(***************************************************************************)
(* A source label that is on file already is not recorded again.           *)
(***************************************************************************)
LEMMA ObservesNothing ==
  ASSUME Distinct, NEW context, NEW source, NEW rendered,
         hist[context.tab] = [source |-> source, rendered |-> rendered],
         context.label = source
  PROVE  Observed(context) = Nothing
<1>1. hist[context.tab] # Nothing /\ hist[context.tab].source = source  BY DEF Distinct
<1> QED BY <1>1 DEF Observed

(***************************************************************************)
(* Recording a source label does not make a label of the user's one that   *)
(* the plugin wrote.                                                       *)
(***************************************************************************)
LEMMA ObservesUnwritten ==
  ASSUME NEW context, Observed(context) # Nothing,
         hist[context.tab] # Nothing => hist[context.tab].rendered \notin Names
  PROVE  Observed(context).rendered \notin Names
<1>1. Observed(context) = [source |-> context.label,
                           rendered |-> IF hist[context.tab] = Nothing THEN Nothing
                                        ELSE hist[context.tab].rendered]
  BY DEF Observed
<1> QED BY <1>1, NamesAssumption

(***************************************************************************)
(* A label that a pass asks for is none of the user's.                     *)
(***************************************************************************)
LEMMA DesiredIsRendered ==
  ASSUME Distinct, NEW context, NEW info, Desired(context, info) # Nothing
  PROVE  Desired(context, info) \notin Names
BY DEF Desired, Execute, Distinct

(***************************************************************************)
(* Every step keeps Memory. RenameTab, which is where the plugin's labels  *)
(* come from, files what it writes in the updates; Commit moves that to    *)
(* the file because a tab with such a label was in the pass's snapshot;    *)
(* TargetMissing, which drops the updates, has none that matter, for the   *)
(* pass wrote to no tab.                                                   *)
(***************************************************************************)
LEMMA MemoryStep ==
  ASSUME Distinct, SessionOK, PassOK, Memory, [Next]_vars
  PROVE  Memory'
<1>0. /\ HistoryOK /\ ContextsOK /\ MemoryOK  BY DEF Memory
<1>1. CASE Herdr
  <2>1. /\ SessionOK' /\ Stays(session, session')
        /\ UNCHANGED <<history, pc, target, hist, contexts, reached, updates, seen>>
    BY <1>1, HerdrKeeps DEF pass
  <2>2. TabIds' = TabIds  BY <2>1 DEF Stays, TabIds
  <2>3. pc = "tabs" =>
           \A k \in DOMAIN session'.tabs :
              session'.tabs[k].label \notin Names => session'.tabs[k].id \in Live
    BY <1>0, <2>1 DEF Stays, ContextsOK
  <2>4. HistoryOK'  BY <1>0, <2>1, <2>2 DEF HistoryOK, NoEntries
  <2>5. ContextsOK'  BY <1>0, <2>1, <2>2, <2>3 DEF ContextsOK, Live
  <2>6. MemoryOK'
    <3> SUFFICES ASSUME NEW t, NEW label, Shows(t, label)', label \notin Names
                 PROVE  Filed(t, label) \/ Written(t, label)
      BY <2>1 DEF MemoryOK, Filed, Written
    <3>1. Shows(t, label)  BY <2>1 DEF Shows, Stays
    <3> QED BY <1>0, <3>1 DEF MemoryOK
  <2> QED BY <2>4, <2>5, <2>6 DEF Memory
<1>2. CASE BeginAuto \/ BeginAction
  <2>1. /\ pc = "idle" /\ pc' = "snapshot" /\ hist' = history
        /\ UNCHANGED <<session, history, contexts, reached, updates, seen>>
    BY <1>2 DEF BeginAuto, BeginAction, Begin
  <2>2. HistoryOK'  BY <1>0, <2>1 DEF HistoryOK, NoEntries, TabIds
  <2>3. ContextsOK'  BY <1>0, <2>1 DEF ContextsOK, TabIds
  <2>4. MemoryOK'  BY <1>0, <2>1 DEF MemoryOK, Shows, Filed, Written
  <2> QED BY <2>2, <2>3, <2>4 DEF Memory
<1>3. CASE TakeSnapshot
  <2>1. /\ pc = "snapshot" /\ pc' = "tabs"
        /\ UNCHANGED <<session, history, target, hist, reached, updates>>
    BY <1>3 DEF TakeSnapshot
  <2>2. /\ DOMAIN seen' = TabIds
        /\ \A k \in DOMAIN session.tabs :
              /\ seen'[session.tabs[k].id] = IF session.tabs[k].label \in Names
                                             THEN session.tabs[k].label
                                             ELSE seen[session.tabs[k].id]
              /\ SourceLabel(hist, session.tabs[k]) = seen'[session.tabs[k].id]
              /\ session.tabs[k].label \notin Names =>
                    Filed(session.tabs[k].id, session.tabs[k].label)
    BY <1>0, <1>3, SnapshotLabels
  <2>3. /\ DOMAIN contexts' = DOMAIN session.tabs
        /\ \A k \in DOMAIN session.tabs :
              contexts'[k] = Context(session, hist, session.tabs[k],
                                     Position(session.tabs, k, session.tabs[k].workspace))
    BY <1>3, SnapshotContexts
  <2>4. \A k \in DOMAIN session.tabs :
           /\ contexts'[k].tab = session.tabs[k].id
           /\ contexts'[k].label = seen'[session.tabs[k].id]
    BY <2>2, <2>3, ContextIs
  <2>5. updates = NoEntries  BY <1>0, <2>1 DEF HistoryOK
  <2>6. HistoryOK'
    BY <1>0, <2>1, <2>2 DEF HistoryOK, TabIds
  <2>7. ContextsOK'
    <3>1. \A i, j \in DOMAIN contexts' : contexts'[i].tab = contexts'[j].tab => i = j
      BY <2>3, <2>4 DEF SessionOK, Formed, Unique
    <3>2. \A i \in DOMAIN contexts' :
             /\ contexts'[i].tab \in TabIds
             /\ contexts'[i].label = seen'[contexts'[i].tab]
             /\ updates[contexts'[i].tab] = Nothing
      BY <2>3, <2>4, <2>5, TabsAreKnown DEF NoEntries
    <3>3. Tabs \subseteq Live'  BY <2>3, <2>4 DEF Tabs, Live
    <3> QED BY <2>1, <3>1, <3>2, <3>3 DEF ContextsOK, TabIds, Tabs
  <2>8. MemoryOK'
    <3> SUFFICES ASSUME NEW t, NEW label, Shows(t, label), label \notin Names
                 PROVE  Filed(t, label)'
      BY <2>1 DEF MemoryOK, Shows
    <3>1. seen'[t] = seen[t] /\ Filed(t, label)  BY <2>2 DEF Shows
    <3> QED BY <2>1, <3>1 DEF Filed
  <2> QED BY <2>6, <2>7, <2>8 DEF Memory
<1>4. CASE ReachOnly \/ RenameTab
  <2>0. PICK t : t = Reached.tab  OBVIOUS
  <2> DEFINE entry == updates'[t]
  <2>1. /\ pc = "tabs" /\ reached < Len(contexts) /\ reached' = reached + 1
        /\ UNCHANGED <<history, pc, target, hist, contexts, seen>>
    BY <1>4 DEF ReachOnly, PassOver, ProcessInfoFails, LeaveLabel, RenameRefused, RenameTab,
                Reach
  <2>2. /\ reached + 1 \in DOMAIN contexts /\ reached \in Nat /\ Reached = contexts[reached + 1]
        /\ DOMAIN contexts = 1..Len(contexts) /\ Len(contexts) \in Nat
    BY <2>1, ReachesOne DEF PassOK
  <2>3. /\ t \in TabIds /\ Reached.label = seen[t] /\ updates[t] = Nothing
    BY <1>0, <2>0, <2>2 DEF ContextsOK
  <2>4. hist = history /\ DOMAIN updates = TabIds  BY <1>0, <2>1 DEF HistoryOK
  <2>5. \/ /\ ReachOnly /\ session' = session
           /\ updates' = [updates EXCEPT ![t] = Observed(Reached)]
        \/ /\ RenameTab
           /\ updates' = [updates EXCEPT
                            ![t] = [source   |-> seen[t],
                                    rendered |-> Desired(Reached, InfoOf(Reached))]]
           /\ Desired(Reached, InfoOf(Reached)) # Nothing /\ Considered
    BY <1>4, <2>0, <2>3 DEF ReachOnly, PassOver, ProcessInfoFails, LeaveLabel, RenameRefused,
                            RenameTab, WorthQuerying
  <2>6. /\ DOMAIN updates' = TabIds
        /\ \A u \in TabIds : u # t => updates'[u] = updates[u]
    BY <2>4, <2>5
  <2>7. entry # Nothing => entry.rendered \notin Names
    <3>1. ASSUME updates' = [updates EXCEPT ![t] = Observed(Reached)]
          PROVE  entry # Nothing => entry.rendered \notin Names
      <4>1. entry = Observed(Reached)  BY <2>3, <2>4, <3>1
      <4>2. hist[t] # Nothing => hist[t].rendered \notin Names
        BY <1>0, <2>3, <2>4 DEF HistoryOK
      <4> QED BY <2>0, <4>1, <4>2, ObservesUnwritten
    <3>2. ASSUME updates' = [updates EXCEPT
                               ![t] = [source   |-> seen[t],
                                       rendered |-> Desired(Reached, InfoOf(Reached))]],
                 Desired(Reached, InfoOf(Reached)) # Nothing
          PROVE  entry.rendered \notin Names
      <4>1. entry.rendered = Desired(Reached, InfoOf(Reached))  BY <2>3, <2>4, <3>2
      <4> QED BY <3>2, <4>1, DesiredIsRendered
    <3> QED BY <2>5, <3>1, <3>2
  <2>8. TabIds' = TabIds /\ Tabs' = Tabs
    <3>1. CASE RenameTab
      <4>1. /\ session'.layouts = session.layouts /\ DOMAIN session'.tabs = DOMAIN session.tabs
            /\ \A k \in DOMAIN session.tabs : session'.tabs[k].id = session.tabs[k].id
        BY <3>1, RenameKeeps
      <4> QED BY <4>1 DEF TabIds, Tabs
    <3>2. CASE session' = session  BY <3>2 DEF TabIds, Tabs
    <3> QED BY <2>5, <3>1, <3>2
  <2> HIDE DEF entry
  <2>9. HistoryOK'
    <3>1. \A u \in TabIds : updates'[u] # Nothing => updates'[u].rendered \notin Names
      BY <1>0, <2>6, <2>7 DEF HistoryOK, entry
    <3> QED BY <1>0, <2>1, <2>6, <2>8, <3>1 DEF HistoryOK
  <2>10. ContextsOK'
    <3>1. ASSUME NEW i \in DOMAIN contexts, i > reached + 1
          PROVE  updates'[contexts[i].tab] = Nothing
      <4>1. i \in Nat /\ i # reached + 1 /\ i > reached  BY <2>2, <3>1
      <4>2. contexts[i].tab # t /\ contexts[i].tab \in TabIds /\ updates[contexts[i].tab] = Nothing
        BY <1>0, <2>0, <2>2, <4>1 DEF ContextsOK
      <4> QED BY <2>6, <4>2
    <3>2. Reached.tab \in Live  BY <2>2 DEF Live
    <3>3. ASSUME NEW k \in DOMAIN session'.tabs, session'.tabs[k].label \notin Names
          PROVE  session'.tabs[k].id \in Live
      <4>1. CASE RenameTab
        <5>1. PICK i \in DOMAIN session.tabs :
                 /\ session.tabs[i].id = Reached.tab
                 /\ DOMAIN session'.tabs = DOMAIN session.tabs
                 /\ session'.tabs[k].id = session.tabs[k].id
                 /\ k # i => session'.tabs[k].label = session.tabs[k].label
          BY <3>3, <4>1, RenameKeeps
        <5> QED BY <1>0, <2>1, <3>2, <3>3, <5>1 DEF ContextsOK
      <4>2. CASE session' = session  BY <1>0, <2>1, <3>3, <4>2 DEF ContextsOK
      <4> QED BY <2>5, <4>1, <4>2
    <3>4. Live' = Live  BY <2>1 DEF Live
    <3> QED BY <1>0, <2>1, <2>8, <3>1, <3>3, <3>4 DEF ContextsOK
  <2>11. ASSUME NEW u \in TabIds, NEW label, u # t
         PROVE  /\ Filed(u, label) => Filed(u, label)'
                /\ Written(u, label) => Written(u, label)'
    <3>1. \A i \in 1..reached : i \in 1..reached + 1  BY <2>2
    <3> QED BY <2>1, <2>6, <2>11, <3>1 DEF Filed, Written
  <2>12. MemoryOK'
    <3>1. CASE /\ ReachOnly /\ session' = session
               /\ updates' = [updates EXCEPT ![t] = Observed(Reached)]
      <4> SUFFICES ASSUME NEW u, NEW label, Shows(u, label), label \notin Names
                   PROVE  Filed(u, label)' \/ Written(u, label)'
        BY <3>1 DEF MemoryOK, Shows
      <4>1. u \in TabIds /\ (Filed(u, label) \/ Written(u, label))
        BY <1>0, ShownIsKnown DEF MemoryOK
      <4>2. CASE u # t  BY <2>11, <4>1, <4>2
      <4>3. CASE u = t
        <5>1. ~Written(t, label)  BY <2>3 DEF Written, Distinct
        <5>2. history[t] = [source |-> seen[t], rendered |-> label]
          BY <4>1, <4>3, <5>1 DEF Filed
        <5>3. Observed(Reached) = Nothing
          BY <2>0, <2>3, <2>4, <5>2, ObservesNothing
        <5>4. updates'[t] = Nothing  BY <2>3, <2>4, <3>1, <5>3
        <5>5. Filed(t, label)'  BY <2>1, <5>2, <5>4 DEF Filed
        <5> QED BY <4>3, <5>5
      <4> QED BY <4>2, <4>3
    <3>2. CASE /\ RenameTab
               /\ updates' = [updates EXCEPT
                                ![t] = [source   |-> seen[t],
                                        rendered |-> Desired(Reached, InfoOf(Reached))]]
               /\ Considered
      <4>0. PICK desired : desired = Desired(Reached, InfoOf(Reached))  OBVIOUS
      <4>1. PICK i \in DOMAIN session.tabs :
               /\ session.tabs[i].id = t
               /\ DOMAIN session'.tabs = DOMAIN session.tabs
               /\ \A k \in DOMAIN session.tabs :
                     /\ session'.tabs[k].id = session.tabs[k].id
                     /\ session'.tabs[k].label = IF k = i THEN desired ELSE session.tabs[k].label
        BY <2>0, <3>2, <4>0, RenameKeeps
      <4>2. Written(t, desired)'
        <5>1. updates'[t] = [source |-> seen[t], rendered |-> desired]
          BY <2>3, <2>4, <3>2, <4>0
        <5>2. target \in {Nothing, t}  BY <2>0, <3>2 DEF Considered
        <5>3. reached + 1 \in 1..reached' /\ contexts[reached + 1].tab = t  BY <2>0, <2>1, <2>2
        <5> QED BY <2>1, <5>1, <5>2, <5>3 DEF Written
      <4> SUFFICES ASSUME NEW u, NEW label, Shows(u, label)', label \notin Names
                   PROVE  Filed(u, label)' \/ Written(u, label)'
        BY DEF MemoryOK
      <4>3. PICK k \in DOMAIN session.tabs :
               session'.tabs[k].id = u /\ session'.tabs[k].label = label
        BY <4>1 DEF Shows
      <4>4. CASE k = i
        <5>1. u = t /\ label = desired  BY <4>1, <4>3, <4>4
        <5> QED BY <4>2, <5>1
      <4>5. CASE k # i
        <5>1. session.tabs[k].id = u /\ session.tabs[k].label = label  BY <4>1, <4>3, <4>5
        <5>2. u # t  BY <4>1, <4>5, <5>1 DEF SessionOK, Formed, Unique
        <5>3. Shows(u, label)  BY <5>1 DEF Shows
        <5>4. u \in TabIds /\ (Filed(u, label) \/ Written(u, label))
          BY <1>0, <5>3, ShownIsKnown DEF MemoryOK
        <5> QED BY <2>11, <5>2, <5>4
      <4> QED BY <4>4, <4>5
    <3> QED BY <2>5, <3>1, <3>2
  <2> QED BY <2>9, <2>10, <2>12 DEF Memory
<1>5. CASE Commit \/ TargetMissing
  <2>1. /\ pc = "tabs" /\ reached = Len(contexts)
        /\ pc' = "idle" /\ contexts' = <<>> /\ updates' = NoEntries /\ UNCHANGED <<session, seen>>
    BY <1>5 DEF Commit, TargetMissing, EndPass
  <2>2. TabIds' = TabIds  BY <2>1 DEF TabIds
  <2>3. \A t \in TabIds : updates'[t] = Nothing  BY <2>1 DEF NoEntries
  <2>4. ContextsOK'  BY <2>1 DEF ContextsOK
  <2>5. /\ DOMAIN history' = TabIds
        /\ \A t \in TabIds : history'[t] # Nothing => history'[t].rendered \notin Names
    <3>1. CASE Commit
      <4>1. history' = [t \in TabIds |-> IF t \notin Live THEN Nothing
                                         ELSE Coalesce(updates[t], history[t])]
        BY <3>1 DEF Commit
      <4> QED BY <1>0, <4>1 DEF HistoryOK, Coalesce
    <3>2. CASE TargetMissing  BY <1>0, <3>2 DEF HistoryOK, TargetMissing
    <3> QED BY <1>5, <3>1, <3>2
  <2>6. HistoryOK'
    BY <1>0, <2>1, <2>2, <2>3, <2>5 DEF HistoryOK, NoEntries
  <2>7. ASSUME NEW u, NEW label, Shows(u, label), label \notin Names
        PROVE  u \in TabIds /\ history'[u] = [source |-> seen[u], rendered |-> label]
    <3>1. u \in TabIds /\ u \in Tabs /\ (Filed(u, label) \/ Written(u, label))
      BY <1>0, <2>7, ShownIsKnown DEF MemoryOK
    <3>2. u \in Live  BY <1>0, <2>1, <2>7 DEF ContextsOK, Shows
    <3>3. CASE Commit
      <4>1. history'[u] = Coalesce(updates[u], history[u])  BY <3>1, <3>2, <3>3 DEF Commit
      <4>2. CASE Filed(u, label)  BY <3>1, <4>1, <4>2 DEF Filed, Coalesce
      <4>3. CASE Written(u, label)  BY <3>1, <4>1, <4>3 DEF Written, Coalesce, Distinct
      <4> QED BY <3>1, <4>2, <4>3
    <3>4. CASE TargetMissing
      <4>1. target # Nothing /\ target \notin Live /\ history' = history
        BY <3>4 DEF TargetMissing
      <4>2. ~Written(u, label)  BY <3>2, <4>1 DEF Written
      <4> QED BY <3>1, <4>1, <4>2 DEF Filed
    <3> QED BY <1>5, <3>3, <3>4
  <2>8. MemoryOK'
    <3> SUFFICES ASSUME NEW u, NEW label, Shows(u, label), label \notin Names
                 PROVE  Filed(u, label)'
      BY <2>1 DEF MemoryOK, Shows
    <3> QED BY <2>1, <2>3, <2>7 DEF Filed
  <2> QED BY <2>4, <2>6, <2>8 DEF Memory
<1>6. CASE UNCHANGED vars
  <2>1. UNCHANGED <<session, history, pc, target, hist, contexts, reached, updates, seen>>
    BY <1>6 DEF vars, pass
  <2>2. HistoryOK'  BY <1>0, <2>1 DEF HistoryOK, TabIds, NoEntries
  <2>3. ContextsOK'  BY <1>0, <2>1 DEF ContextsOK, TabIds, Tabs, Live
  <2>4. MemoryOK'  BY <1>0, <2>1 DEF MemoryOK, Shows, Filed, Written
  <2> QED BY <2>2, <2>3, <2>4 DEF Memory
<1> QED BY <1>1, <1>2, <1>3, <1>4, <1>5, <1>6 DEF Next, ReachOnly

(***************************************************************************)
(* At first every label is the user's and nothing is on file.              *)
(***************************************************************************)
LEMMA MemoryInit == Init => Memory
<1> SUFFICES ASSUME Init  PROVE  Memory  OBVIOUS
<1>1. \A t \in TabIds : NoEntries[t] = Nothing  BY DEF NoEntries
<1>2. DOMAIN NoEntries = TabIds  BY DEF NoEntries
<1>3. HistoryOK  BY <1>1, <1>2 DEF Init, HistoryOK
<1>4. ContextsOK  BY DEF Init, ContextsOK
<1>5. \A k \in DOMAIN session.tabs : session.tabs[k].label \in Names
  <2>1. \A k \in DOMAIN session.tabs : session.tabs[k] \in ToSet(session.tabs)  BY DEF ToSet
  <2> QED BY <2>1, SessionsAssumption DEF Init
<1> QED BY <1>3, <1>4, <1>5 DEF Memory, MemoryOK, Shows

-----------------------------------------------------------------------------
(* Labels.                                                                 *)

\* c and d differ at most in the current label of the tab.
Alike(c, d) == \A f \in ContextFields \ {"currentLabel"} : c[f] = d[f]

\* c is what a pass would make of now before it asks for the process.
Unprobed(c, now) ==
    /\ \A f \in ContextFields \ {"currentLabel", "process", "leader"} : c[f] = now[f]
    /\ c.process = Nothing /\ c.leader = Nothing

\* A tab with the context now shows what its configuration asks for.
Shown(config, now, label) ==
    AsDeclared(config, now).mode = "auto"
      /\ AsDeclared(config, [now EXCEPT !.process = Nothing]).mode = "auto"
    => label = Execute(AsDeclared(config, now), now)

Told(i) == Shown(compiled, ContextNow(i), session.tabs[i].label)

\* The last labels of the user's that a snapshot has shown are those there are now.
SeenOK ==
    \A i \in DOMAIN session.tabs :
        session.tabs[i].label \in Names => session.tabs[i].label = seen[session.tabs[i].id]

\* The contexts of the pass are up to date, but for the process; the labels of the
\* tabs it has come to are right, and the others have not changed.
ProbesOK ==
    /\ DOMAIN contexts = DOMAIN session.tabs
    /\ \A i \in DOMAIN session.tabs :
          /\ Unprobed(contexts[i], ContextNow(i))
          /\ i > reached => contexts[i].currentLabel = session.tabs[i].label
          /\ i <= reached => Told(i)

\* Every tab shows the right label.
ToldOK == \A i \in DOMAIN session.tabs : Told(i)

\* While nothing has changed since a pass of the daemon began, its contexts are up
\* to date, and once it is done every label is right.
QuietOK ==
    /\ edits \in Nat
    /\ quiet \in {"no", "pass", "yes"}
    /\ quiet # "no" => target = Nothing
    /\ quiet = "pass" => pc # "idle"
    /\ quiet # "no" /\ pc = "tabs" => SeenOK /\ ProbesOK
    /\ quiet = "yes" => SeenOK /\ ToldOK

(***************************************************************************)
(* Profiles see no more of a context than its subject.                     *)
(***************************************************************************)
LEMMA AlikeResolve ==
  ASSUME NEW c, NEW d, Subject(c) = Subject(d), NEW config
  PROVE  AsDeclared(config, c) = AsDeclared(config, d)
<1>1. MatchedBy(config, c) = MatchedBy(config, d)  BY DEF MatchedBy
<1> QED BY <1>1 DEF AsDeclared

(***************************************************************************)
(* Neither profiles nor templates see the current label of a tab.          *)
(***************************************************************************)
LEMMA AlikeLabels ==
  ASSUME NEW c, NEW d, Alike(c, d), NEW effective
  PROVE  Subject(c) = Subject(d) /\ Execute(effective, c) = Execute(effective, d)
<1>1. /\ c.number = d.number /\ c.cwd = d.cwd /\ c.label = d.label /\ c.leader = d.leader
      /\ c.agent = d.agent /\ c.process = d.process /\ c.workspace = d.workspace
  BY DEF Alike, ContextFields
<1>2. Subject(c) = Subject(d)  BY <1>1 DEF Subject
<1>3. \A profile : Fields(c, profile) = Fields(d, profile)  BY <1>1 DEF Fields
<1> QED BY <1>2, <1>3 DEF Execute

(***************************************************************************)
(* Whether a label is the right one does not depend on the label the tab   *)
(* has.                                                                    *)
(***************************************************************************)
LEMMA ShownAlike ==
  ASSUME NEW c, NEW d, Alike(c, d), DOMAIN c = ContextFields, DOMAIN d = ContextFields,
         NEW config, NEW label, Shown(config, c, label)
  PROVE  Shown(config, d, label)
<1> DEFINE cp == [c EXCEPT !.process = Nothing]
           dp == [d EXCEPT !.process = Nothing]
<1>1. Alike(cp, dp)  BY DEF Alike, ContextFields
<1> HIDE DEF cp, dp
<1>2. AsDeclared(config, c) = AsDeclared(config, d)  BY AlikeLabels, AlikeResolve
<1>3. AsDeclared(config, cp) = AsDeclared(config, dp)  BY <1>1, AlikeLabels, AlikeResolve
<1>4. \A effective : Execute(effective, c) = Execute(effective, d)  BY AlikeLabels
<1> QED BY <1>2, <1>3, <1>4 DEF Shown, cp, dp

(***************************************************************************)
(* The context of a tab has the fields of those that Build makes.          *)
(***************************************************************************)
LEMMA NowFields ==
  ASSUME NEW i
  PROVE  DOMAIN ContextNow(i) = ContextFields
BY DEF ContextNow, ContextFields

(***************************************************************************)
(* Which pane a tab shows depends on panes and layouts alone.              *)
(***************************************************************************)
LEMMA PaneDependsOn ==
  ASSUME NEW s, NEW r, s.panes = r.panes, s.layouts = r.layouts, NEW tab
  PROVE  PaneShown(s, tab) = PaneShown(r, tab)
BY DEF PaneShown

\* The step changes nothing that the label of tab i is about.
Undisturbed(i) ==
    /\ runs' = runs /\ session'.panes = session.panes /\ session'.layouts = session.layouts
    /\ session'.agents = session.agents
    /\ \A k \in DOMAIN session.tabs : /\ session'.tabs[k].id = session.tabs[k].id
                                      /\ session'.tabs[k].workspace = session.tabs[k].workspace
    /\ seen'[session.tabs[i].id] = seen[session.tabs[i].id]

(***************************************************************************)
(* A step that leaves Undisturbed what a label is about changes no more of *)
(* the context of a tab than its current label.                            *)
(***************************************************************************)
LEMMA NowStays ==
  ASSUME SessionOK, NEW i \in DOMAIN session.tabs, Undisturbed(i)
  PROVE  Alike(ContextNow(i), ContextNow(i)')
<1>0. PICK tab, pane : tab = session.tabs[i] /\ pane = PaneShown(session, tab.id)  OBVIOUS
<1> USE DEF Undisturbed
<1>1. session'.tabs[i].id = tab.id /\ session'.tabs[i].workspace = tab.workspace
  BY <1>0
<1>2. PaneShown(session', tab.id) = pane  BY <1>0, PaneDependsOn
<1>3. PICK number : number = Position(session.tabs, i, tab.workspace)  OBVIOUS
<1>4. Position(session'.tabs, i, tab.workspace) = number
  <2>1. \A j \in 1..i : j \in DOMAIN session.tabs
    <3>1. DOMAIN session.tabs = 1..Len(session.tabs) /\ Len(session.tabs) \in Nat
      BY DEF SessionOK, Formed
    <3> QED BY <3>1
  <2>2. {j \in 1..i : session'.tabs[j].workspace = tab.workspace}
           = {j \in 1..i : session.tabs[j].workspace = tab.workspace}
    BY <2>1
  <2> QED BY <1>3, <2>2 DEF Position
<1>5. PICK running : running = Running(pane) /\ running = Running(pane)'
  BY DEF Running, InfoOf
<1>6. PICK label : label = seen[tab.id] /\ label = seen'[tab.id]  BY <1>0
<1>7. PICK agents : agents = session.agents /\ agents = session'.agents  OBVIOUS
<1> DEFINE cwd == IF pane.foregroundCwd = Nothing THEN pane.cwd ELSE pane.foregroundCwd
           agent == IF pane.id \in DOMAIN agents
                    THEN [active |-> TRUE, about |-> agents[pane.id]]
                    ELSE [active |-> FALSE, about |-> pane.agent]
           process == IF running.foreground = <<>> THEN Nothing ELSE running.foreground[1]
           leader == IF \E k \in DOMAIN running.foreground :
                           running.foreground[k] = running.leader
                     THEN running.leader
                     ELSE Nothing
           Of(current) ==
             [tab |-> tab.id, workspace |-> tab.workspace, number |-> number,
              label |-> label, currentLabel |-> current, pane |-> pane.id, cwd |-> cwd,
              agent |-> agent, process |-> process, leader |-> leader]
<1>8. ContextNow(i) = Of(session.tabs[i].label)
  BY <1>0, <1>3, <1>5, <1>6, <1>7 DEF ContextNow, Position
<1>9. ContextNow(i)' = Of(session'.tabs[i].label)
  BY <1>1, <1>2, <1>4, <1>5, <1>6, <1>7 DEF ContextNow, Position
<1> HIDE DEF cwd, agent, process, leader
<1>10. \A x, y : Alike(Of(x), Of(y))
  BY DEF Alike, ContextFields
<1> HIDE DEF Of
<1>11. Alike(Of(session.tabs[i].label), Of(session'.tabs[i].label))  BY <1>10
<1> QED BY <1>8, <1>9, <1>11

(***************************************************************************)
(* A context built from the session as it is agrees with the context that  *)
(* the definitions of the README give, but for the process.                *)
(***************************************************************************)
LEMMA SnapshotIsNow ==
  ASSUME SessionOK, NEW i \in DOMAIN session.tabs, NEW hists, session' = session,
         SourceLabel(hists, session.tabs[i]) = seen'[session.tabs[i].id]
  PROVE  Unprobed(Context(session, hists, session.tabs[i],
                          Position(session.tabs, i, session.tabs[i].workspace)),
                  ContextNow(i)')
<1>1. PICK tab, pane : tab = session.tabs[i] /\ pane = PaneShown(session, tab.id)  OBVIOUS
<1>2. SelectPane(session, tab.id) = pane
  <2>1. /\ session.panes \in Seq(ToSet(session.panes)) /\ Unique(session.panes)
        /\ session.layouts[tab.id].marked \in Seq(ToSet(session.layouts[tab.id].marked))
    BY <1>1 DEF SessionOK, Formed
  <2> QED BY <1>1, <2>1, SelectsShown
<1>3. PICK c : c = Context(session, hists, tab, Position(session.tabs, i, tab.workspace))  OBVIOUS
<1>4. /\ c.tab = tab.id /\ c.workspace = tab.workspace
      /\ c.number = Position(session.tabs, i, tab.workspace)
      /\ c.label = SourceLabel(hists, tab) /\ c.pane = pane.id
      /\ c.cwd = EffectiveCwd(pane) /\ c.agent = NormalizeAgent(session, pane)
      /\ c.process = Nothing /\ c.leader = Nothing
  BY <1>2, <1>3 DEF Context
<1>5. PICK now : now = ContextNow(i)'  OBVIOUS
<1>6. /\ now.tab = tab.id /\ now.workspace = tab.workspace
      /\ now.number = Position(session.tabs, i, tab.workspace)
      /\ now.label = seen'[tab.id] /\ now.pane = pane.id
      /\ now.cwd = IF pane.foregroundCwd = Nothing THEN pane.cwd ELSE pane.foregroundCwd
      /\ now.agent = IF pane.id \in DOMAIN session.agents
                     THEN [active |-> TRUE, about |-> session.agents[pane.id]]
                     ELSE [active |-> FALSE, about |-> pane.agent]
  BY <1>1, <1>5 DEF ContextNow, Position
<1>7. EffectiveCwd(pane) = now.cwd  BY <1>6 DEF EffectiveCwd, Coalesce
<1>8. NormalizeAgent(session, pane) = now.agent  BY <1>6 DEF NormalizeAgent
<1>9. Unprobed(c, now)
  BY <1>1, <1>4, <1>6, <1>7, <1>8 DEF Unprobed, ContextFields
<1> QED BY <1>1, <1>3, <1>5, <1>9

(***************************************************************************)
(* The pane that a tab shows exists.                                       *)
(***************************************************************************)
LEMMA PaneIsThere ==
  ASSUME SessionOK, NEW i \in DOMAIN session.tabs
  PROVE  ContextNow(i).pane \in Panes \cup {Nothing}
<1>1. PICK pane : pane = PaneShown(session, session.tabs[i].id)  OBVIOUS
<1>2. ContextNow(i).pane = pane.id  BY <1>1 DEF ContextNow
<1>3. /\ session.panes \in Seq(ToSet(session.panes)) /\ Unique(session.panes)
      /\ session.layouts[session.tabs[i].id].marked
            \in Seq(ToSet(session.layouts[session.tabs[i].id].marked))
  BY DEF SessionOK, Formed
<1>4. pane = NoPane \/ \E k \in DOMAIN session.panes : pane = session.panes[k]
  BY <1>1, <1>3, SelectsShown
<1> QED BY <1>2, <1>4 DEF NoPane, Panes

(***************************************************************************)
(* A pass of the daemon that asks for the process of such a context        *)
(* decides as the README declares.                                         *)
(***************************************************************************)
LEMMA ProbedIsNow ==
  ASSUME CompiledOK, target = Nothing, NEW i, NEW c, DOMAIN c = ContextFields,
         Unprobed(c, ContextNow(i))
  PROVE  /\ Resolve(compiled, c) = AsDeclared(compiled, [ContextNow(i) EXCEPT !.process = Nothing])
         /\ Desired(c, InfoOf(c)) =
               IF AsDeclared(compiled, ContextNow(i)).mode = "auto"
               THEN Execute(AsDeclared(compiled, ContextNow(i)), ContextNow(i))
               ELSE Nothing
         /\ \A mode : Eligible(mode) <=> mode = "auto"
<1>1. PICK now : now = ContextNow(i)  OBVIOUS
<1>2. DOMAIN now = ContextFields  BY <1>1, NowFields
<1>3. /\ \A f \in ContextFields \ {"currentLabel", "process", "leader"} : c[f] = now[f]
      /\ c.process = Nothing /\ c.leader = Nothing
  BY <1>1 DEF Unprobed
<1>4. PICK np : np = [now EXCEPT !.process = Nothing]  OBVIOUS
<1>5. Subject(c) = Subject(np)
  BY <1>2, <1>3, <1>4 DEF ContextFields, Subject
<1>6. Resolve(compiled, c) = AsDeclared(compiled, np)
  BY <1>5, AlikeResolve, CompiledResolves
<1>7. PICK pane, running : /\ pane = PaneShown(session, session.tabs[i].id)
                           /\ running = Running(pane)
  OBVIOUS
<1>8. /\ now.pane = pane.id
      /\ now.process = IF running.foreground = <<>> THEN Nothing ELSE running.foreground[1]
      /\ now.leader = IF \E k \in DOMAIN running.foreground :
                            running.foreground[k] = running.leader
                      THEN running.leader
                      ELSE Nothing
  BY <1>1, <1>7 DEF ContextNow
<1>9. InfoOf(c) = running
  <2>1. c.pane = pane.id  BY <1>3, <1>8 DEF ContextFields
  <2> QED BY <1>7, <2>1 DEF Running, InfoOf
<1>10. PICK known : known = AttachProcess(c, running)  OBVIOUS
<1>11. Alike(known, now)
  <2>1. \A f \in ContextFields \ {"process", "leader"} : known[f] = c[f]
    BY <1>10 DEF AttachProcess
  <2>2. /\ known.process = IF running.foreground = <<>> THEN Nothing ELSE running.foreground[1]
        /\ known.leader = IF running.leader \in ToSet(running.foreground) THEN running.leader
                          ELSE Nothing
    BY <1>10 DEF AttachProcess, ContextFields
  <2>3. running.leader \in ToSet(running.foreground) <=>
           \E k \in DOMAIN running.foreground : running.foreground[k] = running.leader
    BY DEF ToSet
  <2>4. known.process = now.process /\ known.leader = now.leader  BY <1>8, <2>2, <2>3
  <2> QED BY <1>3, <2>1, <2>4 DEF Alike
<1>12. \A mode : Eligible(mode) <=> mode = "auto"  BY DEF Eligible, Trigger
<1>13. Resolve(compiled, known) = AsDeclared(compiled, now)
  BY <1>11, AlikeLabels, AlikeResolve, CompiledResolves
<1>14. \A effective : Execute(effective, known) = Execute(effective, now)
  BY <1>11, AlikeLabels
<1>15. Desired(c, running) =
          IF AsDeclared(compiled, now).mode = "auto"
          THEN Execute(AsDeclared(compiled, now), now) ELSE Nothing
  BY <1>10, <1>12, <1>13, <1>14 DEF Desired
<1> QED BY <1>1, <1>4, <1>6, <1>9, <1>12, <1>15

(***************************************************************************)
(* A right label stays right while nothing changes.                        *)
(***************************************************************************)
LEMMA ToldStays ==
  ASSUME SessionOK, NEW i \in DOMAIN session.tabs, Undisturbed(i), compiled' = compiled,
         session'.tabs[i].label = session.tabs[i].label, Told(i)
  PROVE  Told(i)'
<1>1. PICK c, d : c = ContextNow(i) /\ d = ContextNow(i)'  OBVIOUS
<1>2. Alike(c, d)  BY <1>1, NowStays
<1>3. DOMAIN c = ContextFields /\ DOMAIN d = ContextFields
  BY <1>1 DEF ContextNow, ContextFields
<1>4. PICK label : label = session.tabs[i].label /\ label = session'.tabs[i].label  OBVIOUS
<1>5. Shown(compiled, c, label)  BY <1>1, <1>4 DEF Told
<1>6. Shown(compiled, d, label)  BY <1>2, <1>3, <1>5, ShownAlike
<1> QED BY <1>1, <1>4, <1>6 DEF Told

(***************************************************************************)
(* A context stays up to date while nothing changes.                       *)
(***************************************************************************)
LEMMA UnprobedStays ==
  ASSUME SessionOK, NEW i \in DOMAIN session.tabs, Undisturbed(i), NEW c,
         Unprobed(c, ContextNow(i))
  PROVE  Unprobed(c, ContextNow(i)')
<1>1. Alike(ContextNow(i), ContextNow(i)')  BY NowStays
<1> QED BY <1>1 DEF Unprobed, Alike

(***************************************************************************)
(* What a pass knows of the tab it comes to, while nothing changes.        *)
(***************************************************************************)
LEMMA QuietReach ==
  ASSUME SessionOK, PassOK, CompiledOK, QuietOK, quiet # "no", pc = "tabs",
         reached < Len(contexts)
  PROVE  \E i \in DOMAIN session.tabs :
            /\ i = reached + 1 /\ Reached.tab \in Tabs /\ Reached.pane \in Panes \cup {Nothing}
            /\ Reached.tab = session.tabs[i].id
            /\ Reached.currentLabel = session.tabs[i].label /\ Considered
            /\ Eligible(Resolve(compiled, Reached).mode) <=>
                  AsDeclared(compiled, [ContextNow(i) EXCEPT !.process = Nothing]).mode = "auto"
            /\ Desired(Reached, InfoOf(Reached)) =
                  IF AsDeclared(compiled, ContextNow(i)).mode = "auto"
                  THEN Execute(AsDeclared(compiled, ContextNow(i)), ContextNow(i))
                  ELSE Nothing
<1>1. /\ reached + 1 \in DOMAIN contexts /\ reached \in Nat
      /\ Reached = contexts[reached + 1] /\ DOMAIN Reached = ContextFields
  BY ReachesOne
<1>2. ProbesOK /\ target = Nothing  BY DEF QuietOK
<1>3. PICK i \in DOMAIN session.tabs : i = reached + 1  BY <1>1, <1>2 DEF ProbesOK
<1>4. i > reached  BY <1>1, <1>3
<1>5. Unprobed(Reached, ContextNow(i)) /\ Reached.currentLabel = session.tabs[i].label
  BY <1>1, <1>2, <1>3, <1>4 DEF ProbesOK
<1>6. Reached.tab = session.tabs[i].id /\ Reached.pane = ContextNow(i).pane
  <2>1. ContextNow(i).tab = session.tabs[i].id  BY DEF ContextNow
  <2> QED BY <1>5, <2>1 DEF Unprobed, ContextFields
<1>7. Reached.tab \in Tabs /\ Reached.pane \in Panes \cup {Nothing}
  BY <1>6, TabsAreKnown, PaneIsThere
<1>8. Considered  BY <1>2 DEF Considered
<1>9. /\ Resolve(compiled, Reached) =
            AsDeclared(compiled, [ContextNow(i) EXCEPT !.process = Nothing])
      /\ Desired(Reached, InfoOf(Reached)) =
            IF AsDeclared(compiled, ContextNow(i)).mode = "auto"
            THEN Execute(AsDeclared(compiled, ContextNow(i)), ContextNow(i))
            ELSE Nothing
      /\ \A mode : Eligible(mode) <=> mode = "auto"
  BY <1>1, <1>2, <1>5, ProbedIsNow
<1> QED BY <1>3, <1>5, <1>6, <1>7, <1>8, <1>9

(***************************************************************************)
(* When the labels are right a pass renames no tab.                        *)
(***************************************************************************)
LEMMA NoRename ==
  ASSUME SessionOK, PassOK, CompiledOK, QuietOK, quiet = "yes"
  PROVE  ~RenameTab
<1> SUFFICES ASSUME RenameTab  PROVE FALSE  OBVIOUS
<1>1. /\ pc = "tabs" /\ reached < Len(contexts) /\ WorthQuerying
      /\ Desired(Reached, InfoOf(Reached)) \notin {Nothing, Reached.currentLabel}
  BY DEF RenameTab, Reach
<1>2. PICK i \in DOMAIN session.tabs :
         /\ Reached.currentLabel = session.tabs[i].label
         /\ Eligible(Resolve(compiled, Reached).mode) <=>
               AsDeclared(compiled, [ContextNow(i) EXCEPT !.process = Nothing]).mode = "auto"
         /\ Desired(Reached, InfoOf(Reached)) =
               IF AsDeclared(compiled, ContextNow(i)).mode = "auto"
               THEN Execute(AsDeclared(compiled, ContextNow(i)), ContextNow(i))
               ELSE Nothing
  BY <1>1, QuietReach
<1>3. Told(i)  BY DEF QuietOK, ToldOK
<1>4. /\ AsDeclared(compiled, ContextNow(i)).mode = "auto"
      /\ AsDeclared(compiled, [ContextNow(i) EXCEPT !.process = Nothing]).mode = "auto"
  BY <1>1, <1>2 DEF WorthQuerying
<1>5. session.tabs[i].label = Desired(Reached, InfoOf(Reached))
  BY <1>2, <1>3, <1>4 DEF Told, Shown
<1> QED BY <1>1, <1>2, <1>5

(***************************************************************************)
(* What happens in Herdr is counted.                                       *)
(***************************************************************************)
LEMMA HerdrCounts ==
  ASSUME Herdr
  PROVE  edits' = edits + 1
BY DEF Herdr, MoveTab, OpenTab, CloseTab, UserRename, MovePane, FocusPane,
       IdentifyAgent, RunProcess, Change, Edit

(***************************************************************************)
(* Every step keeps QuietOK. A pass makes the label of each tab it comes   *)
(* to right, which the labels it writes to other tabs do not undo; at      *)
(* Commit it has come to all of them.                                      *)
(***************************************************************************)
LEMMA QuietStep ==
  ASSUME Distinct, SessionOK, PassOK, Memory, CompiledOK, QuietOK, [Next]_vars
  PROVE  QuietOK'
<1>0. compiled' = compiled  BY CompiledStays
<1>1. CASE Herdr
  <2>1. edits' \in Nat /\ quiet' = "no"  BY <1>1, HerdrCounts, HerdrKeeps DEF QuietOK
  <2> QED BY <2>1 DEF QuietOK
<1>2. CASE BeginAction
  <2>1. edits' = edits /\ quiet' = "no"  BY <1>2 DEF BeginAction, Begin
  <2> QED BY <2>1 DEF QuietOK
<1> DEFINE Calm == session' = session /\ runs' = runs
<1>3. ASSUME Calm, seen' = seen
      PROVE  /\ \A i \in DOMAIN session.tabs : Undisturbed(i)
             /\ \A i \in DOMAIN session.tabs : Told(i) => Told(i)'
             /\ SeenOK => SeenOK'
  <2>1. \A i \in DOMAIN session.tabs : Undisturbed(i)  BY <1>3 DEF Undisturbed
  <2>2. \A i \in DOMAIN session.tabs : Told(i) => Told(i)'
    BY <1>0, <1>3, <2>1, ToldStays
  <2>3. SeenOK => SeenOK'  BY <1>3 DEF SeenOK
  <2> QED BY <2>1, <2>2, <2>3
<1>4. CASE BeginAuto
  <2>1. /\ Calm /\ seen' = seen /\ edits' = edits /\ pc = "idle" /\ pc' = "snapshot"
        /\ target' = Nothing /\ quiet' = IF quiet = "yes" THEN "yes" ELSE "pass"
    BY <1>4 DEF BeginAuto, Begin
  <2>2. quiet = "yes" => SeenOK' /\ ToldOK'
    BY <1>3, <2>1 DEF QuietOK, ToldOK
  <2> QED BY <2>1, <2>2 DEF QuietOK
<1>5. CASE TakeSnapshot
  <2>1. /\ Calm /\ pc = "snapshot" /\ pc' = "tabs"
        /\ UNCHANGED <<edits, target, quiet, reached>>
    BY <1>5 DEF TakeSnapshot
  <2>2. \A k \in DOMAIN session.tabs :
           /\ seen'[session.tabs[k].id] = IF session.tabs[k].label \in Names
                                          THEN session.tabs[k].label
                                          ELSE seen[session.tabs[k].id]
           /\ SourceLabel(hist, session.tabs[k]) = seen'[session.tabs[k].id]
    BY <1>5, SnapshotLabels
  <2>3. /\ DOMAIN contexts' = DOMAIN session.tabs
        /\ \A k \in DOMAIN session.tabs :
              contexts'[k] = Context(session, hist, session.tabs[k],
                                     Position(session.tabs, k, session.tabs[k].workspace))
    BY <1>5, SnapshotContexts
  <2>4. SeenOK'  BY <2>1, <2>2 DEF SeenOK
  <2>5. ProbesOK'
    <3>1. reached' = 0  BY <2>1 DEF PassOK
    <3>2. \A i \in DOMAIN session.tabs : i \in Nat /\ i > 0  BY DEF SessionOK, Formed
    <3>3. ASSUME NEW i \in DOMAIN session.tabs
          PROVE  /\ Unprobed(contexts'[i], ContextNow(i)')
                 /\ contexts'[i].currentLabel = session.tabs[i].label
      BY <2>1, <2>2, <2>3, SnapshotIsNow, ContextIs
    <3>4. \A i \in DOMAIN session.tabs : ~(i <= reached')  BY <3>1, <3>2
    <3> QED BY <2>1, <2>3, <3>3, <3>4 DEF ProbesOK
  <2>6. ASSUME quiet = "yes"  PROVE  ToldOK'
    <3>1. SeenOK /\ ToldOK  BY <2>6 DEF QuietOK
    <3>2. \A i \in DOMAIN session.tabs : seen'[session.tabs[i].id] = seen[session.tabs[i].id]
      BY <2>2, <3>1 DEF SeenOK
    <3>3. \A i \in DOMAIN session.tabs : Undisturbed(i)  BY <2>1, <3>2 DEF Undisturbed
    <3>4. \A i \in DOMAIN session.tabs : Told(i)'
      BY <1>0, <2>1, <3>1, <3>3, ToldStays DEF ToldOK
    <3> QED BY <2>1, <3>4 DEF ToldOK
  <2> QED BY <2>1, <2>4, <2>5, <2>6 DEF QuietOK
<1>6. CASE ReachOnly
  <2>1. /\ Calm /\ seen' = seen /\ pc = "tabs" /\ reached < Len(contexts)
        /\ reached' = reached + 1 /\ UNCHANGED <<edits, quiet, pc, target, contexts>>
    BY <1>6 DEF ReachOnly, PassOver, ProcessInfoFails, LeaveLabel, RenameRefused, Reach
  <2>2. CASE quiet = "no"  BY <2>1, <2>2 DEF QuietOK
  <2>3. CASE quiet # "no"
    <3>1. SeenOK /\ ProbesOK  BY <2>1, <2>3 DEF QuietOK
    <3>2. PICK i \in DOMAIN session.tabs :
             /\ i = reached + 1 /\ Reached.tab \in Tabs /\ Reached.pane \in Panes \cup {Nothing}
             /\ Reached.currentLabel = session.tabs[i].label /\ Considered
             /\ Eligible(Resolve(compiled, Reached).mode) <=>
                   AsDeclared(compiled, [ContextNow(i) EXCEPT !.process = Nothing]).mode = "auto"
             /\ Desired(Reached, InfoOf(Reached)) =
                   IF AsDeclared(compiled, ContextNow(i)).mode = "auto"
                   THEN Execute(AsDeclared(compiled, ContextNow(i)), ContextNow(i))
                   ELSE Nothing
      BY <2>1, <2>3, QuietReach
    <3>3. Told(i)
      <4>1. CASE PassOver
        <5>1. AsDeclared(compiled, [ContextNow(i) EXCEPT !.process = Nothing]).mode # "auto"
          BY <3>2, <4>1 DEF PassOver, WorthQuerying
        <5> QED BY <5>1 DEF Told, Shown
      <4>2. CASE ProcessInfoFails  BY <3>2, <4>2 DEF ProcessInfoFails
      <4>3. CASE RenameRefused  BY <3>2, <4>3 DEF RenameRefused
      <4>4. CASE LeaveLabel
        <5>1. Desired(Reached, InfoOf(Reached)) \in {Nothing, Reached.currentLabel}
          BY <4>4 DEF LeaveLabel
        <5>2. Execute(AsDeclared(compiled, ContextNow(i)), ContextNow(i)) # Nothing
          BY DEF Execute, Distinct
        <5> QED BY <3>2, <5>1, <5>2 DEF Told, Shown
      <4> QED BY <1>6, <4>1, <4>2, <4>3, <4>4 DEF ReachOnly
    <3>4. \A k \in DOMAIN session.tabs : k <= reached + 1 => Told(k)
      <4>1. \A k \in DOMAIN session.tabs : k \in Nat  BY DEF SessionOK, Formed
      <4>2. reached \in Nat  BY DEF PassOK
      <4> QED BY <3>1, <3>2, <3>3, <4>1, <4>2 DEF ProbesOK
    <3>5. \A k \in DOMAIN session.tabs : Undisturbed(k) /\ (Told(k) => Told(k)')
      BY <1>3, <2>1
    <3>6. \A k \in DOMAIN session.tabs : Unprobed(contexts[k], ContextNow(k)')
      BY <3>1, <3>5, UnprobedStays DEF ProbesOK
    <3>7. \A k \in DOMAIN session.tabs :
             k > reached + 1 => contexts[k].currentLabel = session.tabs[k].label
      <4>1. \A k \in DOMAIN session.tabs : k \in Nat  BY DEF SessionOK, Formed
      <4>2. reached \in Nat  BY DEF PassOK
      <4> QED BY <3>1, <4>1, <4>2 DEF ProbesOK
    <3>8. ProbesOK'
      BY <2>1, <3>1, <3>4, <3>5, <3>6, <3>7 DEF ProbesOK
    <3>9. SeenOK' /\ (ToldOK => ToldOK')  BY <1>3, <2>1, <3>1 DEF ToldOK
    <3> QED BY <2>1, <3>8, <3>9 DEF QuietOK
  <2> QED BY <2>2, <2>3
<1>7. CASE RenameTab
  <2>1. /\ runs' = runs /\ seen' = seen /\ pc = "tabs" /\ reached < Len(contexts)
        /\ reached' = reached + 1 /\ UNCHANGED <<edits, quiet, pc, target, contexts>>
        /\ WorthQuerying /\ Desired(Reached, InfoOf(Reached)) # Nothing
    BY <1>7 DEF RenameTab, Reach
  <2>2. CASE quiet = "no"  BY <2>1, <2>2 DEF QuietOK
  <2>3. CASE quiet = "pass"
    <3>1. SeenOK /\ ProbesOK  BY <2>1, <2>3 DEF QuietOK
    <3>0. PICK desired : desired = Desired(Reached, InfoOf(Reached))  OBVIOUS
    <3>2. PICK i \in DOMAIN session.tabs :
             /\ i = reached + 1 /\ Reached.tab = session.tabs[i].id
             /\ desired = IF AsDeclared(compiled, ContextNow(i)).mode = "auto"
                          THEN Execute(AsDeclared(compiled, ContextNow(i)), ContextNow(i))
                          ELSE Nothing
      BY <2>1, <2>3, <3>0, QuietReach
    <3>3. /\ session'.panes = session.panes /\ session'.layouts = session.layouts
          /\ session'.agents = session.agents
          /\ DOMAIN session'.tabs = DOMAIN session.tabs
          /\ \A k \in DOMAIN session.tabs :
                /\ session'.tabs[k].id = session.tabs[k].id
                /\ session'.tabs[k].workspace = session.tabs[k].workspace
                /\ session'.tabs[k].label = IF k = i THEN desired ELSE session.tabs[k].label
      BY <1>7, <3>0, <3>2, RenameKeeps DEF SessionOK, Formed, Unique
    <3>4. \A k \in DOMAIN session.tabs : Undisturbed(k)  BY <2>1, <3>3 DEF Undisturbed
    <3>5. \A k \in DOMAIN session.tabs : k # i /\ Told(k) => Told(k)'
      BY <1>0, <3>3, <3>4, ToldStays
    <3>6. Told(i)'
      <4>1. PICK c, d : c = ContextNow(i) /\ d = ContextNow(i)'  OBVIOUS
      <4>2. Alike(c, d)  BY <3>4, <4>1, NowStays
      <4>3. DOMAIN c = ContextFields /\ DOMAIN d = ContextFields
        BY <4>1 DEF ContextNow, ContextFields
      <4>4. Shown(compiled, c, desired)  BY <3>2, <4>1 DEF Shown
      <4>5. Shown(compiled, d, desired)  BY <4>2, <4>3, <4>4, ShownAlike
      <4> QED BY <1>0, <3>3, <4>1, <4>5 DEF Told
    <3>7. \A k \in DOMAIN session.tabs : Unprobed(contexts[k], ContextNow(k)')
      BY <3>1, <3>4, UnprobedStays DEF ProbesOK
    <3>8. \A k \in DOMAIN session.tabs : k \in Nat  BY DEF SessionOK, Formed
    <3>9. reached \in Nat  BY DEF PassOK
    <3>10. \A k \in DOMAIN session.tabs :
              k > reached + 1 => contexts[k].currentLabel = session'.tabs[k].label
      BY <3>1, <3>2, <3>3, <3>8, <3>9 DEF ProbesOK
    <3>11. \A k \in DOMAIN session.tabs : k <= reached + 1 => Told(k)'
      BY <3>1, <3>2, <3>5, <3>6, <3>8, <3>9 DEF ProbesOK
    <3>12. ProbesOK'  BY <2>1, <3>1, <3>3, <3>7, <3>10, <3>11 DEF ProbesOK
    <3>13. desired \notin Names  BY <2>1, <3>0, DesiredIsRendered
    <3>14. SeenOK'  BY <2>1, <3>1, <3>3, <3>13 DEF SeenOK
    <3> QED BY <2>1, <2>3, <3>12, <3>14 DEF QuietOK
  <2>4. CASE quiet = "yes"  BY <1>7, <2>4, NoRename
  <2> QED BY <2>2, <2>3, <2>4 DEF QuietOK
<1>8. CASE Commit \/ TargetMissing
  <2>1. /\ Calm /\ seen' = seen /\ pc = "tabs" /\ reached = Len(contexts) /\ edits' = edits
        /\ pc' = "idle" /\ target' = Nothing
    BY <1>8 DEF Commit, TargetMissing, EndPass
  <2>2. CASE TargetMissing
    <3>1. quiet' = quiet /\ quiet = "no"  BY <2>2 DEF TargetMissing, QuietOK
    <3> QED BY <2>1, <3>1 DEF QuietOK
  <2>3. CASE Commit
    <3>1. quiet' = IF quiet = "pass" THEN "yes" ELSE quiet  BY <2>3 DEF Commit
    <3>2. ASSUME quiet # "no"  PROVE  SeenOK /\ ToldOK
      <4>1. SeenOK /\ ProbesOK  BY <2>1, <3>2 DEF QuietOK
      <4>2. \A k \in DOMAIN session.tabs : k <= reached
        BY <2>1, <4>1 DEF ProbesOK, PassOK
      <4> QED BY <4>1, <4>2 DEF ProbesOK, ToldOK
    <3>3. quiet # "no" => SeenOK' /\ ToldOK'
      BY <1>3, <2>1, <3>2 DEF ToldOK
    <3> QED BY <2>1, <3>1, <3>3 DEF QuietOK
  <2> QED BY <1>8, <2>2, <2>3
<1>9. CASE UNCHANGED vars
  <2>1. /\ Calm /\ seen' = seen /\ UNCHANGED <<edits, quiet, pc, target, contexts, reached>>
    BY <1>9 DEF vars, pass
  <2>2. /\ SeenOK => SeenOK'
        /\ ToldOK => ToldOK'
    BY <1>3, <2>1 DEF ToldOK
  <2>3. ProbesOK => ProbesOK'
    <3>1. \A k \in DOMAIN session.tabs : Undisturbed(k) /\ (Told(k) => Told(k)')
      BY <1>3, <2>1
    <3>2. ProbesOK => \A k \in DOMAIN session.tabs : Unprobed(contexts[k], ContextNow(k)')
      BY <3>1, UnprobedStays DEF ProbesOK
    <3> QED BY <2>1, <3>1, <3>2 DEF ProbesOK
  <2> QED BY <2>1, <2>2, <2>3 DEF QuietOK
<1> QED BY <1>1, <1>2, <1>4, <1>5, <1>6, <1>7, <1>8, <1>9 DEF Next, ReachOnly

\* The inductive invariant.
Known == SessionOK /\ PassOK /\ DecisionOK /\ CompiledOK /\ Memory /\ QuietOK

(***************************************************************************)
(* Known is an inductive invariant.                                        *)
(***************************************************************************)
LEMMA KnownInvariant ==
  ASSUME Distinct
  PROVE  Spec => []Known
<1>1. Init => Known
  <2>1. Init => QuietOK  BY DEF Init, QuietOK
  <2>2. Init => PassOK /\ DecisionOK /\ CompiledOK
    BY DEF Init, PassOK, DecisionOK, CompiledOK
  <2> QED BY <2>1, <2>2, SessionInit, MemoryInit DEF Known
<1>2. Known /\ [Next]_vars => Known'
  <2> SUFFICES ASSUME Known, [Next]_vars  PROVE  Known'  OBVIOUS
  <2>1. CompiledOK'  BY CompiledStays DEF Known, CompiledOK
  <2>2. SessionOK' /\ PassOK' /\ DecisionOK'  BY SessionStep, PassStep DEF Known
  <2>3. Memory'  BY MemoryStep DEF Known
  <2>4. QuietOK'  BY QuietStep DEF Known
  <2> QED BY <2>1, <2>2, <2>3, <2>4 DEF Known
<1> QED BY <1>1, <1>2, PTL DEF Spec

(***************************************************************************)
(* After a pass of the daemon during and since which nothing changed,      *)
(* every tab in auto mode shows the label that the README defines, with    *)
(* any number of tabs, workspaces, panes and profiles, and after any       *)
(* history of passes, actions and changes of the session.                  *)
(***************************************************************************)
THEOREM LabelsAreTrue ==
  ASSUME Distinct
  PROVE  Spec => []LabelsTellTheTruth
<1>1. Known => LabelsTellTheTruth
  BY DEF Known, QuietOK, ToldOK, Told, Shown, LabelsTellTheTruth
<1> QED BY <1>1, KnownInvariant, PTL

(***************************************************************************)
(* From then on, until something changes, no pass renames a tab: the       *)
(* plugin's own labels have no effect on the next ones.                    *)
(***************************************************************************)
THEOREM PassesSettle ==
  ASSUME Distinct
  PROVE  Spec => SettlesDown
<1>1. Known /\ [Next]_vars => [quiet = "yes" /\ edits' = edits => session' = session]_vars
  <2> SUFFICES ASSUME Known, [Next]_vars, quiet = "yes", edits' = edits
               PROVE  session' = session
    OBVIOUS
  <2>1. ~Herdr  BY HerdrCounts DEF Known, QuietOK
  <2>2. ~RenameTab  BY NoRename DEF Known
  <2>3. CASE BeginAuto \/ BeginAction \/ TakeSnapshot \/ UNCHANGED vars
    BY <2>3 DEF BeginAuto, BeginAction, Begin, TakeSnapshot, vars
  <2>4. CASE ReachOnly \/ Commit \/ TargetMissing
    BY <2>4 DEF ReachOnly, PassOver, ProcessInfoFails, LeaveLabel, RenameRefused, Commit,
                TargetMissing, EndPass
  <2> QED BY <2>1, <2>2, <2>3, <2>4 DEF Next, ReachOnly
<1> QED BY <1>1, KnownInvariant, PTL DEF Spec, SettlesDown

=============================================================================
