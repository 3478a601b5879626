---------------------------- MODULE Wallet_proofs ----------------------------
(***************************************************************************)
(* Lemmas that the services' proofs share: about the Wallet entity, and    *)
(* about sums of amounts over finite sets.                                 *)
(***************************************************************************)
EXTENDS Wallet, Functions, FiniteSetTheorems, TLAPS

(* The wallet operations keep rows in their type; Withdraw does because of *)
(* its guard, which keeps the balance from becoming negative.              *)
LEMMA WalletOperationTypes ==
  ASSUME NEW C, NEW w \in WalletRows(C), NEW a \in Nat \ {0},
         NEW l \in Nat \cup {NoLimit},
         NEW today \in Nat, NEW stored \in Nat
  PROVE  /\ Deposit(w, a) \in WalletRows(C)
         /\ Credit(w, a) \in WalletRows(C)
         /\ MayWithdraw(w, a, today) => Withdraw(w, a, today, stored) \in WalletRows(C)
         /\ Freeze(w) \in WalletRows(C)
         /\ Unfreeze(w) \in WalletRows(C)
         /\ Close(w) \in WalletRows(C)
         /\ SetDailyWithdrawalLimit(w, l) \in WalletRows(C)
  <1>1. Deposit(w, a) \in WalletRows(C) /\ Credit(w, a) \in WalletRows(C)
    BY DEF WalletRows, Deposit, Credit
  <1>2. ASSUME MayWithdraw(w, a, today)
        PROVE  Withdraw(w, a, today, stored) \in WalletRows(C)
    <2>1. w.balance - a \in Nat /\ WithdrawnOn(w, today) + a \in Nat
      BY <1>2 DEF WalletRows, MayWithdraw, WithdrawnOn
    <2> QED
      BY <2>1 DEF WalletRows, Withdraw
  <1>3. Freeze(w) \in WalletRows(C) /\ Unfreeze(w) \in WalletRows(C)
    BY DEF WalletRows, WalletStatus, Freeze, Unfreeze
  <1>4. Close(w) \in WalletRows(C) /\ SetDailyWithdrawalLimit(w, l) \in WalletRows(C)
    BY DEF WalletRows, WalletStatus, Close, SetDailyWithdrawalLimit
  <1> QED
    BY <1>1, <1>2, <1>3, <1>4

(* A new row is a row, and so is the mark of a row that is not there. *)
LEMMA InsertedRowType ==
  ASSUME NEW C, NEW currency \in C
  PROVE  NewWallet(currency) \in WalletRows(C) /\ AbsentWallet(currency) \in WalletRows(C)
  BY DEF WalletRows, WalletStatus, NewWallet, AbsentWallet, NoLimit, NoDate

-----------------------------------------------------------------------------
(* What no change of a stored row may do: revive a closed wallet, leave    *)
(* money in one, delete a wallet, change its currency, or put money where  *)
(* no wallet is.                                                           *)
LawfulRow(old, new) ==
  /\ old.status = "CLOSED" => new.status = "CLOSED"
  /\ new.status = "CLOSED" =>
       new.balance = 0 \/ (old.status = "CLOSED" /\ new.balance = old.balance)
  /\ Exists(old) => Exists(new) /\ new.currency = old.currency
  /\ ~Exists(new) => new.balance = old.balance

(* The methods of the entity respect it, each under its guard: deposit,    *)
(* credit and withdraw ask for ACTIVE, freeze refuses CLOSED, unfreeze     *)
(* revives only FROZEN, and close asks for an empty balance.               *)
LEMMA LawfulOperations ==
  ASSUME NEW C, NEW w \in WalletRows(C), NEW a \in Nat \ {0},
         NEW l \in Nat \cup {NoLimit},
         NEW today \in Nat, NEW stored \in Nat
  PROVE  /\ LawfulRow(w, w)
         /\ MayDeposit(w, a) => LawfulRow(w, Deposit(w, a))
         /\ MayCredit(w, a) => LawfulRow(w, Credit(w, a))
         /\ MayWithdraw(w, a, today) => LawfulRow(w, Withdraw(w, a, today, stored))
         /\ MayFreeze(w) => LawfulRow(w, Freeze(w))
         /\ LawfulRow(w, Unfreeze(w))
         /\ MayClose(w) => LawfulRow(w, Close(w))
         /\ LawfulRow(w, SetDailyWithdrawalLimit(w, l))
  <1>1. LawfulRow(w, w)
    BY DEF LawfulRow
  <1>2. /\ MayDeposit(w, a) => LawfulRow(w, Deposit(w, a))
        /\ MayCredit(w, a) => LawfulRow(w, Credit(w, a))
    BY DEF WalletRows, LawfulRow, MayDeposit, Deposit, MayCredit, Credit, IsActive, Exists
  <1>3. MayWithdraw(w, a, today) => LawfulRow(w, Withdraw(w, a, today, stored))
    BY DEF WalletRows, LawfulRow, MayWithdraw, Withdraw, IsActive, Exists
  <1>4. MayFreeze(w) => LawfulRow(w, Freeze(w))
    BY DEF WalletRows, LawfulRow, MayFreeze, Freeze, Exists
  <1>5. LawfulRow(w, Unfreeze(w))
    BY DEF WalletRows, LawfulRow, Unfreeze, Exists
  <1>6. MayClose(w) => LawfulRow(w, Close(w))
    BY DEF WalletRows, LawfulRow, MayClose, Close, Exists
  <1>7. LawfulRow(w, SetDailyWithdrawalLimit(w, l))
    BY DEF WalletRows, LawfulRow, SetDailyWithdrawalLimit, Exists
  <1> QED
    BY <1>1, <1>2, <1>3, <1>4, <1>5, <1>6, <1>7

(* A row that is inserted takes the place of none. *)
LEMMA LawfulInsert ==
  ASSUME NEW C, NEW w \in WalletRows(C), ~Exists(w), NEW currency, NEW a \in Nat
  PROVE  /\ LawfulRow(w, NewWallet(currency))
         /\ LawfulRow(w, Deposit(NewWallet(currency), a))
  BY DEF WalletRows, LawfulRow, NewWallet, Deposit, Exists

-----------------------------------------------------------------------------
(* Sums of amounts over finite sets, by induction on the set. *)

(* The element that a fold takes from a set first. *)
Pick(s) == CHOOSE x \in s : TRUE

(* Finite sets that the sums run over. *)
LEMMA FiniteSub ==
  ASSUME NEW S, IsFiniteSet(S), NEW T, T \subseteq S
  PROVE  IsFiniteSet(T)
  BY FS_Subset

(* One more element. *)
LEMMA FiniteAdd ==
  ASSUME NEW S, IsFiniteSet(S), NEW e
  PROVE  IsFiniteSet(S \cup {e})
  BY FS_AddElement

(* Two finite sets together. *)
LEMMA FiniteUnion ==
  ASSUME NEW S, IsFiniteSet(S), NEW T, IsFiniteSet(T)
  PROVE  IsFiniteSet(S \cup T)
  BY FS_Union

(* The values of a function on a finite set. *)
LEMMA FiniteImage ==
  ASSUME NEW S, IsFiniteSet(S), NEW f
  PROVE  IsFiniteSet({f[x] : x \in S})
  <1> DEFINE T == {f[x] : x \in S}
             g == [x \in S |-> f[x]]
  <1>1. g \in Surjection(S, T)
    BY DEF Surjection
  <1> QED
    BY <1>1, FS_Surjection

(* g gives, for each subset of S, the sum of f over it. *)
IsSum(g, f, S) ==
  g = [s \in SUBSET S |-> IF s = {} THEN 0 ELSE f[Pick(s)] + g[s \ {Pick(s)}]]

SumFn(f, S) == CHOOSE g : IsSum(g, f, S)

(* The library's sum is such a function, taken at the whole set. *)
LEMMA SumDef ==
  ASSUME NEW f, NEW S
  PROVE  SumFunctionOnSet(f, S) = SumFn(f, S)[S]
  BY DEF SumFunctionOnSet, FoldFunctionOnSet, MapThenFoldSet, IsSum, Pick, SumFn

(* The element taken is one of the set. *)
LEMMA PickOne ==
  ASSUME NEW s, s # {}
  PROVE  Pick(s) \in s /\ s \ {Pick(s)} # s
  BY DEF Pick

(* Among some subsets of a finite set there is one with no other below it: *)
(* the induction that the lemmas on sums use, on a least counterexample.   *)
LEMMA MinimalSet ==
  ASSUME NEW S, IsFiniteSet(S), NEW bad, bad \subseteq SUBSET S, bad # {}
  PROVE  \E s \in bad : \A t \in bad : t \subseteq s => t = s
  <1>1. IsWellFoundedOn(StrictSubsetOrdering(S), SUBSET S)
    BY FS_StrictSubsetOrderingWellFounded, FS_FiniteSubsetsOfFinite
  <1>2. PICK s \in bad : \A t \in bad : <<t, s>> \notin StrictSubsetOrdering(S)
    BY <1>1, WFMin
  <1> QED
    BY <1>2 DEF StrictSubsetOrdering

(* There is at most one such function, also on fewer subsets. *)
LEMMA SumUnique ==
  ASSUME NEW f, NEW S, IsFiniteSet(S), NEW T \in SUBSET S, NEW g, IsSum(g, f, S),
         NEW h, IsSum(h, f, T)
  PROVE  \A s \in SUBSET T : g[s] = h[s]
  <1> DEFINE bad == {s \in SUBSET T : g[s] # h[s]}
  <1>0. \A s \in SUBSET T :
          /\ g[s] = IF s = {} THEN 0 ELSE f[Pick(s)] + g[s \ {Pick(s)}]
          /\ h[s] = IF s = {} THEN 0 ELSE f[Pick(s)] + h[s \ {Pick(s)}]
    BY DEF IsSum
  <1>1. SUFFICES ASSUME bad # {} PROVE FALSE
    OBVIOUS
  <1>2. PICK s \in bad : \A t \in bad : t \subseteq s => t = s
    <2>1. bad \subseteq SUBSET T /\ IsFiniteSet(T)
      BY FS_Subset
    <2> HIDE DEF bad
    <2> QED
      BY <1>1, <2>1, MinimalSet
  <1>3. s # {}
    BY <1>0
  <1>4. s \ {Pick(s)} \notin bad
    BY <1>2, <1>3, PickOne
  <1> QED
    BY <1>0, <1>3, <1>4

(* There is one: the sums of the smaller sets make up that of the set. *)
LEMMA SumExists ==
  ASSUME NEW f, NEW S, IsFiniteSet(S)
  PROVE  IsSum(SumFn(f, S), f, S)
  <1> DEFINE bad == {s \in SUBSET S : ~IsSum(SumFn(f, s), f, s)}
  <1>1. SUFFICES ASSUME bad # {} PROVE FALSE
    OBVIOUS
  <1>2. PICK m \in bad : \A t \in bad : t \subseteq m => t = m
    <2>1. bad \subseteq SUBSET S
      OBVIOUS
    <2> HIDE DEF bad
    <2> QED
      BY <1>1, <2>1, MinimalSet
  <1>3. \A t \in SUBSET m : t # m => IsSum(SumFn(f, t), f, t)
    BY <1>2
  <1> DEFINE rest(t) == t \ {Pick(t)}
             g == [t \in SUBSET m |-> IF t = {} THEN 0 ELSE f[Pick(t)] + SumFn(f, rest(t))[rest(t)]]
  <1>4. ASSUME NEW u \in SUBSET m, u # m
        PROVE  g[u] = SumFn(f, u)[u]
    <2>1. IsSum(SumFn(f, u), f, u)
      BY <1>3, <1>4
    <2>2. CASE u = {}
      BY <2>1, <2>2 DEF IsSum
    <2>3. CASE u # {}
      <3>1. rest(u) \subseteq u /\ rest(u) # m /\ IsFiniteSet(u)
        BY <1>4, <2>3, PickOne, FS_Subset
      <3>2. IsSum(SumFn(f, rest(u)), f, rest(u))
        BY <1>3, <3>1
      <3>3. SumFn(f, u)[rest(u)] = SumFn(f, rest(u))[rest(u)]
        BY <2>1, <3>1, <3>2, SumUnique
      <3>4. SumFn(f, u)[u] = f[Pick(u)] + SumFn(f, u)[rest(u)]
        BY <2>1, <2>3 DEF IsSum
      <3> QED
        BY <2>3, <3>3, <3>4
    <2> QED
      BY <2>2, <2>3
  <1>5. ASSUME NEW t \in SUBSET m, t # {}
        PROVE  g[t] = f[Pick(t)] + g[rest(t)]
    <2>1. rest(t) \in SUBSET m /\ rest(t) # m
      BY <1>5, PickOne
    <2> QED
      BY <1>4, <1>5, <2>1
  <1>6. IsSum(g, f, m)
    <2>1. g = [t \in SUBSET m |-> IF t = {} THEN 0 ELSE f[Pick(t)] + g[rest(t)]]
      BY <1>5
    <2> QED
      BY <2>1 DEF IsSum
  <1>7. IsSum(SumFn(f, m), f, m)
    BY <1>6 DEF SumFn
  <1> QED
    BY <1>2, <1>7

(* A sum is the element taken first and the sum of the others. *)
LEMMA SumRecursion ==
  ASSUME NEW f, NEW S, IsFiniteSet(S)
  PROVE  SumFunctionOnSet(f, S) =
           IF S = {} THEN 0 ELSE f[Pick(S)] + SumFunctionOnSet(f, S \ {Pick(S)})
  <1> DEFINE rest == S \ {Pick(S)}
  <1>1. IsSum(SumFn(f, S), f, S)
    BY SumExists
  <1>2. CASE S = {}
    BY <1>1, <1>2, SumDef DEF IsSum
  <1>3. CASE S # {}
    <2>1. IsFiniteSet(rest) /\ rest \in SUBSET S
      BY FS_Subset
    <2>2. IsSum(SumFn(f, rest), f, rest)
      BY <2>1, SumExists
    <2>3. SumFn(f, S)[rest] = SumFn(f, rest)[rest]
      <3>1. rest \in SUBSET rest
        OBVIOUS
      <3> HIDE DEF rest
      <3> QED
        BY <1>1, <2>1, <2>2, <3>1, SumUnique
    <2>4. SumFn(f, S)[S] = f[Pick(S)] + SumFn(f, S)[rest]
      BY <1>1, <1>3 DEF IsSum
    <2> QED
      BY <1>3, <2>3, <2>4, SumDef
  <1> QED
    BY <1>2, <1>3

(* The sum of integers is an integer. *)
LEMMA SumType ==
  ASSUME NEW S, IsFiniteSet(S), NEW f, \A x \in S : f[x] \in Int
  PROVE  SumFunctionOnSet(f, S) \in Int
  <1> DEFINE bad == {s \in SUBSET S : SumFunctionOnSet(f, s) \notin Int}
  <1>1. SUFFICES ASSUME bad # {} PROVE FALSE
    OBVIOUS
  <1>2. PICK s \in bad : \A t \in bad : t \subseteq s => t = s
    <2>1. bad \subseteq SUBSET S
      OBVIOUS
    <2> HIDE DEF bad
    <2> QED
      BY <1>1, <2>1, MinimalSet
  <1>3. IsFiniteSet(s)
    BY FS_Subset
  <1>4. s # {} /\ SumFunctionOnSet(f, s) = f[Pick(s)] + SumFunctionOnSet(f, s \ {Pick(s)})
    BY <1>3, SumRecursion
  <1>5. Pick(s) \in S /\ SumFunctionOnSet(f, s \ {Pick(s)}) \in Int
    BY <1>2, <1>4, PickOne
  <1> QED
    BY <1>2, <1>4, <1>5

(* Any element may be taken first. *)
LEMMA SumRemove ==
  ASSUME NEW S, IsFiniteSet(S), NEW f, \A x \in S : f[x] \in Int, NEW x \in S
  PROVE  SumFunctionOnSet(f, S) = f[x] + SumFunctionOnSet(f, S \ {x})
  <1> DEFINE sum(s) == SumFunctionOnSet(f, s)
             bad == {s \in SUBSET S : \E y \in s : sum(s) # f[y] + sum(s \ {y})}
  <1>1. SUFFICES ASSUME bad # {} PROVE FALSE
    OBVIOUS
  <1>2. PICK s \in bad : \A t \in bad : t \subseteq s => t = s
    <2>1. bad \subseteq SUBSET S
      OBVIOUS
    <2> HIDE DEF bad
    <2> QED
      BY <1>1, <2>1, MinimalSet
  <1>3. PICK y \in s : sum(s) # f[y] + sum(s \ {y})
    BY <1>2
  <1> DEFINE p == Pick(s)
  <1>4. IsFiniteSet(s) /\ p \in s
    BY <1>3, FS_Subset, PickOne
  <1>5. sum(s) = f[p] + sum(s \ {p})
    BY <1>3, <1>4, SumRecursion
  <1>6. y # p
    BY <1>3, <1>5
  <1>7. s \ {p} \notin bad /\ s \ {y} \notin bad
    BY <1>2, <1>4
  <1>8. /\ sum(s \ {p}) = f[y] + sum((s \ {p}) \ {y})
        /\ sum(s \ {y}) = f[p] + sum((s \ {y}) \ {p})
    BY <1>4, <1>6, <1>7
  <1>9. (s \ {p}) \ {y} = (s \ {y}) \ {p}
    OBVIOUS
  <1>10. \A t \in SUBSET S : sum(t) \in Int
    BY SumType, FS_Subset
  <1>11. f[y] \in Int /\ f[p] \in Int /\ sum((s \ {y}) \ {p}) \in Int
    BY <1>4, <1>10
  <1>12. sum(s) = f[p] + (f[y] + sum((s \ {y}) \ {p}))
    BY <1>5, <1>8, <1>9
  <1>13. sum(s) = f[y] + (f[p] + sum((s \ {y}) \ {p}))
    BY <1>11, <1>12
  <1> QED
    BY <1>3, <1>8, <1>13

(* A sum looks at nothing but the values on its set. *)
LEMMA SumEqual ==
  ASSUME NEW S, IsFiniteSet(S), NEW f, NEW g, \A x \in S : f[x] = g[x]
  PROVE  SumFunctionOnSet(f, S) = SumFunctionOnSet(g, S)
  <1> DEFINE bad == {s \in SUBSET S : SumFunctionOnSet(f, s) # SumFunctionOnSet(g, s)}
  <1>1. SUFFICES ASSUME bad # {} PROVE FALSE
    OBVIOUS
  <1>2. PICK s \in bad : \A t \in bad : t \subseteq s => t = s
    <2>1. bad \subseteq SUBSET S
      OBVIOUS
    <2> HIDE DEF bad
    <2> QED
      BY <1>1, <2>1, MinimalSet
  <1>3. IsFiniteSet(s)
    BY FS_Subset
  <1>4. s # {}
    BY <1>3, SumRecursion
  <1>5. s \ {Pick(s)} \notin bad /\ Pick(s) \in S
    BY <1>2, <1>4, PickOne
  <1> QED
    BY <1>2, <1>3, <1>4, <1>5, SumRecursion

(* The sum of nothing. *)
LEMMA SumEmpty ==
  ASSUME NEW f
  PROVE  SumFunctionOnSet(f, {}) = 0
  BY SumRecursion, FS_EmptySet

(* One more element adds its value. *)
LEMMA SumAdd ==
  ASSUME NEW S, IsFiniteSet(S), NEW f, \A x \in S : f[x] \in Int,
         NEW g, NEW e, e \notin S, g[e] \in Int, \A x \in S : g[x] = f[x]
  PROVE  SumFunctionOnSet(g, S \cup {e}) = SumFunctionOnSet(f, S) + g[e]
  <1>1. IsFiniteSet(S \cup {e}) /\ (S \cup {e}) \ {e} = S
    BY FS_AddElement
  <1>2. SumFunctionOnSet(g, S \cup {e}) = g[e] + SumFunctionOnSet(g, S)
    BY <1>1, SumRemove
  <1>3. SumFunctionOnSet(g, S) = SumFunctionOnSet(f, S) /\ SumFunctionOnSet(f, S) \in Int
    BY SumEqual, SumType
  <1> QED
    BY <1>2, <1>3

(* The same with one function. *)
LEMMA SumInsert ==
  ASSUME NEW S, IsFiniteSet(S), NEW f, \A x \in S : f[x] \in Int, NEW e, e \notin S, f[e] \in Int
  PROVE  SumFunctionOnSet(f, S \cup {e}) = SumFunctionOnSet(f, S) + f[e]
  BY SumAdd

(* A change of one value changes the sum by the difference. *)
LEMMA SumChange ==
  ASSUME NEW S, IsFiniteSet(S), NEW f, \A x \in S : f[x] \in Int,
         NEW g, NEW e \in S, g[e] \in Int, \A x \in S \ {e} : g[x] = f[x]
  PROVE  SumFunctionOnSet(g, S) = SumFunctionOnSet(f, S) - f[e] + g[e]
  <1>1. IsFiniteSet(S \ {e})
    BY FS_Subset
  <1>2. /\ SumFunctionOnSet(f, S) = f[e] + SumFunctionOnSet(f, S \ {e})
        /\ SumFunctionOnSet(g, S) = g[e] + SumFunctionOnSet(g, S \ {e})
    BY SumRemove
  <1>3. /\ SumFunctionOnSet(g, S \ {e}) = SumFunctionOnSet(f, S \ {e})
        /\ SumFunctionOnSet(f, S \ {e}) \in Int
    BY <1>1, SumEqual, SumType
  <1> QED
    BY <1>2, <1>3

(* Two sets that share nothing are added up apart. *)
LEMMA SumUnion ==
  ASSUME NEW S, IsFiniteSet(S), NEW T, IsFiniteSet(T), S \cap T = {},
         NEW f, \A x \in S \cup T : f[x] \in Int
  PROVE  SumFunctionOnSet(f, S \cup T) = SumFunctionOnSet(f, S) + SumFunctionOnSet(f, T)
  <1> DEFINE sum(s) == SumFunctionOnSet(f, s)
             bad == {s \in SUBSET T : sum(S \cup s) # sum(S) + sum(s)}
  <1>1. SUFFICES ASSUME bad # {} PROVE FALSE
    OBVIOUS
  <1>2. PICK s \in bad : \A t \in bad : t \subseteq s => t = s
    <2>1. bad \subseteq SUBSET T
      OBVIOUS
    <2> HIDE DEF bad
    <2> QED
      BY <1>1, <2>1, MinimalSet
  <1>3. sum(S) \in Int
    BY SumType
  <1>4. s # {}
    <2>1. S \cup {} = S /\ sum({}) = 0
      BY SumEmpty
    <2>2. sum(S \cup {}) = sum(S) + sum({})
      BY <1>3, <2>1
    <2>3. sum(S \cup s) # sum(S) + sum(s)
      BY <1>2
    <2> HIDE DEF sum
    <2> QED
      BY <2>2, <2>3
  <1> DEFINE x == Pick(s)
             r == s \ {x}
  <1>5. x \in s /\ x \notin r /\ r # s /\ r \in SUBSET T /\ x \notin S \cup r
    BY <1>2, <1>4, PickOne
  <1>6. IsFiniteSet(r) /\ IsFiniteSet(S \cup r)
    BY <1>5, FiniteSub, FiniteUnion
  <1>7. r \notin bad
    BY <1>2, <1>5
  <1>8. s = r \cup {x} /\ S \cup s = (S \cup r) \cup {x} /\ f[x] \in Int
    BY <1>2, <1>5
  <1>9. \A y \in S \cup r : f[y] \in Int
    BY <1>5
  <1> HIDE DEF x, r
  <1>10. sum(s) = sum(r) + f[x] /\ sum(r) \in Int
    BY <1>5, <1>6, <1>8, <1>9, SumInsert, SumType
  <1>11. sum(S \cup s) = sum(S \cup r) + f[x]
    BY <1>5, <1>6, <1>8, <1>9, SumInsert
  <1>12. sum(S \cup r) = sum(S) + sum(r)
    BY <1>5, <1>7
  <1>13. sum(S \cup s) = sum(S) + sum(s)
    <2> HIDE DEF sum
    <2> QED
      BY <1>3, <1>8, <1>10, <1>11, <1>12
  <1> QED
    BY <1>2, <1>13

(* A set in parts is added up part by part: p gives the part of a key. *)
LEMMA SumPartition ==
  ASSUME NEW W, IsFiniteSet(W), NEW S, IsFiniteSet(S), NEW p \in [W -> SUBSET S],
         \A v, w \in W : v # w => p[v] \cap p[w] = {},
         NEW f, \A x \in S : f[x] \in Int,
         NEW h, \A w \in W : h[w] = SumFunctionOnSet(f, p[w])
  PROVE  SumFunctionOnSet(f, UNION {p[w] : w \in W}) = SumFunctionOnSet(h, W)
  <1> DEFINE all(V) == UNION {p[w] : w \in V}
             bad == {V \in SUBSET W : SumFunctionOnSet(f, all(V)) # SumFunctionOnSet(h, V)}
  <1>1. SUFFICES ASSUME bad # {} PROVE FALSE
    OBVIOUS
  <1>2. PICK V \in bad : \A U \in bad : U \subseteq V => U = V
    <2>1. bad \subseteq SUBSET W
      OBVIOUS
    <2> HIDE DEF bad
    <2> QED
      BY <1>1, <2>1, MinimalSet
  <1>3. V # {}
    <2>1. all({}) = {}
      OBVIOUS
    <2> QED
      BY <1>2, <2>1, SumEmpty
  <1> DEFINE w == Pick(V)
             U == V \ {w}
  <1>4. w \in V /\ w \notin U /\ U # V /\ U \in SUBSET W /\ w \in W
    BY <1>2, <1>3, PickOne
  <1>5. SumFunctionOnSet(f, all(U)) = SumFunctionOnSet(h, U)
    BY <1>2, <1>4
  <1>6. V = U \cup {w}
    BY <1>4
  <1>7. all(V) = all(U) \cup p[w] /\ all(U) \cap p[w] = {}
    BY <1>4, <1>6
  <1>8. all(U) \subseteq S /\ p[w] \subseteq S
    BY <1>4
  <1> HIDE DEF all, w, U
  <1>9. IsFiniteSet(all(U)) /\ IsFiniteSet(p[w]) /\ IsFiniteSet(U)
    BY <1>4, <1>8, FiniteSub
  <1>10. SumFunctionOnSet(f, all(V)) = SumFunctionOnSet(f, all(U)) + SumFunctionOnSet(f, p[w])
    BY <1>7, <1>8, <1>9, SumUnion
  <1>11. \A v \in W : h[v] \in Int
    BY FiniteSub, SumType
  <1>12. SumFunctionOnSet(h, V) = SumFunctionOnSet(h, U) + h[w]
    BY <1>4, <1>6, <1>9, <1>11, SumInsert
  <1> QED
    BY <1>2, <1>4, <1>5, <1>10, <1>12

(* The sum over one element. *)
LEMMA SumOne ==
  ASSUME NEW f, NEW x, f[x] \in Int
  PROVE  IsFiniteSet({x}) /\ SumFunctionOnSet(f, {x}) = f[x]
  <1>1. IsFiniteSet({}) /\ {x} = {} \cup {x}
    BY FS_EmptySet
  <1>2. IsFiniteSet({x}) /\ x \in {x} /\ {x} \ {x} = {}
    BY <1>1, FiniteAdd
  <1>3. SumFunctionOnSet(f, {x}) = f[x] + SumFunctionOnSet(f, {})
    BY <1>2, SumRemove
  <1> QED
    BY <1>2, <1>3, SumEmpty

(* Nothing but zeros adds up to zero. *)
LEMMA SumZero ==
  ASSUME NEW S, IsFiniteSet(S), NEW f, \A x \in S : f[x] = 0
  PROVE  SumFunctionOnSet(f, S) = 0
  <1> DEFINE bad == {s \in SUBSET S : SumFunctionOnSet(f, s) # 0}
  <1>1. SUFFICES ASSUME bad # {} PROVE FALSE
    OBVIOUS
  <1>2. PICK s \in bad : \A t \in bad : t \subseteq s => t = s
    <2>1. bad \subseteq SUBSET S
      OBVIOUS
    <2> HIDE DEF bad
    <2> QED
      BY <1>1, <2>1, MinimalSet
  <1>3. IsFiniteSet(s)
    BY FiniteSub
  <1>4. s # {} /\ SumFunctionOnSet(f, s) = f[Pick(s)] + SumFunctionOnSet(f, s \ {Pick(s)})
    BY <1>3, SumRecursion
  <1>5. f[Pick(s)] = 0 /\ SumFunctionOnSet(f, s \ {Pick(s)}) = 0
    BY <1>2, <1>4, PickOne
  <1> QED
    BY <1>2, <1>4, <1>5
=============================================================================
