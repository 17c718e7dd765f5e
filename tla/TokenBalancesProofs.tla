------------------------- MODULE TokenBalancesProofs -------------------------
(* Theorems about TokenBalances, for lists of accounts of any length.      *)
EXTENDS TokenBalances, TLAPS, SequenceTheorems, FiniteSetTheorems, WellFoundedInduction

(***************************************************************************)
(* Induction over the natural numbers, for a set of numbers.               *)
(***************************************************************************)
LEMMA NaturalsInSet ==
  ASSUME NEW S, 0 \in S, \A n \in S \cap Nat : n + 1 \in S
  PROVE  Nat \subseteq S
<1>. DEFINE T == Nat \ S
<1>1. ASSUME T # {} PROVE FALSE
  <2>. DEFINE R == OpToRel(<, Nat)
  <2>1. IsWellFoundedOn(R, Nat)
    BY NatLessThanWellFounded
  <2>2. R = {p \in Nat \X Nat : p[1] < p[2]}
    BY Zenon DEF OpToRel
  <2>3. T \subseteq Nat
    OBVIOUS
  <2>. HIDE DEF R
  <2>4. PICK n \in T : \A m \in T : ~(<<m, n>> \in R)
    <3>. HIDE DEF T
    <3>. QED
      BY <1>1, <2>1, <2>3, WFMin
  <2>5. \A m \in T : ~(m < n)
    BY <2>2, <2>4
  <2>6. n # 0 /\ n - 1 \in Nat /\ n - 1 \notin T
    BY <2>5
  <2>7. n - 1 \in S \cap Nat
    BY <2>6
  <2>8. (n - 1) + 1 \in S
    BY <2>7
  <2>. QED
    BY <2>6, <2>8
<1>. QED
  BY <1>1

-----------------------------------------------------------------------------
(***************************************************************************)
(* The loop of extract_token_balances.                                     *)
(***************************************************************************)
(* f is the function that TokenPlaces recurs in, for the first n accounts. *)
Placed(list, n, f) ==
  f = [k \in 0 .. n |->
         IF k = 0 THEN <<>>
         ELSE IF IsToken(list[k]) THEN Append(f[k - 1], k) ELSE f[k - 1]]

LEMMA PlacedExists ==
  ASSUME NEW list, NEW n \in Nat
  PROVE  \E f : Placed(list, n, f)
<1>. DEFINE D == {k \in Nat : \E f : Placed(list, k, f)}
<1>1. 0 \in D
  <2>1. Placed(list, 0, [k \in 0 .. 0 |-> <<>>])
    BY DEF Placed
  <2>. QED
    BY <2>1
<1>2. ASSUME NEW k \in D \cap Nat PROVE k + 1 \in D
  <2>1. PICK f : Placed(list, k, f)
    OBVIOUS
  <2>. DEFINE next == IF IsToken(list[k + 1]) THEN Append(f[k], k + 1) ELSE f[k]
              g == [i \in 0 .. k + 1 |-> IF i = k + 1 THEN next ELSE f[i]]
  <2>2. ASSUME NEW i \in 0 .. k + 1
        PROVE  g[i] = IF i = 0 THEN <<>>
                      ELSE IF IsToken(list[i]) THEN Append(g[i - 1], i) ELSE g[i - 1]
    <3>1. CASE i = k + 1
      <4>1. g[i] = next /\ i # 0 /\ i - 1 = k /\ g[k] = f[k]
        BY <3>1
      <4>. QED
        BY <3>1, <4>1
    <3>2. CASE i \in 0 .. k
      <4>1. f[i] = IF i = 0 THEN <<>>
                   ELSE IF IsToken(list[i]) THEN Append(f[i - 1], i) ELSE f[i - 1]
        BY <2>1, <3>2 DEF Placed
      <4>2. g[i] = f[i] /\ (i # 0 => g[i - 1] = f[i - 1])
        BY <3>2
      <4>. QED
        BY <4>1, <4>2
    <3>. QED
      BY <3>1, <3>2
  <2>3. Placed(list, k + 1, g)
    BY <2>2 DEF Placed
  <2>4. k + 1 \in Nat
    OBVIOUS
  <2>. HIDE DEF g
  <2>. QED
    BY <2>3, <2>4
<1>3. n \in D
  <2>. HIDE DEF D
  <2>. QED
    BY <1>1, <1>2, NaturalsInSet
<1>. QED
  BY <1>3

LEMMA PlacesSteps ==
  ASSUME NEW list, Len(list) \in Nat
  PROVE  \E f : /\ TokenPlaces(list) = f[Len(list)] /\ f[0] = <<>>
                /\ \A k \in 1 .. Len(list) :
                     f[k] = IF IsToken(list[k]) THEN Append(f[k - 1], k) ELSE f[k - 1]
<1>. DEFINE F == CHOOSE f : Placed(list, Len(list), f)
<1>1. Placed(list, Len(list), F)
  BY PlacedExists
<1>2. TokenPlaces(list) = F[Len(list)]
  BY DEF TokenPlaces, Placed
<1>. HIDE DEF F
<1>3. F[0] = <<>>
  BY <1>1 DEF Placed
<1>4. ASSUME NEW k \in 1 .. Len(list)
      PROVE  F[k] = IF IsToken(list[k]) THEN Append(F[k - 1], k) ELSE F[k - 1]
  <2>1. k \in 0 .. Len(list) /\ k # 0
    OBVIOUS
  <2>. QED
    BY <1>1, <2>1 DEF Placed
<1>. QED
  BY <1>2, <1>3, <1>4

(* p holds the places of the token accounts among the first k of the list. *)
Places(list, k, p) ==
  /\ p \in Seq(Nat)
  /\ \A n \in 1 .. Len(p) : p[n] \in 1 .. k /\ IsToken(list[p[n]])
  /\ \A i \in 1 .. k : IsToken(list[i]) => \E n \in 1 .. Len(p) : p[n] = i

LEMMA PlacesComplete ==
  ASSUME NEW list, Len(list) \in Nat
  PROVE  Places(list, Len(list), TokenPlaces(list))
<1>. DEFINE m == Len(list)
<1>1. PICK f : /\ TokenPlaces(list) = f[Len(list)] /\ f[0] = <<>>
               /\ \A k \in 1 .. Len(list) :
                    f[k] = IF IsToken(list[k]) THEN Append(f[k - 1], k) ELSE f[k - 1]
  BY PlacesSteps
<1>. DEFINE D == {k \in Nat : k \in 0 .. m => Places(list, k, f[k])}
<1>2. 0 \in D
  <2>1. f[0] \in Seq(Nat) /\ Len(f[0]) = 0
    BY <1>1
  <2>2. Places(list, 0, f[0])
    BY <2>1 DEF Places
  <2>. QED
    BY <2>2
<1>3. ASSUME NEW k \in D \cap Nat PROVE k + 1 \in D
  <2>1. CASE k + 1 \in 1 .. m
    <3>1. k \in 0 .. m /\ (k + 1) - 1 = k
      BY <2>1
    <3>2. Places(list, k, f[k])
      BY <3>1
    <3>3. f[k + 1] = IF IsToken(list[k + 1]) THEN Append(f[k], k + 1) ELSE f[k]
      BY <2>1, <3>1, <1>1
    <3>4. CASE IsToken(list[k + 1])
      <4>1. /\ f[k + 1] \in Seq(Nat) /\ Len(f[k]) \in Nat /\ Len(f[k + 1]) = Len(f[k]) + 1
            /\ f[k + 1][Len(f[k]) + 1] = k + 1
            /\ \A n \in 1 .. Len(f[k]) : f[k + 1][n] = f[k][n]
        BY <3>2, <3>3, <3>4, AppendProperties, LenProperties DEF Places
      <4>2. ASSUME NEW n \in 1 .. Len(f[k + 1])
            PROVE  f[k + 1][n] \in 1 .. k + 1 /\ IsToken(list[f[k + 1][n]])
        <5>1. CASE n = Len(f[k]) + 1
          BY <5>1, <4>1, <3>4
        <5>2. CASE n \in 1 .. Len(f[k])
          <6>1. f[k][n] \in 1 .. k /\ IsToken(list[f[k][n]])
            BY <5>2, <3>2 DEF Places
          <6>2. f[k + 1][n] = f[k][n]
            BY <5>2, <4>1
          <6>. QED
            BY <6>1, <6>2
        <5>. QED
          BY <4>1, <5>1, <5>2
      <4>3. ASSUME NEW i \in 1 .. k + 1, IsToken(list[i])
            PROVE  \E n \in 1 .. Len(f[k + 1]) : f[k + 1][n] = i
        <5>1. CASE i = k + 1
          <6>1. Len(f[k]) + 1 \in 1 .. Len(f[k + 1])
            BY <4>1
          <6>. QED
            BY <5>1, <6>1, <4>1
        <5>2. CASE i \in 1 .. k
          <6>1. PICK n \in 1 .. Len(f[k]) : f[k][n] = i
            BY <5>2, <4>3, <3>2 DEF Places
          <6>2. f[k + 1][n] = f[k][n] /\ n \in 1 .. Len(f[k + 1])
            BY <4>1
          <6>3. n \in 1 .. Len(f[k + 1]) /\ f[k + 1][n] = i
            BY ONLY <6>1, <6>2
          <6>. QED
            BY <6>3
        <5>. QED
          BY <5>1, <5>2
      <4>4. Places(list, k + 1, f[k + 1])
        BY <4>1, <4>2, <4>3 DEF Places
      <4>. QED
        BY <4>4
    <3>5. CASE ~IsToken(list[k + 1])
      <4>1. f[k + 1] = f[k]
        BY <3>3, <3>5
      <4>2. Places(list, k + 1, f[k + 1])
        BY <3>2, <3>5, <4>1 DEF Places
      <4>. QED
        BY <4>2
    <3>. QED
      BY <3>4, <3>5
  <2>2. CASE k + 1 \notin 1 .. m
    BY <2>2
  <2>. QED
    BY <2>1, <2>2
<1>4. Nat \subseteq D
  <2>. HIDE DEF D
  <2>. QED
    BY <1>2, <1>3, NaturalsInSet
<1>5. Places(list, m, f[m])
  BY <1>4
<1>. QED
  BY <1>1, <1>5

(* The entries of b are those of the token accounts of the list. *)
Balances(list, b) ==
  /\ \A n \in DOMAIN b : \E i \in 1 .. Len(list) : IsToken(list[i]) /\ b[n] = token_balance(list, i)
  /\ \A i \in 1 .. Len(list) : IsToken(list[i]) => \E n \in DOMAIN b : b[n] = token_balance(list, i)

LEMMA Extracted ==
  ASSUME NEW list, Len(list) \in Nat
  PROVE  Balances(list, extract_token_balances(list))
<1>. DEFINE p == TokenPlaces(list)
            b == extract_token_balances(list)
<1>1. Places(list, Len(list), p)
  BY PlacesComplete
<1>2. DOMAIN b = DOMAIN p /\ \A n \in DOMAIN p : b[n] = token_balance(list, p[n])
  BY DEF extract_token_balances
<1>. HIDE DEF p, b
<1>3. DOMAIN p = 1 .. Len(p)
  BY <1>1, LenProperties DEF Places
<1>4. Balances(list, b)
  BY <1>1, <1>2, <1>3 DEF Places, Balances
<1>. QED
  BY <1>4 DEF b

-----------------------------------------------------------------------------
(***************************************************************************)
(* What one entry says.                                                    *)
(***************************************************************************)
LEMMA PairAt ==
  ASSUME NEW list \in Seq(Pairs), NEW i \in 1 .. Len(list)
  PROVE  list[i] \in Pairs /\ list[i].key \in Addresses /\ list[i].acct \in Contents
<1>1. list[i] \in Pairs
  BY ElementOfSeq
<1>. QED
  BY <1>1 DEF Pairs

LEMMA TokenAt ==
  ASSUME NEW list \in Seq(Pairs), NEW i \in 1 .. Len(list), IsToken(list[i])
  PROVE  /\ list[i].acct.mint \in MintAddresses /\ list[i].acct.amount \in Amounts
         /\ list[i].acct = Token(list[i].acct.mint, list[i].acct.amount)
<1>1. list[i].acct \in Contents /\ list[i].acct.shape = "token"
  BY PairAt DEF IsToken
<1>2. PICK m \in MintAddresses, a \in Amounts : list[i].acct = Token(m, a)
  <2>1. Other.shape = "other" /\ \A d : Mint(d).shape = "mint"
    BY DEF Other, Mint
  <2>. QED
    BY <1>1, <2>1 DEF Contents
<1>3. Token(m, a).mint = m /\ Token(m, a).amount = a
  BY DEF Token
<1>. QED
  BY <1>2, <1>3

(* Looking an address up finds the state of one of its accounts. *)
LEMMA Found ==
  ASSUME NEW list \in Seq(Pairs), NEW k \in Keys(list)
  PROVE  \E i \in 1 .. Len(list) : list[i].key = k /\ find(list, k) = list[i].acct
<1>. DEFINE n == Len(list)
            First(i) == list[i].key = k /\ \A j \in 1 .. i - 1 : list[j].key # k
            None == {q \in Nat : \A j \in 1 .. q : j \in 1 .. n => list[j].key # k}
<1>1. n \in Nat /\ DOMAIN list = 1 .. n
  BY LenProperties
<1>2. ASSUME \A i \in 1 .. n : ~First(i) PROVE FALSE
  <2>1. 0 \in None
    OBVIOUS
  <2>2. ASSUME NEW q \in None \cap Nat PROVE q + 1 \in None
    <3>1. ASSUME q + 1 \in 1 .. n PROVE list[q + 1].key # k
      <4>1. (q + 1) - 1 = q /\ \A j \in 1 .. q : j \in 1 .. n
        BY <3>1
      <4>2. \A j \in 1 .. q : list[j].key # k
        BY <4>1
      <4>. QED
        BY <1>2, <3>1, <4>1, <4>2
    <3>2. ASSUME NEW j \in 1 .. q + 1, j \in 1 .. n PROVE list[j].key # k
      <4>1. CASE j = q + 1
        BY <3>1, <3>2, <4>1
      <4>2. CASE j \in 1 .. q
        BY <3>2, <4>2
      <4>. QED
        BY <4>1, <4>2
    <3>. QED
      BY <3>2
  <2>3. Nat \subseteq None
    <3>. HIDE DEF None
    <3>. QED
      BY <2>1, <2>2, NaturalsInSet
  <2>4. PICK i \in 1 .. n : list[i].key = k
    BY <1>1 DEF Keys
  <2>5. i \in None /\ i \in 1 .. i
    BY <2>3
  <2>. QED
    BY <2>4, <2>5
<1>3. PICK i \in 1 .. n : First(i)
  BY <1>2
<1>. DEFINE c == CHOOSE x \in DOMAIN list : First(x)
<1>4. c \in 1 .. n /\ First(c)
  <2>. HIDE DEF First
  <2>. QED
    BY <1>1, <1>3
<1>5. find(list, k) = list[c].acct
  BY DEF find
<1>. HIDE DEF c
<1>. QED
  BY <1>4, <1>5

LEMMA DecimalsType ==
  ASSUME NEW list \in Seq(Pairs), NEW m
  PROVE  decimals_of(list, m) \in Decimals \cup {0}
<1>1. CASE m \in Keys(list) /\ find(list, m).shape = "mint"
  <2>1. PICK i \in 1 .. Len(list) : find(list, m) = list[i].acct
    BY <1>1, Found
  <2>2. list[i].acct \in Contents /\ list[i].acct.shape = "mint"
    BY <1>1, <2>1, PairAt
  <2>3. Other.shape = "other" /\ (\A t, a : Token(t, a).shape = "token")
        /\ \A d : Mint(d).decimals = d
    BY DEF Other, Token, Mint
  <2>4. list[i].acct.decimals \in Decimals
    BY <2>2, <2>3 DEF Contents
  <2>. QED
    BY <1>1, <2>1, <2>4 DEF decimals_of
<1>2. CASE ~(m \in Keys(list) /\ find(list, m).shape = "mint")
  BY <1>2 DEF decimals_of
<1>. QED
  BY <1>1, <1>2

LEMMA EntryFields ==
  ASSUME NEW list, NEW i
  PROVE  LET e == token_balance(list, i)
         IN /\ e.account_index = i
            /\ e.mint = list[i].acct.mint /\ e.amount = list[i].acct.amount
            /\ e.decimals = decimals_of(list, e.mint)
BY DEF token_balance

-----------------------------------------------------------------------------
(***************************************************************************)
(* What merge_accounts makes of the database and a list.                   *)
(***************************************************************************)
Stored(db) ==
  /\ IsFiniteSet(DOMAIN db) /\ DOMAIN db \subseteq Addresses
  /\ \A k \in DOMAIN db : db[k] \in Contents

LEMMA KeysFinite ==
  ASSUME NEW list \in Seq(Pairs)
  PROVE  IsFiniteSet(Keys(list)) /\ Keys(list) \subseteq Addresses
<1>. DEFINE n == Len(list)
            S == 1 .. n
            K == Keys(list)
            f == [i \in S |-> list[i].key]
<1>1. n \in Nat /\ DOMAIN list = S
  BY LenProperties
<1>2. K = {list[i].key : i \in S}
  BY <1>1 DEF Keys
<1>3. f \in Surjection(S, K)
  <2>1. f \in [S -> K] /\ \A t \in K : \E s \in S : f[s] = t
    BY <1>2
  <2>. HIDE DEF f, K, S
  <2>. QED
    BY <2>1 DEF Surjection
<1>4. IsFiniteSet(S)
  BY <1>1, FS_Interval
<1>5. IsFiniteSet(K)
  <2>. HIDE DEF f, K, S
  <2>. QED
    BY <1>3, <1>4, FS_Surjection
<1>6. K \subseteq Addresses
  BY <1>2, PairAt
<1>. QED
  BY <1>5, <1>6

(* What is stored of a list is stored under its addresses. *)
LEMMA CommitType ==
  ASSUME Stored(accounts), NEW list \in Seq(Pairs)
  PROVE  Stored(commit_accounts(list))
<1>1. IsFiniteSet(Keys(list)) /\ Keys(list) \subseteq Addresses
  BY KeysFinite
<1>2. IsFiniteSet(DOMAIN accounts \cup Keys(list))
  BY <1>1, FS_Union DEF Stored
<1>3. ASSUME NEW k \in Keys(list)
      PROVE  last(list, k) \in Contents
  <2>. DEFINE n == Len(list)
              reversed == Reverse(list)
  <2>1. n \in Nat /\ DOMAIN list = 1 .. n /\ \A i \in 1 .. n : list[i] \in Pairs
    BY LenProperties
  <2>2. reversed = [i \in 1 .. n |-> list[(n - i) + 1]]
    BY DEF Reverse
  <2>3. reversed \in Seq(Pairs) /\ Len(reversed) = n /\ DOMAIN reversed = 1 .. n
    BY <2>1, <2>2
  <2>4. PICK i \in 1 .. n : list[i].key = k
    BY <1>3, <2>1 DEF Keys
  <2>5. (n - i) + 1 \in 1 .. n /\ reversed[(n - i) + 1] = list[i]
    BY <2>1, <2>2
  <2>. HIDE DEF reversed, n
  <2>6. k \in Keys(reversed)
    BY <2>3, <2>4, <2>5 DEF Keys
  <2>7. \E j \in 1 .. Len(reversed) : find(reversed, k) = reversed[j].acct
    BY <2>3, <2>6, Found
  <2>8. find(reversed, k) \in Contents
    BY <2>3, <2>7, PairAt
  <2>. QED
    BY <2>8 DEF last, reversed
<1>. QED
  BY <1>1, <1>2, <1>3 DEF Stored, commit_accounts

(* A sequence of a set names all its elements. *)
LEMMA SequenceOfSet ==
  ASSUME NEW S, IsFiniteSet(S), NEW ks \in SetToSeqs(S)
  PROVE  /\ ks \in Seq(S)
         /\ \A k \in S : \E i \in 1 .. Len(ks) : ks[i] = k
<1>. DEFINE n == Cardinality(S)
            D == 1 .. n
<1>1. n \in Nat
  BY FS_CardinalityType
<1>2. IsFiniteSet(D) /\ Cardinality(D) = n
  BY <1>1, FS_Interval
<1>3. ks \in [D -> S] /\ \A i, j \in D : i # j => ks[i] # ks[j]
  BY DEF SetToSeqs
<1>4. ks \in Seq(S) /\ Len(ks) = n
  BY <1>1, <1>3
<1>. HIDE DEF D
<1>5. ks \in Injection(D, S)
  BY <1>3 DEF Injection, IsInjective
<1>6. ks \in Surjection(D, S)
  BY <1>2, <1>5, FS_Injection
<1>. QED
  BY <1>4, <1>6 DEF D, Surjection

(* Every merged account was passed, or was stored and not passed. *)
Merges(list, merged) ==
  /\ merged \in Seq(Pairs)
  /\ \A i \in 1 .. Len(merged) :
       \/ \E j \in 1 .. Len(list) : merged[i] = list[j]
       \/ \E k \in DOMAIN accounts \ Keys(list) : merged[i] = [key |-> k, acct |-> accounts[k]]
  /\ \A j \in 1 .. Len(list) : \E i \in 1 .. Len(merged) : merged[i] = list[j]
  /\ \A k \in DOMAIN accounts \ Keys(list) :
       \E i \in 1 .. Len(merged) : merged[i] = [key |-> k, acct |-> accounts[k]]

LEMMA Merged ==
  ASSUME Stored(accounts), NEW list \in Seq(Pairs), NEW merged \in merge_accounts(list)
  PROVE  Merges(list, merged)
<1>. DEFINE S == DOMAIN accounts \ Keys(list)
            pair(k) == [key |-> k, acct |-> accounts[k]]
<1>1. PICK ks \in SetToSeqs(S) : merged = [i \in DOMAIN ks |-> pair(ks[i])] \o list
  BY DEF merge_accounts
<1>2. ks \in Seq(S) /\ \A k \in S : \E i \in 1 .. Len(ks) : ks[i] = k
  <2>1. IsFiniteSet(S)
    BY FS_Subset DEF Stored
  <2>. HIDE DEF S
  <2>. QED
    BY <2>1, SequenceOfSet
<1>. DEFINE n == Len(ks)
            front == [i \in 1 .. n |-> pair(ks[i])]
<1>3. n \in Nat /\ DOMAIN ks = 1 .. n /\ merged = front \o list
  BY <1>1, <1>2, LenProperties
<1>4. ASSUME NEW k \in S PROVE pair(k) \in Pairs
  BY DEF Stored, Pairs
<1>5. \A i \in 1 .. n : ks[i] \in S
  BY <1>2, ElementOfSeq
<1>6. front \in Seq(Pairs) /\ Len(front) = n
  BY <1>3, <1>4, <1>5
<1>7. \A i \in 1 .. n : front[i] = pair(ks[i])
  OBVIOUS
<1>. HIDE DEF front, n, S, pair
<1>8. /\ merged \in Seq(Pairs) /\ Len(list) \in Nat /\ Len(merged) = n + Len(list)
      /\ \A i \in 1 .. n + Len(list) : merged[i] = IF i <= n THEN front[i] ELSE list[i - n]
  BY <1>3, <1>6, ConcatProperties, LenProperties
<1>9. ASSUME NEW i \in 1 .. Len(merged)
      PROVE  \/ \E j \in 1 .. Len(list) : merged[i] = list[j]
             \/ \E k \in S : merged[i] = pair(k)
  <2>1. CASE i <= n
    BY <2>1, <1>3, <1>5, <1>7, <1>8
  <2>2. CASE ~(i <= n)
    <3>1. i - n \in 1 .. Len(list) /\ merged[i] = list[i - n]
      BY <2>2, <1>3, <1>8
    <3>. QED
      BY <3>1
  <2>. QED
    BY <2>1, <2>2
<1>10. ASSUME NEW j \in 1 .. Len(list) PROVE \E i \in 1 .. Len(merged) : merged[i] = list[j]
  <2>1. n + j \in 1 .. Len(merged) /\ ~(n + j <= n) /\ (n + j) - n = j
    BY <1>3, <1>8
  <2>2. merged[n + j] = list[j]
    BY <2>1, <1>8
  <2>. QED
    BY <2>1, <2>2
<1>11. ASSUME NEW k \in S PROVE \E i \in 1 .. Len(merged) : merged[i] = pair(k)
  <2>1. PICK i \in 1 .. n : ks[i] = k
    BY <1>2 DEF n
  <2>2. i \in 1 .. Len(merged) /\ merged[i] = front[i]
    BY <1>3, <1>8
  <2>. QED
    BY <2>1, <2>2, <1>7
<1>. QED
  BY <1>8, <1>9, <1>10, <1>11 DEF Merges, S, pair

-----------------------------------------------------------------------------
(***************************************************************************)
(* The inductive invariant: the database is finite and typed, and the      *)
(* balances of a result are those of a merged list and of its accounts,    *)
(* which are as long as each other.                                        *)
(***************************************************************************)
Reports(r, merged) ==
  /\ merged \in Seq(Pairs) /\ r.accounts \in Seq(Pairs) /\ Len(merged) = Len(r.accounts)
  /\ \A i \in 1 .. Len(merged) : r.accounts[i].key = merged[i].key
  /\ Balances(merged, r.pre)
  /\ Balances(r.accounts, r.post)

IInv == Stored(accounts) /\ (result = NoResult \/ \E merged : Reports(result, merged))

LEMMA Executed ==
  ASSUME Stored(accounts), NEW list \in Seq(Pairs), NEW merged \in merge_accounts(list),
         succeed(list, merged) \/ fail(list, merged)
  PROVE  Stored(accounts') /\ passed' = list /\ Reports(result', merged)
<1>1. merged \in Seq(Pairs) /\ Len(merged) \in Nat /\ DOMAIN merged = 1 .. Len(merged)
  BY Merged, LenProperties DEF Merges
<1>2. ASSUME NEW ok, NEW resulting \in Seq(Pairs), NEW stored, Stored(stored),
             Len(resulting) = Len(merged),
             \A i \in 1 .. Len(merged) : resulting[i].key = merged[i].key,
             execute_inner(list, merged, ok, resulting, stored)
      PROVE  Stored(accounts') /\ passed' = list /\ Reports(result', merged)
  <2>. DEFINE pre == extract_token_balances(merged)
              post == extract_token_balances(resulting)
  <2>1. /\ passed' = list /\ accounts' = stored
        /\ result' = [ok |-> ok, accounts |-> resulting, pre |-> pre, post |-> post]
    BY <1>2 DEF execute_inner, token_balances
  <2>2. Balances(merged, pre) /\ Balances(resulting, post)
    BY <1>1, <1>2, Extracted
  <2>. HIDE DEF pre, post
  <2>3. Reports(result', merged)
    BY <1>1, <1>2, <2>1, <2>2 DEF Reports
  <2>. QED
    BY <1>2, <2>1, <2>3
<1>3. CASE succeed(list, merged)
  <2>0. PICK named \in SUBSET Keys(merged) : \E new \in [named -> Contents] :
          \E stored \in {accounts, commit_accounts(deconstruct_resulting_accounts(merged, new))} :
            execute_inner(list, merged, TRUE, deconstruct_resulting_accounts(merged, new), stored)
    BY <1>3 DEF succeed
  <2>1. PICK new \in [named -> Contents] :
          \E stored \in {accounts, commit_accounts(deconstruct_resulting_accounts(merged, new))} :
            execute_inner(list, merged, TRUE, deconstruct_resulting_accounts(merged, new), stored)
    BY <2>0
  <2>. DEFINE resulting == deconstruct_resulting_accounts(merged, new)
  <2>2. ASSUME NEW i \in 1 .. Len(merged)
        PROVE  /\ resulting[i] \in Pairs
               /\ resulting[i].key = merged[i].key
    <3>1. merged[i] \in Pairs
      BY <1>1
    <3>2. DOMAIN new = named
      OBVIOUS
    <3>3. resulting[i] = IF merged[i].key \in named
                         THEN [merged[i] EXCEPT !.acct = new[merged[i].key]]
                         ELSE merged[i]
      BY <1>1, <3>2 DEF deconstruct_resulting_accounts
    <3>4. CASE merged[i].key \in named
      <4>1. new[merged[i].key] \in Contents
        BY <3>4
      <4>. QED
        BY <3>1, <3>3, <3>4, <4>1 DEF Pairs
    <3>5. CASE merged[i].key \notin named
      BY <3>1, <3>3, <3>5
    <3>. QED
      BY <3>4, <3>5
  <2>3. /\ resulting \in Seq(Pairs) /\ Len(resulting) = Len(merged)
        /\ \A i \in 1 .. Len(merged) : resulting[i].key = merged[i].key
    <3>1. resulting = [i \in 1 .. Len(merged) |-> resulting[i]]
      BY <1>1 DEF deconstruct_resulting_accounts
    <3>. HIDE DEF resulting
    <3>. QED
      BY <1>1, <2>2, <3>1
  <2>. HIDE DEF resulting
  <2>4. Stored(commit_accounts(resulting))
    BY <2>3, CommitType
  <2>5. PICK stored \in {accounts, commit_accounts(resulting)} :
          execute_inner(list, merged, TRUE, resulting, stored)
    BY <2>1 DEF resulting
  <2>. QED
    BY <1>2, <2>3, <2>4, <2>5
<1>4. CASE fail(list, merged)
  BY <1>1, <1>2, <1>4 DEF fail
<1>. QED
  BY <1>3, <1>4

LEMMA BoundedIsSeq == BoundedSeq(Pairs, MaxList) \subseteq Seq(Pairs)
BY DEF BoundedSeq, SeqOf

LEMMA Invariance == Spec => []IInv
<1>1. Init => IInv
  BY FS_EmptySet DEF Init, IInv, Stored
<1>2. IInv /\ [Next]_vars => IInv'
  <2>. SUFFICES ASSUME IInv, [Next]_vars PROVE IInv'
    OBVIOUS
  <2>1. ASSUME NEW list \in BoundedSeq(Pairs, MaxList), NEW merged \in merge_accounts(list),
               succeed(list, merged) \/ fail(list, merged)
        PROVE  IInv'
    <3>1. list \in Seq(Pairs)
      BY BoundedIsSeq
    <3>2. Stored(accounts') /\ Reports(result', merged)
      BY <2>1, <3>1, Executed DEF IInv
    <3>. QED
      BY <3>2 DEF IInv
  <2>2. CASE drop_result
    BY <2>2 DEF drop_result, IInv
  <2>3. CASE UNCHANGED vars
    BY <2>3 DEF vars, IInv
  <2>. QED
    BY <2>1, <2>2, <2>3 DEF Next
<1>. QED
  BY <1>1, <1>2, PTL DEF Spec

(* A result's balances point into its list of accounts, those from before  *)
(* the call as well, although they were counted in another list.           *)
THEOREM TypesKept == Spec => []TypeOK
<1>1. IInv => TypeOK
  <2>. SUFFICES ASSUME IInv PROVE TypeOK
    OBVIOUS
  <2>1. /\ DOMAIN accounts \subseteq Addresses
        /\ \A k \in DOMAIN accounts : accounts[k] \in Contents
    BY DEF IInv, Stored
  <2>2. CASE result = NoResult
    <3>1. result.accounts = <<>> /\ result.pre = <<>> /\ result.post = <<>>
      BY <2>2 DEF NoResult
    <3>. QED
      BY <2>1, <3>1 DEF TypeOK
  <2>3. ASSUME NEW merged, Reports(result, merged) PROVE TypeOK
    <3>1. ASSUME NEW list \in Seq(Pairs), NEW b, Balances(list, b),
                 Len(list) = Len(result.accounts), NEW n \in DOMAIN b
          PROVE  /\ b[n].account_index \in DOMAIN result.accounts
                 /\ b[n].mint \in MintAddresses /\ b[n].amount \in Amounts
                 /\ b[n].decimals \in Decimals \cup {0}
      <4>1. PICK i \in 1 .. Len(list) : IsToken(list[i]) /\ b[n] = token_balance(list, i)
        BY <3>1 DEF Balances
      <4>2. DOMAIN result.accounts = 1 .. Len(list)
        BY <2>3, <3>1, LenProperties DEF Reports
      <4>3. list[i].acct.mint \in MintAddresses /\ list[i].acct.amount \in Amounts
        BY <4>1, TokenAt
      <4>4. decimals_of(list, b[n].mint) \in Decimals \cup {0}
        BY DecimalsType
      <4>. QED
        BY <4>1, <4>2, <4>3, <4>4, EntryFields
    <3>2. \A i \in DOMAIN result.accounts : result.accounts[i] \in Pairs
      BY <2>3, ElementOfSeq, LenProperties DEF Reports
    <3>. QED
      BY <2>1, <2>3, <3>1, <3>2 DEF TypeOK, Reports
  <2>. QED
    BY <2>2, <2>3 DEF IInv
<1>. QED
  BY <1>1, Invariance, PTL

(* The balances after a call are those of the accounts it returns.         *)
THEOREM PostMatchesAccountsAlways == Spec => []PostMatchesAccounts
<1>1. IInv => PostMatchesAccounts
  <2>. SUFFICES ASSUME IInv PROVE PostMatchesAccounts
    OBVIOUS
  <2>1. CASE result = NoResult
    <3>1. result.accounts = <<>> /\ result.post = <<>>
      BY <2>1 DEF NoResult
    <3>. QED
      BY <3>1 DEF PostMatchesAccounts
  <2>2. ASSUME NEW merged, Reports(result, merged) PROVE PostMatchesAccounts
    <3>. DEFINE list == result.accounts
                post == result.post
    <3>1. list \in Seq(Pairs) /\ Balances(list, post) /\ DOMAIN list = 1 .. Len(list)
      BY <2>2, LenProperties DEF Reports
    <3>. HIDE DEF list, post
    <3>2. ASSUME NEW n \in DOMAIN post
          PROVE  /\ post[n].account_index \in DOMAIN list
                 /\ IsToken(list[post[n].account_index])
                 /\ list[post[n].account_index].acct = Token(post[n].mint, post[n].amount)
      <4>1. PICK i \in 1 .. Len(list) : IsToken(list[i]) /\ post[n] = token_balance(list, i)
        BY <3>1 DEF Balances
      <4>2. list[i].acct = Token(list[i].acct.mint, list[i].acct.amount)
        BY <3>1, <4>1, TokenAt
      <4>. QED
        BY <3>1, <4>1, <4>2, EntryFields
    <3>3. ASSUME NEW i \in DOMAIN list, IsToken(list[i])
          PROVE  \E n \in DOMAIN post : post[n].account_index = i
      <4>1. PICK n \in DOMAIN post : post[n] = token_balance(list, i)
        BY <3>1, <3>3 DEF Balances
      <4>. QED
        BY <4>1, EntryFields
    <3>. QED
      BY <3>2, <3>3 DEF PostMatchesAccounts, list, post
  <2>. QED
    BY <2>1, <2>2 DEF IInv
<1>. QED
  BY <1>1, Invariance, PTL

(* All balances of a mint in a result are scaled alike, by the mint's      *)
(* decimals where the result has the mint in one state.                    *)
THEOREM DecimalsAreTheMintsAlways == Spec => []DecimalsAreTheMints
<1>1. IInv => DecimalsAreTheMints
  <2>. SUFFICES ASSUME IInv, NEW n \in DOMAIN result.post
                PROVE  LET e == result.post[n]
                           states == {result.accounts[i].acct :
                                        i \in {j \in DOMAIN result.accounts :
                                                 result.accounts[j].key = e.mint}}
                       IN /\ \A o \in DOMAIN result.post :
                               result.post[o].mint = e.mint =>
                                 result.post[o].decimals = e.decimals
                          /\ \A d \in Decimals : states = {Mint(d)} => e.decimals = d
    BY DEF DecimalsAreTheMints
  <2>. DEFINE list == result.accounts
              post == result.post
              e == post[n]
              states == {list[i].acct : i \in {j \in DOMAIN list : list[j].key = e.mint}}
  <2>1. PICK merged : Reports(result, merged)
    BY DEF IInv, NoResult
  <2>2. list \in Seq(Pairs) /\ Balances(list, post) /\ DOMAIN list = 1 .. Len(list)
    BY <2>1, LenProperties DEF Reports
  <2>. HIDE DEF list, post
  <2>3. ASSUME NEW o \in DOMAIN post PROVE post[o].decimals = decimals_of(list, post[o].mint)
    <3>1. PICK i \in 1 .. Len(list) : post[o] = token_balance(list, i)
      BY <2>2 DEF Balances
    <3>. QED
      BY <3>1, EntryFields
  <2>4. n \in DOMAIN post
    BY DEF post
  <2>. HIDE DEF e
  <2>5. e.decimals = decimals_of(list, e.mint)
    BY <2>3, <2>4 DEF e
  <2>6. ASSUME NEW d \in Decimals, states = {Mint(d)} PROVE e.decimals = d
    <3>1. PICK i \in DOMAIN list : list[i].key = e.mint
      BY <2>6
    <3>2. e.mint \in Keys(list)
      BY <3>1 DEF Keys
    <3>3. PICK j \in 1 .. Len(list) : list[j].key = e.mint /\ find(list, e.mint) = list[j].acct
      BY <2>2, <3>2, Found
    <3>4. list[j].acct = Mint(d)
      BY <2>2, <2>6, <3>3
    <3>5. Mint(d).shape = "mint" /\ Mint(d).decimals = d
      BY DEF Mint
    <3>. QED
      BY <2>5, <3>2, <3>3, <3>4, <3>5 DEF decimals_of
  <2>7. \A o \in DOMAIN post : post[o].mint = e.mint => post[o].decimals = e.decimals
    BY <2>3, <2>5
  <2>. QED
    BY <2>6, <2>7 DEF e, list, post
<1>. QED
  BY <1>1, Invariance, PTL

(* A balance from before the call names the account that held it, scaled   *)
(* by the decimals its mint had then, and every holder has one.            *)
THEOREM PreNamesTheHoldersAlways == Spec => PreNamesTheHolders
<1>. DEFINE Named ==
       result = NoResult =>
         /\ \A n \in DOMAIN result'.pre :
              LET e == result'.pre[n]
              IN /\ Held(result'.accounts[e.account_index].key, Token(e.mint, e.amount))
                 /\ \A d \in Decimals :
                      {s \in Contents : Held(e.mint, s)} = {Mint(d)} => e.decimals = d
         /\ \A k \in Addresses, m \in MintAddresses, a \in Amounts :
              Held(k, Token(m, a)) =>
                \E n \in DOMAIN result'.pre :
                  LET e == result'.pre[n]
                  IN result'.accounts[e.account_index].key = k /\ e.mint = m /\ e.amount = a
<1>1. ASSUME IInv, NEW list \in BoundedSeq(Pairs, MaxList), NEW merged \in merge_accounts(list),
             succeed(list, merged) \/ fail(list, merged)
      PROVE  Named
  <2>1. list \in Seq(Pairs) /\ DOMAIN list = 1 .. Len(list)
    BY BoundedIsSeq, LenProperties
  <2>2. Merges(list, merged)
    BY <1>1, <2>1, Merged DEF IInv
  <2>3. passed' = list /\ Reports(result', merged)
    BY <1>1, <2>1, Executed DEF IInv
  <2>4. /\ merged \in Seq(Pairs) /\ Balances(merged, result'.pre)
        /\ \A i \in 1 .. Len(merged) : result'.accounts[i].key = merged[i].key
    BY <2>3 DEF Reports
  <2>5. ASSUME NEW i \in 1 .. Len(merged) PROVE Held(merged[i].key, merged[i].acct)
    <3>1. CASE \E j \in 1 .. Len(list) : merged[i] = list[j]
      <4>1. PICK j \in 1 .. Len(list) : merged[i] = list[j]
        BY <3>1
      <4>2. list[j] = [key |-> list[j].key, acct |-> list[j].acct]
        BY <2>1, PairAt DEF Pairs
      <4>. QED
        BY <2>1, <2>3, <4>1, <4>2 DEF Held
    <3>2. CASE \E k \in DOMAIN accounts \ Keys(list) :
                 merged[i] = [key |-> k, acct |-> accounts[k]]
      BY <2>3, <3>2 DEF Held
    <3>. QED
      BY <2>2, <3>1, <3>2 DEF Merges
  <2>6. ASSUME NEW k, NEW acct, Held(k, acct)
        PROVE  \E i \in 1 .. Len(merged) : merged[i] = [key |-> k, acct |-> acct]
    <3>1. CASE \E j \in DOMAIN list : list[j] = [key |-> k, acct |-> acct]
      BY <2>1, <2>2, <3>1 DEF Merges
    <3>2. CASE k \notin Keys(list) /\ k \in DOMAIN accounts /\ accounts[k] = acct
      BY <2>2, <3>2 DEF Merges
    <3>. QED
      BY <2>3, <2>6, <3>1, <3>2 DEF Held
  <2>7. ASSUME NEW n \in DOMAIN result'.pre
        PROVE  LET e == result'.pre[n]
               IN Held(result'.accounts[e.account_index].key, Token(e.mint, e.amount))
    <3>1. PICK i \in 1 .. Len(merged) :
            IsToken(merged[i]) /\ result'.pre[n] = token_balance(merged, i)
      BY <2>4 DEF Balances
    <3>2. merged[i].acct = Token(merged[i].acct.mint, merged[i].acct.amount)
      BY <2>4, <3>1, TokenAt
    <3>. QED
      BY <2>4, <2>5, <3>1, <3>2, EntryFields
  <2>8. ASSUME NEW k \in Addresses, NEW m \in MintAddresses, NEW a \in Amounts,
               Held(k, Token(m, a))
        PROVE  \E n \in DOMAIN result'.pre :
                 LET e == result'.pre[n]
                 IN result'.accounts[e.account_index].key = k /\ e.mint = m /\ e.amount = a
    <3>1. PICK i \in 1 .. Len(merged) : merged[i] = [key |-> k, acct |-> Token(m, a)]
      BY <2>6, <2>8
    <3>2. /\ merged[i].key = k /\ merged[i].acct.mint = m /\ merged[i].acct.amount = a
          /\ IsToken(merged[i])
      BY <3>1 DEF Token, IsToken
    <3>3. PICK n \in DOMAIN result'.pre : result'.pre[n] = token_balance(merged, i)
      BY <2>4, <3>2 DEF Balances
    <3>. QED
      BY <2>4, <3>2, <3>3, EntryFields
  <2>9. ASSUME NEW n \in DOMAIN result'.pre, NEW d \in Decimals,
               {s \in Contents : Held(result'.pre[n].mint, s)} = {Mint(d)}
        PROVE  result'.pre[n].decimals = d
    <3>. DEFINE m == result'.pre[n].mint
    <3>1. m \in Keys(merged)
      <4>1. Held(m, Mint(d))
        BY <2>9
      <4>2. PICK i \in 1 .. Len(merged) : merged[i] = [key |-> m, acct |-> Mint(d)]
        BY <4>1, <2>6
      <4>. QED
        BY <4>2, <2>4, LenProperties DEF Keys
    <3>2. PICK j \in 1 .. Len(merged) : merged[j].key = m /\ find(merged, m) = merged[j].acct
      BY <2>4, <3>1, Found
    <3>3. merged[j].acct \in Contents /\ Held(m, merged[j].acct)
      BY <2>4, <2>5, <3>2, PairAt
    <3>4. find(merged, m) = Mint(d)
      BY <2>9, <3>2, <3>3
    <3>5. Mint(d).shape = "mint" /\ Mint(d).decimals = d
      BY DEF Mint
    <3>6. PICK i \in 1 .. Len(merged) : result'.pre[n] = token_balance(merged, i)
      BY <2>4 DEF Balances
    <3>7. result'.pre[n].decimals = decimals_of(merged, m)
      BY <3>6, EntryFields
    <3>. QED
      BY <3>1, <3>4, <3>5, <3>7 DEF decimals_of
  <2>. QED
    BY <2>7, <2>8, <2>9
<1>2. ASSUME drop_result PROVE Named
  BY <1>2 DEF drop_result
<1>3. IInv /\ [Next]_vars => [Named]_vars
  <2>. HIDE DEF Named
  <2>. QED
    BY <1>1, <1>2 DEF Next
<1>. QED
  BY <1>3, Invariance, PTL DEF Spec, PreNamesTheHolders

=============================================================================
