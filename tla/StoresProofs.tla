---------------------------- MODULE StoresProofs ----------------------------
(***************************************************************************)
(* Theorems about ManagedCodex, for any number of processes, commands and  *)
(* workspaces, and about History, for any number of threads and processes. *)
(***************************************************************************)
EXTENDS ManagedCodex, History, FiniteSetTheorems, SequenceTheorems, WellFoundedInduction, TLAPS

Spaces == Workspaces \cup {NoWorkspace}

Account == [id : Int, workspace : Spaces, home : Nat]

-----------------------------------------------------------------------------
(* Duplicates.                                                             *)

\* A set of natural numbers that is not empty has a least element.
LEMMA LeastExists ==
  ASSUME NEW S \in SUBSET Nat, S # {}
  PROVE  \E t \in S : \A u \in S : t <= u
<1>1. PICK t \in S : \A u \in S : ~(<<u, t>> \in OpToRel(<, Nat))
  BY NatLessThanWellFounded, WFMin, Zenon
<1>2. \A u \in S : ~(u < t)
  BY <1>1, Zenon DEF OpToRel
<1>. QED
  BY <1>2

\* What is kept of the first accounts, given what is kept of those before the last.
Kept(kept, a) ==
  IF \E i \in DOMAIN kept : Duplicate(kept[i], a) THEN kept ELSE Append(kept, a)

\* f[n] is what is kept of the first n accounts, for n up to m.
Keeps(f, m, accounts) ==
  /\ f \in [0..m -> Seq(Account)]
  /\ f[0] = <<>>
  /\ \A n \in 1..m : f[n] = Kept(f[n - 1], accounts[n])

\* Keeping or leaving out one more account gives a list of accounts.
LEMMA KeptIsList ==
  ASSUME NEW kept \in Seq(Account), NEW a \in Account
  PROVE  Kept(kept, a) \in Seq(Account)
BY DEF Kept

\* What is kept of the first accounts exists for every number of them.
LEMMA KeptExists ==
  ASSUME NEW accounts \in Seq(Account), NEW m \in 0..Len(accounts)
  PROVE  \E f : Keeps(f, m, accounts)
<1>. DEFINE bad == {k \in 0..Len(accounts) : ~\E f : Keeps(f, k, accounts)}
<1>1. SUFFICES ASSUME bad # {} PROVE FALSE
  OBVIOUS
<1>2. PICK k \in bad : \A u \in bad : k <= u
  <2>1. bad \in SUBSET Nat
    OBVIOUS
  <2>. HIDE DEF bad
  <2>. QED BY <1>1, <2>1, LeastExists
<1>3. k \in 0..Len(accounts) /\ ~\E f : Keeps(f, k, accounts)
  BY <1>2
<1>4. k # 0
  <2>. DEFINE g == [n \in 0..0 |-> <<>>]
  <2>1. Keeps(g, 0, accounts)
    BY DEF Keeps
  <2>. QED BY <2>1, <1>3
<1>5. k - 1 \in 0..Len(accounts) /\ k - 1 \notin bad
  BY <1>2, <1>3, <1>4
<1>6. PICK f : Keeps(f, k - 1, accounts)
  BY <1>5
<1>. DEFINE g == [n \in 0..k |-> IF n = k THEN Kept(f[k - 1], accounts[k]) ELSE f[n]]
<1>7. accounts[k] \in Account /\ f[k - 1] \in Seq(Account)
  BY <1>3, <1>4, <1>6 DEF Keeps
<1>8. g \in [0..k -> Seq(Account)]
  <2>1. ASSUME NEW n \in 0..k PROVE g[n] \in Seq(Account)
    <3>1. CASE n = k
      BY <3>1, <1>7, KeptIsList
    <3>2. CASE n # k
      BY <3>2, <1>3, <1>6 DEF Keeps
    <3>. QED BY <3>1, <3>2
  <2>2. g = [n \in 0..k |-> g[n]]
    OBVIOUS
  <2>. HIDE DEF g
  <2>. QED BY <2>1, <2>2
<1>9. g[0] = <<>>
  BY <1>3, <1>4, <1>6 DEF Keeps
<1>10. ASSUME NEW n \in 1..k PROVE g[n] = Kept(g[n - 1], accounts[n])
  BY <1>3, <1>4, <1>6, <1>10 DEF Keeps
<1>. QED BY <1>3, <1>8, <1>9, <1>10 DEF Keeps

\* What is kept of all the accounts is the value of such a function.
LEMMA WithoutDuplicatesIsKept ==
  ASSUME NEW accounts \in Seq(Account)
  PROVE  \E f : /\ Keeps(f, Len(accounts), accounts)
                /\ WithoutDuplicates(accounts) = f[Len(accounts)]
<1>. DEFINE N == Len(accounts)
            Step(f) == [n \in 0..N |->
              IF n = 0 THEN <<>>
              ELSE IF \E i \in DOMAIN f[n - 1] : Duplicate(f[n - 1][i], accounts[n])
              THEN f[n - 1] ELSE Append(f[n - 1], accounts[n])]
            kept == CHOOSE f : f = Step(f)
<1>1. WithoutDuplicates(accounts) = kept[N]
  BY DEF WithoutDuplicates
<1>2. PICK f : Keeps(f, N, accounts)
  BY KeptExists
<1>3. f = Step(f)
  <2>1. f = [n \in 0..N |-> f[n]]
    BY <1>2 DEF Keeps
  <2>2. ASSUME NEW n \in 0..N PROVE f[n] = Step(f)[n]
    <3>1. CASE n = 0
      BY <3>1, <1>2 DEF Keeps
    <3>2. CASE n # 0
      <4>1. n \in 1..N
        BY <3>2
      <4>2. f[n] = Kept(f[n - 1], accounts[n])
        BY <4>1, <1>2 DEF Keeps
      <4>. QED BY <3>2, <4>2 DEF Kept
    <3>. QED BY <3>1, <3>2
  <2>. QED BY <2>1, <2>2
<1>4. kept = Step(kept)
  BY <1>3
<1>. HIDE DEF kept
<1>5. kept = [n \in 0..N |-> Step(kept)[n]]
  BY <1>4
<1>6. kept[0] = <<>>
  BY <1>4
<1>7. ASSUME NEW n \in 1..N PROVE kept[n] = Kept(kept[n - 1], accounts[n])
  <2>1. n \in 0..N /\ n # 0
    OBVIOUS
  <2>2. kept[n] = Step(kept)[n]
    BY <1>5, <2>1, Zenon
  <2>3. Step(kept)[n] = Kept(kept[n - 1], accounts[n])
    BY <2>1 DEF Kept
  <2>. QED BY <2>2, <2>3
<1>8. DOMAIN kept = 0..N /\ kept = [n \in 0..N |-> kept[n]]
  BY <1>4
<1>. DEFINE bad == {n \in 0..N : kept[n] \notin Seq(Account)}
<1>9. ASSUME bad # {} PROVE FALSE
  <2>1. bad \in SUBSET Nat
    OBVIOUS
  <2>2. PICK k \in bad : \A u \in bad : k <= u
    <3>. HIDE DEF bad
    <3>. QED BY <1>9, <2>1, LeastExists
  <2>3. k \in 0..N /\ k # 0
    <3>1. <<>> \in Seq(Account)
      OBVIOUS
    <3>2. kept[0] \in Seq(Account)
      BY <1>6, <3>1
    <3>. QED BY <3>2
  <2>4. k - 1 \in 0..N /\ k - 1 \notin bad
    BY <2>2, <2>3
  <2>5. k \in 1..N
    BY <2>3
  <2>6. kept[k - 1] \in Seq(Account) /\ accounts[k] \in Account
    BY <2>4, <2>5
  <2>. QED BY <2>5, <2>6, <1>7, KeptIsList
<1>. QED BY <1>1, <1>6, <1>7, <1>8, <1>9 DEF Keeps
\* kept is a fit remainder of the first n accounts.
Remains(kept, n, accounts) ==
  /\ \A j \in 1..Len(kept) : \E i \in 1..n : kept[j] = accounts[i]
  /\ Distinct(kept)
  /\ Len(kept) <= n
  /\ Len(kept) = n => \A i \in 1..n : kept[i] = accounts[i]
  /\ Distinct(accounts) => Len(kept) = n

\* Keeping or leaving out the next account leaves a fit remainder.
LEMMA KeptRemains ==
  ASSUME NEW accounts \in Seq(Account), NEW n \in 1..Len(accounts),
         NEW kept \in Seq(Account), Remains(kept, n - 1, accounts)
  PROVE  Remains(Kept(kept, accounts[n]), n, accounts)
<1>. DEFINE a == accounts[n]
<1>1. a \in Account /\ Len(kept) \in Nat /\ n \in Nat /\ Len(accounts) \in Nat
  OBVIOUS
<1>2. DOMAIN kept = 1..Len(kept) /\ DOMAIN accounts = 1..Len(accounts)
  OBVIOUS
<1>3. CASE \E i \in DOMAIN kept : Duplicate(kept[i], a)
  <2>1. Kept(kept, a) = kept
    BY <1>3 DEF Kept
  <2>2. ~Distinct(accounts)
    <3>1. PICK j \in 1..Len(kept) : Duplicate(kept[j], a)
      BY <1>2, <1>3
    <3>2. PICK i \in 1..(n - 1) : kept[j] = accounts[i]
      BY DEF Remains
    <3>. QED BY <1>1, <1>2, <3>1, <3>2 DEF Distinct
  <2>. QED BY <1>1, <2>1, <2>2 DEF Remains
<1>4. CASE ~\E i \in DOMAIN kept : Duplicate(kept[i], a)
  <2>. DEFINE more == Append(kept, a)
  <2>1. Kept(kept, a) = more
    BY <1>4 DEF Kept
  <2>2. /\ more \in Seq(Account) /\ Len(more) = Len(kept) + 1
        /\ \A i \in 1..Len(kept) : more[i] = kept[i]
        /\ more[Len(kept) + 1] = a
    BY <1>1
  <2>. HIDE DEF more
  <2>3. \A j \in 1..Len(more) : \E i \in 1..n : more[j] = accounts[i]
    <3>1. ASSUME NEW j \in 1..Len(more) PROVE \E i \in 1..n : more[j] = accounts[i]
      <4>1. CASE j = Len(kept) + 1
        BY <1>1, <2>2, <4>1
      <4>2. CASE j # Len(kept) + 1
        <5>1. j \in 1..Len(kept)
          BY <1>1, <2>2, <4>2
        <5>. QED BY <1>1, <2>2, <5>1 DEF Remains
      <4>. QED BY <4>1, <4>2
    <3>. QED BY <3>1
  <2>4. Distinct(more)
    <3>1. ASSUME NEW i \in 1..Len(more), NEW j \in 1..Len(more), i # j
          PROVE  ~Duplicate(more[i], more[j])
      <4>1. CASE i \in 1..Len(kept) /\ j \in 1..Len(kept)
        BY <1>2, <2>2, <3>1, <4>1 DEF Remains, Distinct
      <4>2. CASE i = Len(kept) + 1
        <5>1. j \in 1..Len(kept)
          BY <1>1, <2>2, <3>1, <4>2
        <5>. QED BY <1>2, <1>4, <2>2, <4>2, <5>1 DEF Duplicate
      <4>3. CASE j = Len(kept) + 1
        <5>1. i \in 1..Len(kept)
          BY <1>1, <2>2, <3>1, <4>3
        <5>. QED BY <1>2, <1>4, <2>2, <4>3, <5>1 DEF Duplicate
      <4>. QED BY <1>1, <2>2, <4>1, <4>2, <4>3
    <3>2. DOMAIN more = 1..Len(more)
      BY <2>2
    <3>. QED BY <3>1, <3>2 DEF Distinct
  <2>5. Len(more) <= n /\ (Distinct(accounts) => Len(more) = n)
    BY <1>1, <2>2 DEF Remains
  <2>6. ASSUME Len(more) = n, NEW i \in 1..n PROVE more[i] = accounts[i]
    <3>1. Len(kept) = n - 1
      BY <1>1, <2>2, <2>6
    <3>2. CASE i = n
      BY <1>1, <2>2, <3>1, <3>2
    <3>3. CASE i # n
      <4>1. i \in 1..(n - 1)
        BY <1>1, <3>3
      <4>. QED BY <2>2, <3>1, <4>1 DEF Remains
    <3>. QED BY <3>2, <3>3
  <2>. QED BY <2>1, <2>3, <2>4, <2>5, <2>6 DEF Remains
<1>. QED BY <1>3, <1>4

\* What is left of a list without its duplicates: accounts of the list, apart
\* from each other, and fewer of them unless the list had no duplicates.
LEMMA WithoutDuplicatesRemains ==
  ASSUME NEW accounts \in Seq(Account)
  PROVE  /\ WithoutDuplicates(accounts) \in Seq(Account)
         /\ Remains(WithoutDuplicates(accounts), Len(accounts), accounts)
<1>. DEFINE N == Len(accounts)
<1>1. PICK f : Keeps(f, N, accounts) /\ WithoutDuplicates(accounts) = f[N]
  BY WithoutDuplicatesIsKept
<1>2. N \in Nat
  OBVIOUS
<1>3. \A n \in 0..N : f[n] \in Seq(Account)
  BY <1>1 DEF Keeps
<1>. DEFINE bad == {n \in 0..N : ~Remains(f[n], n, accounts)}
<1>4. ASSUME bad # {} PROVE FALSE
  <2>1. bad \in SUBSET Nat
    OBVIOUS
  <2>2. PICK k \in bad : \A u \in bad : k <= u
    <3>. HIDE DEF bad
    <3>. QED BY <1>4, <2>1, LeastExists
  <2>3. k \in 0..N /\ ~Remains(f[k], k, accounts)
    OBVIOUS
  <2>4. k # 0
    <3>1. f[0] = <<>>
      BY <1>1 DEF Keeps
    <3>2. Remains(<<>>, 0, accounts)
      BY DEF Remains, Distinct
    <3>. QED BY <2>3, <3>1, <3>2
  <2>5. k \in 1..N /\ k - 1 \in 0..N
    BY <1>2, <2>3, <2>4
  <2>6. Remains(f[k - 1], k - 1, accounts)
    BY <2>2, <2>5
  <2>7. f[k] = Kept(f[k - 1], accounts[k])
    BY <1>1, <2>5 DEF Keeps
  <2>. QED BY <1>3, <2>3, <2>5, <2>6, <2>7, KeptRemains
<1>5. N \in 0..N
  BY <1>2
<1>. QED BY <1>1, <1>3, <1>4, <1>5
-----------------------------------------------------------------------------
(* What a command does to the list.                                        *)

\* The homes of a list are told apart.
HomesApart(accounts) ==
  \A i, j \in DOMAIN accounts :
    accounts[i].home = accounts[j].home => accounts[i] = accounts[j]

\* What is left without duplicates, in terms of identifiers and homes.
LEMMA WithoutDuplicatesFacts ==
  ASSUME NEW accounts \in Seq(Account), NEW kept, kept = WithoutDuplicates(accounts)
  PROVE  /\ kept \in Seq(Account)
         /\ Ids(kept) \subseteq Ids(accounts) /\ HomesOf(kept) \subseteq HomesOf(accounts)
         /\ Len(kept) >= Len(accounts) => kept = accounts
         /\ Distinct(accounts) => kept = accounts
         /\ HomesApart(accounts) => \A i, j \in DOMAIN kept : i # j => kept[i].home # kept[j].home
<1>. DEFINE N == Len(accounts)
<1>1. kept \in Seq(Account) /\ Remains(kept, N, accounts)
  BY WithoutDuplicatesRemains
<1>2. /\ N \in Nat /\ Len(kept) \in Nat
      /\ DOMAIN kept = 1..Len(kept) /\ DOMAIN accounts = 1..N
  BY <1>1
<1>3. \A j \in DOMAIN kept : \E i \in DOMAIN accounts : kept[j] = accounts[i]
  BY <1>1, <1>2 DEF Remains
<1>4. Ids(kept) \subseteq Ids(accounts) /\ HomesOf(kept) \subseteq HomesOf(accounts)
  BY <1>3 DEF Ids, HomesOf
<1>5. ASSUME Len(kept) = N PROVE kept = accounts
  <2>1. \A i \in 1..N : kept[i] = accounts[i]
    BY <1>1, <1>5 DEF Remains
  <2>. QED BY <1>1, <1>2, <1>5, <2>1, SeqEqual
<1>6. ASSUME HomesApart(accounts), NEW i \in DOMAIN kept, NEW j \in DOMAIN kept, i # j
      PROVE  kept[i].home # kept[j].home
  <2>1. kept[i].id # kept[j].id
    BY <1>1, <1>6 DEF Remains, Distinct, Duplicate
  <2>. QED BY <1>3, <1>6, <2>1 DEF HomesApart
<1>7. Len(kept) <= N
  BY <1>1 DEF Remains
<1>8. ASSUME Len(kept) >= Len(accounts) PROVE kept = accounts
  <2>. DEFINE M == Len(kept)
  <2>1. M \in Nat /\ N \in Nat /\ M <= N /\ M >= N
    BY <1>2, <1>7, <1>8
  <2>2. M = N
    <3>. HIDE DEF M, N
    <3>. QED BY <2>1
  <2>. QED BY <1>5, <2>2
<1>9. Distinct(accounts) => kept = accounts
  BY <1>1, <1>5 DEF Remains
<1>. QED BY <1>1, <1>4, <1>6, <1>8, <1>9

\* An account with a new home is added ...
LEMMA AddedFacts ==
  ASSUME NEW kept \in Seq(Account), NEW entry \in Account,
         \A i, j \in DOMAIN kept : i # j => kept[i].home # kept[j].home,
         entry.home \notin HomesOf(kept)
  PROVE  LET more == Append(kept, entry) IN
           /\ more \in Seq(Account) /\ HomesApart(more)
           /\ Ids(kept) \subseteq Ids(more)
           /\ HomesOf(more) = HomesOf(kept) \cup {entry.home}
<1>. DEFINE more == Append(kept, entry)
<1>1. Len(kept) \in Nat /\ DOMAIN kept = 1..Len(kept)
  OBVIOUS
<1>2. /\ more \in Seq(Account) /\ Len(more) = Len(kept) + 1
      /\ \A i \in 1..Len(kept) : more[i] = kept[i]
      /\ more[Len(kept) + 1] = entry
  BY <1>1
<1>. HIDE DEF more
<1>3. DOMAIN more = 1..(Len(kept) + 1)
  BY <1>2
<1>4. \A i \in DOMAIN more : i \in DOMAIN kept \/ i = Len(kept) + 1
  BY <1>1, <1>3
<1>5. DOMAIN kept \subseteq DOMAIN more /\ Len(kept) + 1 \in DOMAIN more
  BY <1>1, <1>3
<1>6. HomesOf(more) = HomesOf(kept) \cup {entry.home} /\ Ids(kept) \subseteq Ids(more)
  BY <1>1, <1>2, <1>4, <1>5 DEF HomesOf, Ids
<1>7. HomesApart(more)
  BY <1>1, <1>2, <1>4, <1>5 DEF HomesOf, HomesApart
<1>. QED BY <1>2, <1>6, <1>7 DEF more

Replaced(kept, index, entry) == [kept EXCEPT ![index] = entry]

\* ... or an account is given a new home in place of its old one.
LEMMA MovedFacts ==
  ASSUME NEW kept \in Seq(Account), NEW entry \in Account,
         \A i, j \in DOMAIN kept : i # j => kept[i].home # kept[j].home,
         entry.home \notin HomesOf(kept),
         NEW index \in DOMAIN kept, entry.id = kept[index].id
  PROVE  LET more == Replaced(kept, index, entry) IN
           /\ more \in Seq(Account) /\ HomesApart(more)
           /\ Ids(kept) \subseteq Ids(more)
           /\ HomesOf(more) = (HomesOf(kept) \ {kept[index].home}) \cup {entry.home}
<1>. DEFINE more == Replaced(kept, index, entry)
<1>1. /\ more \in Seq(Account) /\ DOMAIN more = DOMAIN kept
      /\ more[index] = entry
      /\ \A i \in DOMAIN kept : i # index => more[i] = kept[i]
  BY DEF Replaced
<1>. HIDE DEF more
<1>2. HomesOf(more) = (HomesOf(kept) \ {kept[index].home}) \cup {entry.home}
  BY <1>1 DEF HomesOf
<1>3. Ids(kept) \subseteq Ids(more)
  BY <1>1 DEF Ids
<1>4. HomesApart(more)
  BY <1>1 DEF HomesOf, HomesApart
<1>. QED BY <1>1, <1>2, <1>3, <1>4 DEF more

\* Removing one element of a sequence moves those behind it forward.
LEMMA RemoveAtElements ==
  ASSUME NEW S, NEW s \in Seq(S), NEW i \in 1..Len(s)
  PROVE  /\ RemoveAt(s, i) \in Seq(S) /\ Len(RemoveAt(s, i)) = Len(s) - 1
         /\ \A k \in 1..(Len(s) - 1) : RemoveAt(s, i)[k] = IF k < i THEN s[k] ELSE s[k + 1]
<1> DEFINE front == SubSeq(s, 1, i - 1)
           back  == SubSeq(s, i + 1, Len(s))
<1>1. Len(s) \in Nat /\ \A k \in 1..Len(s) : s[k] \in S
  BY LenProperties, ElementOfSeq
<1>2. /\ front \in Seq(S) /\ Len(front) = i - 1
      /\ \A k \in 1..(i - 1) : front[k] = s[k]
  <2>1. \A k \in 1..(i - 1) : s[k] \in S
    BY <1>1
  <2>2. /\ front \in Seq(S) /\ Len(front) = IF 1 <= i - 1 THEN i - 1 - 1 + 1 ELSE 0
        /\ \A k \in 1..(i - 1 - 1 + 1) : front[k] = s[1 + k - 1]
    BY <1>1, <2>1, SubSeqProperties
  <2> QED BY <1>1, <2>2
<1>3. /\ back \in Seq(S) /\ Len(back) = Len(s) - i
      /\ \A k \in 1..(Len(s) - i) : back[k] = s[i + k]
  <2>1. \A k \in (i + 1)..Len(s) : s[k] \in S
    BY <1>1
  <2>2. /\ back \in Seq(S) /\ Len(back) = IF i + 1 <= Len(s) THEN Len(s) - (i + 1) + 1 ELSE 0
        /\ \A k \in 1..(Len(s) - (i + 1) + 1) : back[k] = s[i + 1 + k - 1]
    BY <1>1, <2>1, SubSeqProperties
  <2> QED BY <1>1, <2>2
<1> HIDE DEF front, back
<1>4. /\ front \o back \in Seq(S) /\ Len(front \o back) = Len(front) + Len(back)
      /\ \A k \in 1..(Len(front) + Len(back)) :
           (front \o back)[k] = IF k <= Len(front) THEN front[k] ELSE back[k - Len(front)]
  BY <1>2, <1>3, ConcatProperties
<1>5. RemoveAt(s, i) = front \o back
  BY DEF RemoveAt, front, back
<1>6. ASSUME NEW k \in 1..(Len(s) - 1)
      PROVE  RemoveAt(s, i)[k] = IF k < i THEN s[k] ELSE s[k + 1]
  <2>1. CASE k < i
    BY <1>1, <1>2, <1>3, <1>4, <1>5, <2>1
  <2>2. CASE k >= i
    <3>1. RemoveAt(s, i)[k] = back[k - (i - 1)]
      BY <1>1, <1>2, <1>3, <1>4, <1>5, <2>2
    <3>2. k - (i - 1) \in 1..(Len(s) - i) /\ i + (k - (i - 1)) = k + 1
      BY <1>1, <2>2
    <3>3. back[k - (i - 1)] = s[i + (k - (i - 1))]
      BY <1>3, <3>2
    <3> QED BY <2>2, <3>1, <3>2, <3>3
  <2> QED BY <1>1, <2>1, <2>2
<1>7. RemoveAt(s, i) \in Seq(S) /\ Len(RemoveAt(s, i)) = Len(s) - 1
  <2>1. Len(front) + Len(back) = Len(s) - 1
    BY <1>1, <1>2, <1>3
  <2> QED BY <1>4, <1>5, <2>1
<1> QED BY <1>6, <1>7

\* An account is removed.
LEMMA RemovedFacts ==
  ASSUME NEW kept \in Seq(Account),
         \A i, j \in DOMAIN kept : i # j => kept[i].home # kept[j].home,
         NEW index \in DOMAIN kept,
         NEW less, less = RemoveAt(kept, index)
  PROVE  /\ less \in Seq(Account) /\ HomesApart(less)
         /\ Ids(kept) \subseteq Ids(less) \cup {kept[index].id}
         /\ HomesOf(less) = HomesOf(kept) \ {kept[index].home}
<1>1. Len(kept) \in Nat /\ DOMAIN kept = 1..Len(kept)
  OBVIOUS
<1>2. /\ less \in Seq(Account) /\ Len(less) = Len(kept) - 1
      /\ \A k \in 1..(Len(kept) - 1) : less[k] = IF k < index THEN kept[k] ELSE kept[k + 1]
  BY <1>1, RemoveAtElements
<1>3. DOMAIN less = 1..(Len(kept) - 1)
  BY <1>2
<1>4. \A k \in DOMAIN less : \E i \in DOMAIN kept : i # index /\ less[k] = kept[i]
  <2>1. ASSUME NEW k \in DOMAIN less
        PROVE  \E i \in DOMAIN kept : i # index /\ less[k] = kept[i]
    <3>1. CASE k < index
      BY <1>1, <1>2, <1>3, <3>1
    <3>2. CASE ~(k < index)
      <4>1. k + 1 \in DOMAIN kept /\ k + 1 # index
        BY <1>1, <1>3, <3>2
      <4>. QED BY <1>2, <1>3, <3>2, <4>1
    <3>. QED BY <3>1, <3>2
  <2>. QED BY <2>1
<1>5. \A i \in DOMAIN kept : i # index => \E k \in DOMAIN less : less[k] = kept[i]
  <2>1. ASSUME NEW i \in DOMAIN kept, i # index
        PROVE  \E k \in DOMAIN less : less[k] = kept[i]
    <3>1. CASE i < index
      BY <1>1, <1>2, <1>3, <3>1
    <3>2. CASE ~(i < index)
      <4>1. i - 1 \in DOMAIN less /\ ~(i - 1 < index) /\ i - 1 + 1 = i
        BY <1>1, <1>3, <2>1, <3>2
      <4>2. less[i - 1] = kept[i]
        BY <1>2, <1>3, <4>1
      <4>. QED BY <4>1, <4>2
    <3>. QED BY <3>1, <3>2
  <2>. QED BY <2>1
<1>6. HomesOf(less) = HomesOf(kept) \ {kept[index].home}
  BY <1>4, <1>5 DEF HomesOf
<1>7. Ids(kept) \subseteq Ids(less) \cup {kept[index].id}
  BY <1>5 DEF Ids
<1>8. HomesApart(less)
  BY <1>4 DEF HomesApart
<1>. QED BY <1>2, <1>6, <1>7, <1>8
\* An account that is to be brought up to date is in the list.
LEMMA ExistingFacts ==
  ASSUME NEW c, c.accounts \in Seq(Account),
         c.kind = "reauth" => c.id \in Ids(c.accounts)
  PROVE  Existing(c) \in DOMAIN c.accounts \cup {0}
<1>. DEFINE fitting == {i \in DOMAIN c.accounts : Matches(c.accounts[i], c.workspace)}
<1>1. CASE c.kind = "reauth"
  <2>1. \E i \in DOMAIN c.accounts : c.accounts[i].id = c.id
    BY <1>1 DEF Ids
  <2>2. IndexOf(c.accounts, c.id) \in DOMAIN c.accounts
    BY <2>1 DEF IndexOf
  <2>. QED BY <1>1, <2>2 DEF Existing
<1>2. CASE c.kind # "reauth" /\ fitting # {}
  <2>1. fitting \in SUBSET Nat
    OBVIOUS
  <2>2. \E i \in fitting : \A j \in fitting : i <= j
    <3>. HIDE DEF fitting
    <3>. QED BY <1>2, <2>1, LeastExists
  <2>3. Existing(c) = CHOOSE i \in fitting : \A j \in fitting : i <= j
    BY <1>2 DEF Existing
  <2>4. Existing(c) \in fitting
    <3>. HIDE DEF fitting
    <3>. QED BY <2>2, <2>3
  <2>. QED BY <2>4
<1>3. CASE c.kind # "reauth" /\ fitting = {}
  BY <1>3 DEF Existing
<1>. QED BY <1>1, <1>2, <1>3

-----------------------------------------------------------------------------
(***************************************************************************)
(* The inductive invariant.  StoresAgree says nothing of what a command    *)
(* has read and means to do: a home it will delete must be known to be     *)
(* nobody's, a home it will write to be new, and the list it will save to  *)
(* be the file's without its duplicates but for one change.                *)
(***************************************************************************)
Steps == {"idle", "lock", "login", "copy", "save", "tidy", "unlist", "erase",
          "deselect", "choose", "point"}

CommandState ==
  [pc : Steps, kind : {"none", "import", "login", "reauth", "remove", "select"},
   id : Int, workspace : Spaces, accounts : Seq(Account),
   new : Int, login : Int, old : Int, dropped : BOOLEAN]

TypeOK ==
  /\ listed \in Seq(Account) /\ homes \subseteq Nat
  /\ storeLock \in Commanders \cup {Free}
  /\ active \in Int /\ started \in Nat
  /\ mishap \in BOOLEAN /\ torn \in BOOLEAN /\ raced \in BOOLEAN
  /\ command \in [Commanders -> CommandState]

\* Who reads or changes the accounts holds their lock.
Holding == {"login", "copy", "save", "tidy", "unlist", "erase"}

Excludes == \A p \in Commanders : command[p].pc \in Holding => storeLock = p

\* The homes a command makes are its own.
Own(c) == {c.new, c.login} \ {NoHome}

Numbered ==
  /\ homes \cup HomesOf(listed) \subseteq 0..2 * started
  /\ \A p \in Commanders :
       /\ Own(command[p]) \subseteq 1..2 * started
       /\ command[p].pc # "idle" => command[p].new # NoHome
       /\ command[p].new = command[p].login => command[p].new = NoHome
  /\ \A p, q \in Commanders : p # q => Own(command[p]) \cap Own(command[q]) = {}

\* A home is new until credentials are copied into it.
Fresh(p) ==
  /\ command[p].pc = "idle" => Pending(command[p]) = {NoHome}
  /\ command[p].login \notin HomesOf(listed)
  /\ command[p].pc \in Steps \ {"idle", "save", "tidy"} =>
       command[p].new \notin homes \cup HomesOf(listed)
  /\ command[p].pc = "lock" => command[p].login \notin homes
  /\ command[p].pc \in Steps \ {"idle", "save", "tidy", "erase"} => command[p].old = NoHome

\* A command does what its kind says, to an account if it names one.
Meant(p) ==
  /\ (command[p].id # 0) = (command[p].kind \in {"reauth", "remove", "select"})
  /\ command[p].kind \notin {"login", "reauth"} => command[p].login = NoHome
  /\ command[p].pc \in {"unlist", "erase", "deselect"} => command[p].kind = "remove"
  /\ command[p].pc \in {"choose", "point"} <=> command[p].kind = "select"

\* What a command has read is in the file.
Loaded(p) ==
  /\ command[p].accounts = WithoutDuplicates(listed)
  /\ command[p].dropped = (Len(WithoutDuplicates(listed)) < Len(listed))
  /\ command[p].id # 0 => command[p].id \in Ids(command[p].accounts)

\* What it will save is that with one account added or moved to the new home.
Amended(p) ==
  LET kept == WithoutDuplicates(listed)
      entry(id) == ManagedAccount(id, command[p].workspace, command[p].new)
  IN /\ command[p].dropped = (Len(kept) < Len(listed))
     /\ \/ /\ command[p].old = NoHome
           /\ command[p].accounts = Append(kept, entry(command[p].new))
        \/ \E index \in DOMAIN kept :
             /\ command[p].old = kept[index].home
             /\ command[p].accounts = [kept EXCEPT ![index] = entry(kept[index].id)]

\* What it will delete is nobody's.
Reads(p) ==
  /\ command[p].pc \in {"login", "copy", "unlist"} => Loaded(p)
  /\ command[p].pc = "save" => command[p].new \in homes \ HomesOf(listed) /\ Amended(p)
  /\ command[p].pc \in {"tidy", "erase"} => command[p].old \notin HomesOf(listed)
  /\ command[p].pc = "tidy" =>
       mishap \/ command[p].new \in HomesOf(listed) \/ command[p].new \notin homes

Sound(p) == Fresh(p) /\ Meant(p) /\ Reads(p)

Inv ==
  /\ TypeOK /\ Excludes /\ Numbered /\ HomesApart(listed)
  /\ \A p \in Commanders : Sound(p)
  /\ StoresAgree
-----------------------------------------------------------------------------
(* Steps of commands.                                                      *)

\* A command keeps its kind, the account it names and the homes it makes.
Fixed(d, c) == d.kind = c.kind /\ d.id = c.id /\ d.new = c.new /\ d.login = c.login

\* The next state g of the commands differs from f in p alone.
Differs(g, f, p) ==
  /\ g \in [Commanders -> CommandState]
  /\ \A q \in Commanders : q # p => g[q] = f[q]

\* The commands f with the step, the workspace, the list, the old home or the mark
\* of a dropped duplicate of p changed.
WithStep(f, p, new) == [f EXCEPT ![p].pc = new]
WithWorkspace(f, p, new) == [f EXCEPT ![p].workspace = new]
WithAccounts(f, p, new) == [f EXCEPT ![p].accounts = new]
WithOld(f, p, new) == [f EXCEPT ![p].old = new]
WithDropped(f, p, new) == [f EXCEPT ![p].dropped = new]

\* The step of p alone changes.
LEMMA WithStepFacts ==
  ASSUME NEW f \in [Commanders -> CommandState], NEW p \in Commanders, NEW new \in Steps
  PROVE  LET g == WithStep(f, p, new) IN
           /\ Differs(g, f, p) /\ Fixed(g[p], f[p]) /\ g[p].pc = new
           /\ g[p].workspace = f[p].workspace /\ g[p].accounts = f[p].accounts
           /\ g[p].old = f[p].old /\ g[p].dropped = f[p].dropped
BY DEF WithStep, Differs, Fixed, CommandState

\* Its workspace alone changes.
LEMMA WithWorkspaceFacts ==
  ASSUME NEW f \in [Commanders -> CommandState], NEW p \in Commanders, NEW new \in Spaces
  PROVE  LET g == WithWorkspace(f, p, new) IN
           /\ Differs(g, f, p) /\ Fixed(g[p], f[p]) /\ g[p].workspace = new
           /\ g[p].pc = f[p].pc /\ g[p].accounts = f[p].accounts
           /\ g[p].old = f[p].old /\ g[p].dropped = f[p].dropped
BY DEF WithWorkspace, Differs, Fixed, CommandState

\* Its list alone changes.
LEMMA WithAccountsFacts ==
  ASSUME NEW f \in [Commanders -> CommandState], NEW p \in Commanders, NEW new \in Seq(Account)
  PROVE  LET g == WithAccounts(f, p, new) IN
           /\ Differs(g, f, p) /\ Fixed(g[p], f[p]) /\ g[p].accounts = new
           /\ g[p].pc = f[p].pc /\ g[p].workspace = f[p].workspace
           /\ g[p].old = f[p].old /\ g[p].dropped = f[p].dropped
BY DEF WithAccounts, Differs, Fixed, CommandState

\* Its old home alone changes.
LEMMA WithOldFacts ==
  ASSUME NEW f \in [Commanders -> CommandState], NEW p \in Commanders, NEW new \in Int
  PROVE  LET g == WithOld(f, p, new) IN
           /\ Differs(g, f, p) /\ Fixed(g[p], f[p]) /\ g[p].old = new
           /\ g[p].pc = f[p].pc /\ g[p].workspace = f[p].workspace
           /\ g[p].accounts = f[p].accounts /\ g[p].dropped = f[p].dropped
BY DEF WithOld, Differs, Fixed, CommandState

\* Its mark of a dropped duplicate alone changes.
LEMMA WithDroppedFacts ==
  ASSUME NEW f \in [Commanders -> CommandState], NEW p \in Commanders, NEW new \in BOOLEAN
  PROVE  LET g == WithDropped(f, p, new) IN
           /\ Differs(g, f, p) /\ Fixed(g[p], f[p]) /\ g[p].dropped = new
           /\ g[p].pc = f[p].pc /\ g[p].workspace = f[p].workspace
           /\ g[p].accounts = f[p].accounts /\ g[p].old = f[p].old
BY DEF WithDropped, Differs, Fixed, CommandState

\* What any step of p may do to the rest.
Frame(p) ==
  /\ Differs(command', command, p)
  /\ Own(command'[p]) \subseteq Own(command[p])
  /\ command'[p].pc # "idle" => command[p].pc # "idle" /\ command'[p].new = command[p].new
  /\ command'[p].new = command'[p].login => command'[p].new = NoHome
  /\ started' = started
  /\ listed' \in Seq(Account) /\ homes' \subseteq Nat /\ active' \in Int
  /\ mishap' \in BOOLEAN /\ torn' \in BOOLEAN /\ raced' \in BOOLEAN
  /\ \/ listed' = listed
     \/ storeLock = p /\ HomesOf(listed') \subseteq HomesOf(listed) \cup Own(command[p])
  /\ homes' \subseteq homes \cup Own(command[p])
  /\ homes \subseteq homes' \/ storeLock = p
  /\ mishap => mishap'
  /\ \/ storeLock' = storeLock
     \/ storeLock = p /\ storeLock' = Free
     \/ storeLock = Free /\ storeLock' = p
  /\ command'[p].pc \in Holding => storeLock' = p

\* Then the types stay, the lock excludes, and homes are told apart by number.
LEMMA FrameKeeps ==
  ASSUME Inv, NEW p \in Commanders, Frame(p)
  PROVE  TypeOK' /\ Excludes' /\ Numbered'
<1>1. TypeOK'
  BY DEF Inv, TypeOK, Frame, Differs
<1>2. Excludes'
  <2>1. ASSUME NEW q \in Commanders, command'[q].pc \in Holding PROVE storeLock' = q
    <3>1. CASE q = p
      BY <2>1, <3>1 DEF Frame
    <3>2. CASE q # p
      <4>1. storeLock = q
        BY <2>1, <3>2 DEF Frame, Differs, Inv, Excludes
      <4>. QED BY <3>2, <4>1, FreeIsNobody DEF Frame
    <3>. QED BY <3>1, <3>2
  <2>. QED BY <2>1 DEF Excludes
<1>3. Numbered'
  <2>0. started \in Nat
    BY DEF Inv, TypeOK
  <2>1. homes' \cup HomesOf(listed') \subseteq homes \cup HomesOf(listed) \cup Own(command[p])
    BY DEF Frame
  <2>2. (homes \cup HomesOf(listed))' \subseteq 0..2 * started
    <3>1. Own(command[p]) \subseteq 0..2 * started
      BY <2>0 DEF Inv, Numbered
    <3>. QED BY <2>1, <3>1 DEF Inv, Numbered
  <2>3. \A q \in Commanders : Own(command'[q]) \subseteq Own(command[q])
    BY DEF Frame, Differs
  <2>4. \A q \in Commanders :
           /\ command'[q].pc # "idle" => command'[q].new # NoHome
           /\ command'[q].new = command'[q].login => command'[q].new = NoHome
    BY DEF Frame, Differs, Inv, Numbered
  <2>5. \A q, r \in Commanders : q # r => Own(command'[q]) \cap Own(command'[r]) = {}
    BY <2>3 DEF Inv, Numbered
  <2>6. \A q \in Commanders : Own(command'[q]) \subseteq 1..2 * started
    BY <2>3 DEF Inv, Numbered
  <2>7. started' = started
    BY DEF Frame
  <2>. HIDE DEF Own, HomesOf
  <2>. QED BY <2>2, <2>4, <2>5, <2>6, <2>7 DEF Numbered
<1>. QED BY <1>1, <1>2, <1>3

\* And the other commands are as sound as before.
LEMMA OthersStaySound ==
  ASSUME Inv, NEW p \in Commanders, Frame(p), NEW q \in Commanders, q # p
  PROVE  Sound(q)'
<1>1. command'[q] = command[q]
  BY DEF Frame, Differs
<1>2. Own(command[q]) \cap Own(command[p]) = {}
  BY DEF Inv, Numbered
<1>3. HomesOf(listed') \subseteq HomesOf(listed) \cup Own(command[p])
  BY DEF Frame
<1>4. homes' \subseteq homes \cup Own(command[p])
  BY DEF Frame
<1>5. command[q] \in CommandState
  BY DEF Inv, TypeOK
<1>6. command[q].pc \in Holding => listed' = listed /\ homes \subseteq homes'
  <2>1. command[q].pc \in Holding => storeLock # p
    BY DEF Inv, Excludes
  <2>. QED BY <2>1 DEF Frame
<1>7. Fresh(q)'
  <2>1. ASSUME NEW h \in {command[q].new, command[q].login}, h \in Own(command[p])
        PROVE  FALSE
    BY <1>2, <2>1 DEF Own
  <2>. QED BY <1>1, <1>3, <1>4, <2>1 DEF Inv, Sound, Fresh
<1>8. Meant(q)'
  BY <1>1 DEF Inv, Sound, Meant
<1>9. Reads(q)'
  <2>1. command[q].pc \in {"login", "copy", "unlist"} => Loaded(q)'
    BY <1>1, <1>6 DEF Inv, Sound, Reads, Loaded, Holding
  <2>2. command[q].pc = "save" => (command[q].new \in homes \ HomesOf(listed) /\ Amended(q))'
    BY <1>1, <1>6 DEF Inv, Sound, Reads, Amended, Holding
  <2>3. command[q].pc \in {"tidy", "erase"} => (command[q].old \notin HomesOf(listed))'
    BY <1>1, <1>6 DEF Inv, Sound, Reads, Holding
  <2>4. command[q].pc = "tidy" =>
          mishap' \/ command[q].new \in HomesOf(listed') \/ command[q].new \notin homes'
    <3>1. command[q].pc = "tidy" => command[q].new \notin Own(command[p])
      BY <1>2 DEF Own, Inv, Numbered
    <3>2. mishap => mishap'
      BY DEF Frame
    <3>. QED BY <1>4, <1>6, <3>1, <3>2 DEF Inv, Sound, Reads, Holding
  <2>. QED BY <1>1, <2>1, <2>2, <2>3, <2>4 DEF Reads
<1>. QED BY <1>7, <1>8, <1>9 DEF Sound
\* A step of p that stays in the frame keeps the invariant if p is sound after it
\* and the stores agree.
LEMMA FrameSuffices ==
  ASSUME Inv, NEW p \in Commanders, Frame(p),
         Sound(p)', HomesApart(listed)', StoresAgree'
  PROVE  Inv'
<1>1. \A q \in Commanders : Sound(q)'
  BY OthersStaySound
<1>. QED BY <1>1, FrameKeeps DEF Inv

\* There is no home of the number NoHome.
LEMMA HomesAreNumbers ==
  ASSUME Inv
  PROVE  NoHome \notin HomesOf(listed) /\ NoHome \notin homes
<1>1. homes \cup HomesOf(listed) \subseteq 0..2 * started /\ started \in Nat
  BY DEF Inv, TypeOK, Numbered
<1>. QED BY <1>1 DEF NoHome

\* What has been discarded is gone, or something went wrong.
LEMMA DiscardFacts ==
  ASSUME NEW doomed, mishap \in BOOLEAN, Discard(doomed)
  PROVE  /\ homes' \subseteq homes /\ homes \ doomed \subseteq homes'
         /\ mishap' \in BOOLEAN /\ (mishap => mishap')
         /\ mishap' \/ doomed \cap homes' = {}
BY DEF Discard

\* A command that ends forgets everything and lets go of the lock.
LEMMA EndFacts ==
  ASSUME Inv, NEW p \in Commanders, End(p)
  PROVE  /\ Differs(command', command, p) /\ command'[p] = Idle
         /\ Idle.pc = "idle" /\ Idle.new = NoHome /\ Idle.login = NoHome
         /\ Idle.old = NoHome /\ Idle.id = 0 /\ Idle.kind = "none"
         /\ Own(Idle) = {}
         /\ (storeLock' = storeLock \/ (storeLock = p /\ storeLock' = Free))
<1>1. Idle \in CommandState
  <2>1. <<>> \in Seq(Account) /\ NoHome \in Int /\ NoWorkspace \in Spaces
    BY DEF NoHome, Spaces
  <2>. QED BY <2>1 DEF Idle, CommandState, Steps
<1>2. command' = [command EXCEPT ![p] = Idle] /\ command \in [Commanders -> CommandState]
  BY DEF End, Inv, TypeOK
<1>3. Differs(command', command, p) /\ command'[p] = Idle
  BY <1>1, <1>2 DEF Differs
<1>4. /\ Idle.pc = "idle" /\ Idle.new = NoHome /\ Idle.login = NoHome
      /\ Idle.old = NoHome /\ Idle.id = 0 /\ Idle.kind = "none"
  BY DEF Idle
<1>5. Own(Idle) = {}
  BY <1>4 DEF Own
<1>6. storeLock' = storeLock \/ (storeLock = p /\ storeLock' = Free)
  BY DEF End
<1>. QED BY <1>3, <1>4, <1>5, <1>6

\* A command that has ended is sound.
LEMMA IdleIsSound ==
  ASSUME NEW p \in Commanders, command'[p] = Idle, listed' \in Seq(Account)
  PROVE  Sound(p)'
<1>1. /\ Idle.pc = "idle" /\ Idle.login = NoHome /\ Idle.id = 0 /\ Idle.kind = "none"
      /\ Pending(Idle) = {NoHome}
  BY DEF Idle, Pending
<1>2. NoHome \notin HomesOf(listed')
  <2>1. \A i \in DOMAIN listed' : listed'[i] \in Account
    OBVIOUS
  <2>2. \A i \in DOMAIN listed' : listed'[i].home \in Nat
    BY <2>1 DEF Account
  <2>. QED BY <2>2 DEF HomesOf, NoHome
<1>. QED BY <1>1, <1>2 DEF Sound, Fresh, Meant, Reads

\* The selection still exists when no account left the list unnoticed and no
\* removal was forgotten.
LEMMA SelectionStays ==
  ASSUME Inv, NEW p \in Commanders, Differs(command', command, p),
         active' = active, raced => raced', mishap => mishap',
         \A id \in Ids(listed) :
           \/ id \in Ids(listed') \/ mishap'
           \/ command'[p].pc \in {"erase", "deselect"} /\ command'[p].id = id,
         command[p].pc \in {"erase", "deselect"} =>
           \/ mishap'
           \/ command'[p].pc \in {"erase", "deselect"} /\ command'[p].id = command[p].id
  PROVE  SelectionExists'
<1>1. CASE active \in Ids(listed)
  BY <1>1 DEF SelectionExists
<1>2. CASE active = Live \/ mishap \/ raced
  BY <1>2 DEF SelectionExists
<1>3. ASSUME NEW q \in Commanders, command[q].pc \in {"erase", "deselect"}, command[q].id = active
      PROVE  SelectionExists'
  <2>1. CASE q = p
    BY <1>3, <2>1 DEF SelectionExists
  <2>2. CASE q # p
    BY <1>3, <2>2 DEF SelectionExists, Differs
  <2>. QED BY <2>1, <2>2
<1>. QED BY <1>1, <1>2, <1>3 DEF Inv, StoresAgree, SelectionExists

\* No home is forgotten when p accounts for those that are new and those it
\* accounted for before.
LEMMA NothingForgotten ==
  ASSUME Inv, NEW p \in Commanders, Differs(command', command, p), mishap => mishap',
         \/ mishap'
         \/ \A h \in homes' :
              \/ h \in HomesOf(listed') \cup {Outside} \cup Pending(command'[p])
              \/ h \in homes \ (HomesOf(listed) \cup Pending(command[p]))
  PROVE  NoHomeIsForgotten'
<1>1. SUFFICES ASSUME ~mishap', NEW h \in homes',
                      h \notin HomesOf(listed') \cup {Outside} \cup Pending(command'[p])
               PROVE  \E q \in Commanders : h \in Pending(command'[q])
  BY DEF NoHomeIsForgotten
<1>2. h \in homes \ (HomesOf(listed) \cup Pending(command[p]) \cup {Outside}) /\ ~mishap
  BY <1>1
<1>3. PICK q \in Commanders : h \in Pending(command[q])
  BY <1>2 DEF Inv, StoresAgree, NoHomeIsForgotten
<1>4. q # p
  BY <1>2, <1>3
<1>. QED BY <1>3, <1>4 DEF Differs
-----------------------------------------------------------------------------
(* Every step keeps the invariant.                                         *)

\* The user signs in or gives up: the command goes on with what it has read.
LEMMA LoginKeepsInv ==
  ASSUME Inv, NEW p \in Commanders, Login(p)
  PROVE  Inv'
<1>1. PICK s \in {"copy", "tidy"}, w \in Spaces :
        /\ Differs(command', command, p) /\ Fixed(command'[p], command[p])
        /\ command'[p].pc = s
        /\ command'[p].accounts = command[p].accounts
        /\ command'[p].old = command[p].old /\ command'[p].dropped = command[p].dropped
  <2>0. command \in [Commanders -> CommandState] /\ "copy" \in Steps /\ "tidy" \in Steps
    BY DEF Inv, TypeOK, Steps
  <2>1. CASE command' = [command EXCEPT ![p].pc = "tidy"]
    <3>1. NoWorkspace \in Spaces
      BY DEF Spaces
    <3>2. command' = WithStep(command, p, "tidy")
      BY <2>1 DEF WithStep
    <3>. QED BY <2>0, <3>1, <3>2, WithStepFacts
  <2>2. ASSUME NEW w \in Workspaces \cup {NoWorkspace},
               command' = [command EXCEPT ![p].pc = "copy", ![p].workspace = w]
        PROVE  /\ Differs(command', command, p) /\ Fixed(command'[p], command[p])
               /\ command'[p].pc = "copy"
               /\ command'[p].accounts = command[p].accounts
               /\ command'[p].old = command[p].old /\ command'[p].dropped = command[p].dropped
    <3>. DEFINE mid == WithStep(command, p, "copy")
    <3>1. /\ Differs(mid, command, p) /\ Fixed(mid[p], command[p]) /\ mid[p].pc = "copy"
          /\ mid[p].accounts = command[p].accounts
          /\ mid[p].old = command[p].old /\ mid[p].dropped = command[p].dropped
      BY <2>0, WithStepFacts
    <3>2. command' = WithWorkspace(mid, p, w) /\ w \in Spaces
      BY <2>2 DEF Spaces, WithStep, WithWorkspace
    <3>. HIDE DEF mid
    <3>3. mid \in [Commanders -> CommandState]
      BY <3>1 DEF Differs
    <3>4. /\ Differs(command', mid, p) /\ Fixed(command'[p], mid[p])
          /\ command'[p].pc = mid[p].pc /\ command'[p].accounts = mid[p].accounts
          /\ command'[p].old = mid[p].old /\ command'[p].dropped = mid[p].dropped
      BY <3>2, <3>3, WithWorkspaceFacts
    <3>. QED BY <3>1, <3>4 DEF Differs, Fixed
  <2>. QED BY <2>1, <2>2 DEF Login, Spaces
<1>2. /\ command[p].pc = "login"
      /\ UNCHANGED <<listed, homes, storeLock, active, started, mishap, torn, raced>>
  BY DEF Login
<1>3. Sound(p) /\ storeLock = p
  BY <1>2 DEF Inv, Excludes, Holding
<1>4. Own(command'[p]) = Own(command[p]) /\ Pending(command'[p]) = Pending(command[p])
  BY <1>1 DEF Own, Pending, Fixed
<1>5. Frame(p)
  BY <1>1, <1>2, <1>3, <1>4 DEF Frame, Fixed, Inv, TypeOK, Numbered
<1>6. command[p].new \notin homes \cup HomesOf(listed) /\ command[p].old = NoHome
  BY <1>2, <1>3 DEF Sound, Fresh, Steps
<1>7. Sound(p)'
  <2>1. Fresh(p)'
    BY <1>1, <1>2, <1>3, <1>6 DEF Sound, Fresh, Fixed
  <2>2. Meant(p)'
    BY <1>1, <1>2, <1>3 DEF Sound, Meant, Fixed
  <2>3. Reads(p)'
    BY <1>1, <1>2, <1>3, <1>6, HomesAreNumbers DEF Sound, Reads, Loaded, Fixed
  <2>. QED BY <2>1, <2>2, <2>3 DEF Sound
<1>8. StoresAgree'
  <2>1. AccountsHaveHomes'
    BY <1>2 DEF Inv, StoresAgree, AccountsHaveHomes
  <2>2. NoHomeIsForgotten'
    <3>1. \A h \in homes' : \/ h \in HomesOf(listed') \cup {Outside} \cup Pending(command'[p])
                            \/ h \in homes \ (HomesOf(listed) \cup Pending(command[p]))
      BY <1>2, <1>4
    <3>. QED BY <1>1, <1>2, <3>1, NothingForgotten
  <2>3. SelectionExists'
    BY <1>1, <1>2, SelectionStays
  <2>. QED BY <2>1, <2>2, <2>3 DEF StoresAgree
<1>9. HomesApart(listed)'
  BY <1>2 DEF Inv
<1>. QED BY <1>5, <1>7, <1>8, <1>9, FrameSuffices
\* The end of a command keeps the invariant if the stores agree after it.
LEMMA EndingSuffices ==
  ASSUME Inv, NEW p \in Commanders, End(p), started' = started,
         listed' \in Seq(Account), HomesApart(listed'),
         HomesOf(listed') \subseteq HomesOf(listed), listed' = listed \/ storeLock = p,
         homes' \subseteq homes, homes' = homes \/ storeLock = p,
         active' \in Int, mishap' \in BOOLEAN, torn' \in BOOLEAN, raced' \in BOOLEAN,
         mishap => mishap', StoresAgree'
  PROVE  Inv'
<1>1. /\ Differs(command', command, p) /\ command'[p] = Idle
      /\ Idle.pc = "idle" /\ Idle.new = NoHome /\ Idle.login = NoHome
      /\ Own(Idle) = {}
      /\ (storeLock' = storeLock \/ (storeLock = p /\ storeLock' = Free))
  BY EndFacts
<1>2. homes' \subseteq Nat
  BY DEF Inv, TypeOK
<1>3. Frame(p)
  BY <1>1, <1>2 DEF Frame, Holding
<1>4. Sound(p)'
  BY <1>1, IdleIsSound
<1>. QED BY <1>3, <1>4, FrameSuffices

\* The end of a command forgets no home when those it accounted for are listed or gone.
LEMMA EndForgetsNothing ==
  ASSUME Inv, NEW p \in Commanders, End(p), mishap => mishap',
         listed' = listed, homes' \subseteq homes,
         \/ mishap'
         \/ \A h \in Pending(command[p]) : h \in HomesOf(listed) \cup {Outside} \/ h \notin homes'
  PROVE  NoHomeIsForgotten'
<1>1. Differs(command', command, p)
  BY EndFacts
<1>. QED BY <1>1, NothingForgotten

\* A command that has not made a home yet accounts for none that exists.
LEMMA NothingPending ==
  ASSUME Inv, NEW p \in Commanders,
         command[p].pc \in {"lock", "unlist", "deselect", "choose", "point"}
  PROVE  \A h \in Pending(command[p]) : h \notin homes
<1>1. Fresh(p) /\ Meant(p) /\ NoHome \notin homes
  BY HomesAreNumbers DEF Inv, Sound
<1>2. command[p].new \notin homes /\ command[p].old = NoHome
  BY <1>1 DEF Fresh, Steps
<1>3. command[p].login \notin homes
  <2>1. CASE command[p].pc = "lock"
    BY <1>1, <2>1 DEF Fresh
  <2>2. CASE command[p].pc # "lock"
    BY <1>1, <2>2 DEF Meant
  <2>. QED BY <2>1, <2>2
<1>. QED BY <1>1, <1>2, <1>3 DEF Pending

\* A killed command leaves its homes behind, which the mark of a mishap admits.
LEMMA KillKeepsInv ==
  ASSUME Inv, NEW p \in Commanders, Kill(p)
  PROVE  Inv'
<1>1. /\ End(p) /\ mishap' = (mishap \/ command[p].pc \notin {"lock", "choose", "point"})
      /\ UNCHANGED <<listed, homes, active, started, torn, raced>>
  BY DEF Kill
<1>2. Differs(command', command, p)
  BY <1>1, EndFacts
<1>3. StoresAgree'
  <2>1. AccountsHaveHomes'
    BY <1>1 DEF Inv, StoresAgree, AccountsHaveHomes
  <2>2. NoHomeIsForgotten'
    BY <1>1, NothingPending, EndForgetsNothing
  <2>3. SelectionExists'
    BY <1>1, <1>2, SelectionStays
  <2>. QED BY <2>1, <2>2, <2>3 DEF StoresAgree
<1>. QED BY <1>1, <1>3, EndingSuffices DEF Inv, TypeOK

\* The old home and that of the login are nobody's when they are deleted.
LEMMA TidyKeepsInv ==
  ASSUME Inv, NEW p \in Commanders, Tidy(p)
  PROVE  Inv'
<1>. DEFINE doomed == Deletable(command[p].old) \cup Deletable(command[p].login)
<1>1. /\ command[p].pc = "tidy" /\ Discard(doomed) /\ End(p)
      /\ UNCHANGED <<listed, active, started, torn, raced>>
  BY DEF Tidy
<1>2. /\ homes' \subseteq homes /\ homes \ doomed \subseteq homes'
      /\ mishap' \in BOOLEAN /\ (mishap => mishap')
      /\ mishap' \/ doomed \cap homes' = {}
  BY <1>1, DiscardFacts DEF Inv, TypeOK
<1>3. storeLock = p /\ Fresh(p) /\ Reads(p)
  BY <1>1 DEF Inv, Excludes, Holding, Sound
<1>4. Differs(command', command, p)
  BY <1>1, EndFacts
<1>5. StoresAgree'
  <2>1. AccountsHaveHomes'
    <3>1. doomed \cap (HomesOf(listed) \cup {Outside}) = {}
      BY <1>1, <1>3 DEF Deletable, Fresh, Reads
    <3>. QED BY <1>1, <1>2, <3>1 DEF Inv, StoresAgree, AccountsHaveHomes
  <2>2. NoHomeIsForgotten'
    <3>1. NoHome \notin homes'
      BY <1>2, HomesAreNumbers
    <3>2. \/ mishap'
          \/ \A h \in Pending(command[p]) :
               h \in HomesOf(listed) \cup {Outside} \/ h \notin homes'
      BY <1>1, <1>2, <1>3, <3>1 DEF Reads, Pending, Deletable
    <3>. QED BY <1>1, <1>2, <3>2, EndForgetsNothing
  <2>3. SelectionExists'
    BY <1>1, <1>2, <1>4, SelectionStays
  <2>. QED BY <2>1, <2>2, <2>3 DEF StoresAgree
<1>. QED BY <1>1, <1>2, <1>3, <1>5, EndingSuffices DEF Inv, TypeOK

\* The removed account is deselected only if it is still the selected one.
LEMMA DeselectKeepsInv ==
  ASSUME Inv, NEW p \in Commanders, Deselect(p)
  PROVE  Inv'
<1>1. /\ command[p].pc = "deselect" /\ End(p)
      /\ UNCHANGED <<listed, homes, started, torn, raced>>
  BY DEF Deselect
<1>2. /\ mishap' \in BOOLEAN /\ active' \in Int /\ (mishap => mishap')
      /\ \/ mishap' /\ active' = active
         \/ active = command[p].id /\ active' = Live
         \/ active # command[p].id /\ active' = active
  <2>1. mishap \in BOOLEAN /\ active \in Int /\ Live \in Int
    BY DEF Inv, TypeOK, Live
  <2>2. CASE UNCHANGED mishap /\ active' = IF active = command[p].id THEN Live ELSE active
    BY <2>1, <2>2
  <2>3. CASE UNCHANGED active /\ mishap' = TRUE
    BY <2>1, <2>3
  <2>. QED BY <2>2, <2>3 DEF Deselect
<1>3. Differs(command', command, p)
  BY <1>1, EndFacts
<1>4. StoresAgree'
  <2>1. AccountsHaveHomes'
    BY <1>1 DEF Inv, StoresAgree, AccountsHaveHomes
  <2>2. NoHomeIsForgotten'
    BY <1>1, <1>2, NothingPending, EndForgetsNothing
  <2>3. SelectionExists'
    <3>1. CASE mishap' \/ active' = Live
      BY <3>1 DEF SelectionExists
    <3>2. CASE active # command[p].id /\ active' = active /\ ~mishap'
      <4>1. \A q \in Commanders : command[q].id = active => command'[q] = command[q]
        BY <1>3, <3>2 DEF Differs
      <4>. QED BY <1>1, <1>2, <3>2, <4>1 DEF Inv, StoresAgree, SelectionExists
    <3>. QED BY <1>2, <3>1, <3>2
  <2>. QED BY <2>1, <2>2, <2>3 DEF StoresAgree
<1>. QED BY <1>1, <1>2, <1>4, EndingSuffices DEF Inv, TypeOK

\* The account that is selected exists, or crossed its removal.
LEMMA PointKeepsInv ==
  ASSUME Inv, NEW p \in Commanders, Point(p)
  PROVE  Inv'
<1>1. /\ command[p].pc = "point" /\ End(p)
      /\ UNCHANGED <<listed, homes, started, mishap, torn>>
  BY DEF Point
<1>2. /\ active' \in Int /\ raced' \in BOOLEAN /\ (raced => raced')
      /\ active' = active \/ active' \in Ids(listed) \/ raced'
  <2>1. raced \in BOOLEAN /\ active \in Int /\ command[p].id \in Int
    BY DEF Inv, TypeOK, CommandState
  <2>2. CASE active' = command[p].id /\ raced' = (raced \/ command[p].id \notin Ids(listed))
    BY <2>1, <2>2
  <2>3. CASE UNCHANGED <<active, raced>>
    BY <2>1, <2>3
  <2>. QED BY <2>2, <2>3 DEF Point
<1>3. Differs(command', command, p)
  BY <1>1, EndFacts
<1>4. StoresAgree'
  <2>1. AccountsHaveHomes'
    BY <1>1 DEF Inv, StoresAgree, AccountsHaveHomes
  <2>2. NoHomeIsForgotten'
    BY <1>1, NothingPending, EndForgetsNothing
  <2>3. SelectionExists'
    <3>1. CASE active' \in Ids(listed) \/ raced'
      BY <1>1, <3>1 DEF SelectionExists
    <3>2. CASE active' = active
      BY <1>1, <1>2, <1>3, <3>2, SelectionStays
    <3>. QED BY <1>2, <3>1, <3>2
  <2>. QED BY <2>1, <2>2, <2>3 DEF StoresAgree
<1>. QED BY <1>1, <1>2, <1>4, EndingSuffices DEF Inv, TypeOK

\* A selection has read the file without the lock.
LEMMA ChooseKeepsInv ==
  ASSUME Inv, NEW p \in Commanders, Choose(p)
  PROVE  Inv'
<1>1. /\ command[p].pc = "choose"
      /\ UNCHANGED <<listed, homes, active, started, mishap, torn, raced>>
  BY DEF Choose
<1>2. CASE End(p)
  <2>1. Differs(command', command, p)
    BY <1>2, EndFacts
  <2>2. StoresAgree'
    <3>1. AccountsHaveHomes'
      BY <1>1 DEF Inv, StoresAgree, AccountsHaveHomes
    <3>2. NoHomeIsForgotten'
      BY <1>1, <1>2, NothingPending, EndForgetsNothing
    <3>3. SelectionExists'
      BY <1>1, <2>1, SelectionStays
    <3>. QED BY <3>1, <3>2, <3>3 DEF StoresAgree
  <2>. QED BY <1>1, <1>2, <2>2, EndingSuffices DEF Inv, TypeOK
<1>3. CASE command' = WithStep(command, p, "point") /\ UNCHANGED storeLock
  <2>1. /\ Differs(command', command, p) /\ Fixed(command'[p], command[p])
        /\ command'[p].pc = "point" /\ command'[p].old = command[p].old
    BY <1>3, WithStepFacts DEF Inv, TypeOK, Steps
  <2>2. Own(command'[p]) = Own(command[p]) /\ Pending(command'[p]) = Pending(command[p])
    BY <2>1 DEF Own, Pending, Fixed
  <2>3. Frame(p)
    BY <1>1, <1>3, <2>1, <2>2 DEF Frame, Fixed, Holding, Inv, TypeOK, Numbered
  <2>4. Sound(p)'
    <3>1. Sound(p)
      BY DEF Inv
    <3>. QED BY <1>1, <2>1, <3>1 DEF Sound, Fresh, Meant, Reads, Fixed, Steps
  <2>5. StoresAgree'
    <3>1. AccountsHaveHomes'
      BY <1>1 DEF Inv, StoresAgree, AccountsHaveHomes
    <3>2. NoHomeIsForgotten'
      <4>1. \A h \in homes' :
              \/ h \in HomesOf(listed') \cup {Outside} \cup Pending(command'[p])
              \/ h \in homes \ (HomesOf(listed) \cup Pending(command[p]))
        BY <1>1, <2>2
      <4>. QED BY <1>1, <2>1, <4>1, NothingForgotten
    <3>3. SelectionExists'
      BY <1>1, <2>1, SelectionStays
    <3>. QED BY <3>1, <3>2, <3>3 DEF StoresAgree
  <2>6. HomesApart(listed)'
    BY <1>1 DEF Inv
  <2>. QED BY <2>3, <2>4, <2>5, <2>6, FrameSuffices
<1>. QED BY <1>2, <1>3 DEF Choose, WithStep

\* The home of the removed account is in no entry of the file.
LEMMA EraseKeepsInv ==
  ASSUME Inv, NEW p \in Commanders, Erase(p)
  PROVE  Inv'
<1>1. /\ command[p].pc = "erase"
      /\ UNCHANGED <<listed, active, started, torn, raced>>
  BY DEF Erase
<1>2. storeLock = p /\ Sound(p) /\ command \in [Commanders -> CommandState]
  BY <1>1 DEF Inv, TypeOK, Excludes, Holding
<1>3. CASE /\ homes' = homes \ Deletable(command[p].old)
           /\ storeLock' = Free
           /\ command' = WithOld(WithStep(command, p, "deselect"), p, NoHome)
           /\ UNCHANGED mishap
  <2>. DEFINE mid == WithStep(command, p, "deselect")
  <2>1. /\ Differs(mid, command, p) /\ Fixed(mid[p], command[p]) /\ mid[p].pc = "deselect"
    BY <1>2, WithStepFacts DEF Steps
  <2>2. command' = WithOld(mid, p, NoHome) /\ NoHome \in Int
    BY <1>3 DEF NoHome
  <2>. HIDE DEF mid
  <2>3. mid \in [Commanders -> CommandState]
    BY <2>1 DEF Differs
  <2>4. /\ Differs(command', mid, p) /\ Fixed(command'[p], mid[p])
        /\ command'[p].pc = mid[p].pc /\ command'[p].old = NoHome
    BY <2>2, <2>3, WithOldFacts
  <2>5. /\ Differs(command', command, p) /\ Fixed(command'[p], command[p])
        /\ command'[p].pc = "deselect" /\ command'[p].old = NoHome
    BY <2>1, <2>4 DEF Differs, Fixed
  <2>6. Own(command'[p]) = Own(command[p])
    BY <2>5 DEF Own, Fixed
  <2>7. Frame(p)
    BY <1>1, <1>2, <1>3, <2>5, <2>6 DEF Frame, Fixed, Holding, Inv, TypeOK, Numbered
  <2>8. Sound(p)'
    BY <1>1, <1>2, <1>3, <2>5 DEF Sound, Fresh, Meant, Reads, Fixed, Steps
  <2>9. StoresAgree'
    <3>1. AccountsHaveHomes'
      <4>1. Deletable(command[p].old) \cap (HomesOf(listed) \cup {Outside}) = {}
        BY <1>1, <1>2 DEF Deletable, Sound, Reads
      <4>. QED BY <1>1, <1>3, <4>1 DEF Inv, StoresAgree, AccountsHaveHomes
    <3>2. NoHomeIsForgotten'
      <4>1. NoHome \notin homes
        BY HomesAreNumbers
      <4>2. ASSUME NEW h \in homes'
            PROVE  \/ h \in HomesOf(listed') \cup {Outside} \cup Pending(command'[p])
                   \/ h \in homes \ (HomesOf(listed) \cup Pending(command[p]))
        <5>1. h \in homes /\ h \notin Deletable(command[p].old) /\ h # NoHome
          BY <1>3, <4>1
        <5>2. h = command[p].old => h = Outside
          BY <5>1 DEF Deletable
        <5>. QED BY <1>1, <2>5, <5>1, <5>2 DEF Pending, Fixed
      <4>. QED BY <1>3, <2>5, <4>2, NothingForgotten
    <3>3. SelectionExists'
      BY <1>1, <1>3, <2>5, SelectionStays DEF Fixed
    <3>. QED BY <3>1, <3>2, <3>3 DEF StoresAgree
  <2>10. HomesApart(listed)'
    BY <1>1 DEF Inv
  <2>. QED BY <2>7, <2>8, <2>9, <2>10, FrameSuffices
<1>4. CASE mishap' = TRUE /\ End(p) /\ UNCHANGED homes
  <2>1. Differs(command', command, p)
    BY <1>4, EndFacts
  <2>2. StoresAgree'
    <3>1. AccountsHaveHomes'
      BY <1>1, <1>4 DEF Inv, StoresAgree, AccountsHaveHomes
    <3>2. NoHomeIsForgotten' /\ SelectionExists'
      BY <1>4 DEF NoHomeIsForgotten, SelectionExists
    <3>. QED BY <3>1, <3>2 DEF StoresAgree
  <2>. QED BY <1>1, <1>4, <2>2, EndingSuffices DEF Inv, TypeOK
<1>. QED BY <1>3, <1>4 DEF Erase, WithStep, WithOld
\* What the list is without the account that is removed.
LEMMA UnlistFacts ==
  ASSUME Inv, NEW p \in Commanders, command[p].pc = "unlist"
  PROVE  LET index == IndexOf(command[p].accounts, command[p].id)
             less  == RemoveAt(command[p].accounts, index)
             old   == command[p].accounts[index].home
         IN /\ less \in Seq(Account) /\ HomesApart(less) /\ old \in Int
            /\ HomesOf(less) \subseteq HomesOf(listed) /\ old \notin HomesOf(less)
            /\ command[p].dropped = FALSE =>
                 /\ HomesOf(listed) \subseteq HomesOf(less) \cup {old}
                 /\ Ids(listed) \subseteq Ids(less) \cup {command[p].id}
            /\ Distinct(listed) => Ids(listed) \subseteq Ids(less) \cup {command[p].id}
<1>. DEFINE kept == command[p].accounts
            index == IndexOf(kept, command[p].id)
            less  == RemoveAt(kept, index)
            old   == kept[index].home
<1>1. /\ Loaded(p) /\ command[p].id # 0 /\ HomesApart(listed) /\ listed \in Seq(Account)
  BY DEF Inv, TypeOK, Sound, Reads, Meant
<1>2. kept = WithoutDuplicates(listed) /\ command[p].id \in Ids(kept)
  BY <1>1 DEF Loaded
<1>3. /\ kept \in Seq(Account) /\ HomesOf(kept) \subseteq HomesOf(listed)
      /\ Len(kept) >= Len(listed) => kept = listed
      /\ Distinct(listed) => kept = listed
      /\ \A i, j \in DOMAIN kept : i # j => kept[i].home # kept[j].home
  BY <1>1, <1>2, WithoutDuplicatesFacts
<1>4. index \in DOMAIN kept /\ kept[index].id = command[p].id
  BY <1>2 DEF Ids, IndexOf
<1>5. /\ less \in Seq(Account) /\ HomesApart(less)
      /\ Ids(kept) \subseteq Ids(less) \cup {kept[index].id}
      /\ HomesOf(less) = HomesOf(kept) \ {kept[index].home}
  BY <1>3, <1>4, RemovedFacts
<1>6. old \in Int
  <2>1. kept[index] \in Account
    BY <1>3, <1>4
  <2>. QED BY <2>1 DEF Account
<1>7. command[p].dropped \/ kept = listed
  <2>1. command[p].dropped \/ ~(Len(kept) < Len(listed))
    BY <1>1, <1>2 DEF Loaded
  <2>2. Len(kept) \in Nat /\ Len(listed) \in Nat
    BY <1>1, <1>3
  <2>. QED BY <1>3, <2>1, <2>2
<1>. HIDE DEF less
<1>8. HomesOf(less) \subseteq HomesOf(listed) /\ old \notin HomesOf(less)
  BY <1>3, <1>5
<1>9. HomesOf(kept) \subseteq HomesOf(less) \cup {old}
  BY <1>5
<1>10. Ids(kept) \subseteq Ids(less) \cup {command[p].id}
  BY <1>4, <1>5
<1>. HIDE DEF kept, old, index
<1>11. ASSUME command[p].dropped = FALSE
       PROVE  /\ HomesOf(listed) \subseteq HomesOf(less) \cup {old}
              /\ Ids(listed) \subseteq Ids(less) \cup {command[p].id}
  <2>1. kept = listed
    BY <1>7, <1>11
  <2>. QED BY <1>9, <1>10, <2>1, Zenon
<1>12. ASSUME Distinct(listed) PROVE Ids(listed) \subseteq Ids(less) \cup {command[p].id}
  <2>1. kept = listed
    BY <1>3, <1>12
  <2>. QED BY <1>10, <2>1, Zenon
<1>. QED BY <1>5, <1>6, <1>8, <1>11, <1>12 DEF kept, index, less, old

\* The removed account leaves the file before its home is deleted.
LEMMA UnlistKeepsInv ==
  ASSUME Inv, NEW p \in Commanders, Unlist(p)
  PROVE  Inv'
<1>. DEFINE index == IndexOf(command[p].accounts, command[p].id)
            less == RemoveAt(command[p].accounts, index)
            old == command[p].accounts[index].home
<1>1. /\ command[p].pc = "unlist"
      /\ UNCHANGED <<homes, active, started, torn, raced>>
  BY DEF Unlist
<1>2. /\ storeLock = p /\ Sound(p) /\ command \in [Commanders -> CommandState]
      /\ mishap \in BOOLEAN /\ command[p].dropped \in BOOLEAN
  BY <1>1 DEF Inv, TypeOK, Excludes, Holding, CommandState
<1>3. /\ less \in Seq(Account) /\ HomesApart(less) /\ old \in Int
      /\ HomesOf(less) \subseteq HomesOf(listed) /\ old \notin HomesOf(less)
      /\ command[p].dropped = FALSE =>
           /\ HomesOf(listed) \subseteq HomesOf(less) \cup {old}
           /\ Ids(listed) \subseteq Ids(less) \cup {command[p].id}
  BY <1>1, UnlistFacts
<1>4. CASE /\ listed' = less /\ mishap' = (mishap \/ command[p].dropped)
           /\ command' = WithOld(WithStep(command, p, "erase"), p, old)
           /\ UNCHANGED storeLock
  <2>. HIDE DEF less, old, index
  <2>. DEFINE mid == WithStep(command, p, "erase")
  <2>1. /\ Differs(mid, command, p) /\ Fixed(mid[p], command[p]) /\ mid[p].pc = "erase"
    BY <1>2, WithStepFacts DEF Steps
  <2>2. command' = WithOld(mid, p, old)
    BY <1>4
  <2>. HIDE DEF mid
  <2>3. mid \in [Commanders -> CommandState]
    BY <2>1 DEF Differs
  <2>4. /\ Differs(command', mid, p) /\ Fixed(command'[p], mid[p])
        /\ command'[p].pc = mid[p].pc /\ command'[p].old = old
    BY <1>3, <2>2, <2>3, WithOldFacts
  <2>5. /\ Differs(command', command, p) /\ Fixed(command'[p], command[p])
        /\ command'[p].pc = "erase" /\ command'[p].old = old
    BY <2>1, <2>4 DEF Differs, Fixed
  <2>6. Own(command'[p]) = Own(command[p])
    BY <2>5 DEF Own, Fixed
  <2>7. Frame(p)
    BY <1>1, <1>2, <1>3, <1>4, <2>5, <2>6 DEF Frame, Fixed, Inv, TypeOK, Numbered
  <2>8. Sound(p)'
    BY <1>1, <1>2, <1>3, <1>4, <2>5 DEF Sound, Fresh, Meant, Reads, Fixed, Steps
  <2>9. StoresAgree'
    <3>1. AccountsHaveHomes'
      BY <1>1, <1>3, <1>4 DEF Inv, StoresAgree, AccountsHaveHomes
    <3>2. NoHomeIsForgotten'
      <4>1. command[p].old = NoHome /\ NoHome \notin homes
        BY <1>1, <1>2, HomesAreNumbers DEF Sound, Fresh, Steps
      <4>2. CASE command[p].dropped
        BY <1>4, <4>2 DEF NoHomeIsForgotten
      <4>3. CASE HomesOf(listed) \subseteq HomesOf(less) \cup {old}
        <5>1. ASSUME NEW h \in homes'
              PROVE  \/ h \in HomesOf(listed') \cup {Outside} \cup Pending(command'[p])
                     \/ h \in homes \ (HomesOf(listed) \cup Pending(command[p]))
          BY <1>1, <1>4, <2>5, <4>1, <4>3 DEF Pending, Fixed
        <5>. QED BY <1>4, <2>5, <5>1, NothingForgotten
      <4>. QED BY <1>2, <1>3, <4>2, <4>3
    <3>3. SelectionExists'
      BY <1>1, <1>2, <1>3, <1>4, <2>5, SelectionStays DEF Fixed
    <3>. QED BY <3>1, <3>2, <3>3 DEF StoresAgree
  <2>10. HomesApart(listed)'
    BY <1>3, <1>4
  <2>. QED BY <2>7, <2>8, <2>9, <2>10, FrameSuffices
<1>5. CASE End(p) /\ UNCHANGED <<listed, mishap>>
  <2>1. Differs(command', command, p)
    BY <1>5, EndFacts
  <2>2. StoresAgree'
    <3>1. AccountsHaveHomes'
      BY <1>1, <1>5 DEF Inv, StoresAgree, AccountsHaveHomes
    <3>2. NoHomeIsForgotten'
      BY <1>1, <1>5, NothingPending, EndForgetsNothing
    <3>3. SelectionExists'
      BY <1>1, <1>5, <2>1, SelectionStays
    <3>. QED BY <3>1, <3>2, <3>3 DEF StoresAgree
  <2>. QED BY <1>1, <1>5, <2>2, EndingSuffices DEF Inv, TypeOK
<1>6. CASE listed' = less /\ mishap' = TRUE /\ End(p)
  <2>. HIDE DEF less, old, index
  <2>1. StoresAgree'
    <3>1. AccountsHaveHomes'
      BY <1>1, <1>3, <1>6 DEF Inv, StoresAgree, AccountsHaveHomes
    <3>2. NoHomeIsForgotten' /\ SelectionExists'
      BY <1>6 DEF NoHomeIsForgotten, SelectionExists
    <3>. QED BY <3>1, <3>2 DEF StoresAgree
  <2>. QED BY <1>1, <1>2, <1>3, <1>6, <2>1, EndingSuffices DEF Inv, TypeOK
<1>. QED BY <1>4, <1>5, <1>6 DEF Unlist, WithStep, WithOld

\* A command has read the file with the lock held, in a home nobody else has.
LEMMA OpenKeepsInv ==
  ASSUME Inv, NEW p \in Commanders, Open(p)
  PROVE  Inv'
<1>. DEFINE kept == WithoutDuplicates(listed)
            next == CASE command[p].kind = "remove" -> "unlist"
                      [] command[p].kind = "import" -> "copy"
                      [] OTHER -> "login"
<1>1. /\ command[p].pc = "lock" /\ storeLock = Free
      /\ UNCHANGED <<listed, active, started, mishap, torn, raced>>
  BY DEF Open, Opens
<1>2. Sound(p) /\ command \in [Commanders -> CommandState] /\ listed \in Seq(Account)
  BY DEF Inv, TypeOK
<1>3. CASE End(p) /\ UNCHANGED homes
  <2>1. Differs(command', command, p)
    BY <1>3, EndFacts
  <2>2. StoresAgree'
    <3>1. AccountsHaveHomes'
      BY <1>1, <1>3 DEF Inv, StoresAgree, AccountsHaveHomes
    <3>2. NoHomeIsForgotten'
      BY <1>1, <1>3, NothingPending, EndForgetsNothing
    <3>3. SelectionExists'
      BY <1>1, <2>1, SelectionStays
    <3>. QED BY <3>1, <3>2, <3>3 DEF StoresAgree
  <2>. QED BY <1>1, <1>3, <2>2, EndingSuffices DEF Inv, TypeOK
<1>4. CASE /\ command[p].id # 0 => command[p].id \in Ids(kept)
           /\ storeLock' = p
           /\ command' = WithStep(WithDropped(WithAccounts(command, p, kept), p,
                                             Len(kept) < Len(listed)), p, next)
           /\ homes' = homes \cup ({command[p].login} \ {NoHome})
  <2>0. kept \in Seq(Account)
    BY <1>2, WithoutDuplicatesFacts
  <2>1. /\ next \in {"unlist", "copy", "login"} /\ next \in Steps
        /\ next = "unlist" => command[p].kind = "remove"
    BY DEF Steps
  <2>. DEFINE fewer == Len(kept) < Len(listed)
              mid1 == WithAccounts(command, p, kept)
              mid2 == WithDropped(mid1, p, fewer)
  <2>12. fewer \in BOOLEAN
    OBVIOUS
  <2>. HIDE DEF kept, next
  <2>2. /\ Differs(mid1, command, p) /\ Fixed(mid1[p], command[p]) /\ mid1[p].accounts = kept
        /\ mid1[p].pc = command[p].pc /\ mid1[p].old = command[p].old
    BY <1>2, <2>0, WithAccountsFacts
  <2>. HIDE DEF mid1
  <2>3. /\ Differs(mid2, mid1, p) /\ Fixed(mid2[p], mid1[p])
        /\ mid2[p].dropped = fewer
        /\ mid2[p].accounts = mid1[p].accounts /\ mid2[p].old = mid1[p].old
    <3>. HIDE DEF fewer
    <3>. QED BY <2>2, <2>12, WithDroppedFacts DEF Differs
  <2>4. command' = WithStep(mid2, p, next)
    BY <1>4 DEF mid1
  <2>. HIDE DEF mid2
  <2>5. /\ Differs(command', mid2, p) /\ Fixed(command'[p], mid2[p]) /\ command'[p].pc = next
        /\ command'[p].accounts = mid2[p].accounts /\ command'[p].old = mid2[p].old
        /\ command'[p].dropped = mid2[p].dropped
    BY <2>1, <2>3, <2>4, WithStepFacts DEF Differs
  <2>6. /\ Differs(command', command, p) /\ Fixed(command'[p], command[p])
        /\ command'[p].pc = next /\ command'[p].old = command[p].old
        /\ command'[p].accounts = kept /\ command'[p].dropped = (Len(kept) < Len(listed))
    BY <2>2, <2>3, <2>5 DEF Differs, Fixed
  <2>7. Own(command'[p]) = Own(command[p]) /\ Pending(command'[p]) = Pending(command[p])
    BY <2>6 DEF Own, Pending, Fixed
  <2>8. Frame(p)
    <3>1. homes' \subseteq homes \cup Own(command[p]) /\ homes' \subseteq Nat
      BY <1>4 DEF Own, Inv, TypeOK, Numbered
    <3>. QED BY <1>1, <1>4, <2>1, <2>6, <2>7, <3>1 DEF Frame, Fixed, Inv, TypeOK, Numbered
  <2>9. Sound(p)'
    <3>1. command[p].new \notin homes' \cup HomesOf(listed) /\ command[p].old = NoHome
      BY <1>1, <1>2, <1>4 DEF Sound, Fresh, Steps, Inv, Numbered
    <3>2. Fresh(p)'
      BY <1>1, <1>2, <2>1, <2>6, <3>1 DEF Sound, Fresh, Fixed
    <3>3. Meant(p)'
      BY <1>1, <1>2, <2>1, <2>6 DEF Sound, Meant, Fixed
    <3>4. Loaded(p)'
      BY <1>1, <1>4, <2>6 DEF Loaded, Fixed, kept
    <3>5. Reads(p)'
      BY <2>1, <2>6, <3>4 DEF Reads
    <3>. QED BY <3>2, <3>3, <3>5 DEF Sound
  <2>10. StoresAgree'
    <3>1. AccountsHaveHomes'
      BY <1>1, <1>4 DEF Inv, StoresAgree, AccountsHaveHomes
    <3>2. NoHomeIsForgotten'
      <4>1. ASSUME NEW h \in homes'
            PROVE  \/ h \in HomesOf(listed') \cup {Outside} \cup Pending(command'[p])
                   \/ h \in homes \ (HomesOf(listed) \cup Pending(command[p]))
        BY <1>1, <1>4, <2>7 DEF Pending
      <4>. QED BY <1>1, <2>6, <4>1, NothingForgotten
    <3>3. SelectionExists'
      BY <1>1, <2>6, SelectionStays
    <3>. QED BY <3>1, <3>2, <3>3 DEF StoresAgree
  <2>11. HomesApart(listed)'
    BY <1>1 DEF Inv
  <2>. QED BY <2>8, <2>9, <2>10, <2>11, FrameSuffices
<1>. QED BY <1>3, <1>4 DEF Open, Opens, WithStep, WithDropped, WithAccounts
\* A command as it begins.
Begun(step, kind, id, workspace, new, login) ==
  [Idle EXCEPT !.pc = step, !.kind = kind, !.id = id, !.workspace = workspace,
               !.new = new, !.login = login]

\* It has these fields, and an old home that is none.
LEMMA BegunFields ==
  ASSUME NEW step \in Steps,
         NEW kind \in {"none", "import", "login", "reauth", "remove", "select"},
         NEW id \in Int, NEW workspace \in Spaces, NEW new \in Int, NEW login \in Int
  PROVE  LET d == Begun(step, kind, id, workspace, new, login) IN
           /\ d \in CommandState
           /\ d.pc = step /\ d.kind = kind /\ d.id = id /\ d.new = new /\ d.login = login
           /\ d.old = NoHome
<1>. DEFINE one == [Idle EXCEPT !.pc = step]
            two == [one EXCEPT !.kind = kind]
            three == [two EXCEPT !.id = id]
            four == [three EXCEPT !.workspace = workspace]
            five == [four EXCEPT !.new = new]
            six == [five EXCEPT !.login = login]
<1>0. Idle \in CommandState /\ Idle.old = NoHome
  <2>1. <<>> \in Seq(Account) /\ NoHome \in Int /\ NoWorkspace \in Spaces
    BY DEF NoHome, Spaces
  <2>. QED BY <2>1 DEF Idle, CommandState, Steps
<1>1. one \in CommandState /\ one.old = NoHome /\ one.pc = step
  BY <1>0 DEF CommandState
<1>. HIDE DEF one
<1>2. two \in CommandState /\ two.old = NoHome /\ two.pc = step /\ two.kind = kind
  BY <1>1 DEF CommandState
<1>. HIDE DEF two
<1>3. /\ three \in CommandState /\ three.old = NoHome /\ three.pc = step /\ three.kind = kind
      /\ three.id = id
  BY <1>2 DEF CommandState
<1>. HIDE DEF three
<1>4. /\ four \in CommandState /\ four.old = NoHome /\ four.pc = step /\ four.kind = kind
      /\ four.id = id
  BY <1>3 DEF CommandState
<1>. HIDE DEF four
<1>5. /\ five \in CommandState /\ five.old = NoHome /\ five.pc = step /\ five.kind = kind
      /\ five.id = id /\ five.new = new
  BY <1>4 DEF CommandState
<1>. HIDE DEF five
<1>6. /\ six \in CommandState /\ six.old = NoHome /\ six.pc = step /\ six.kind = kind
      /\ six.id = id /\ six.new = new /\ six.login = login
  BY <1>5 DEF CommandState
<1>7. six = Begun(step, kind, id, workspace, new, login)
  BY DEF one, two, three, four, five, Begun
<1>. HIDE DEF six
<1>. QED BY <1>6, <1>7

\* A command begins with numbers no home and no command has.
LEMMA BeginKeepsInv ==
  ASSUME Inv, NEW p \in Commanders, Begin(p)
  PROVE  Inv'
<1>1. /\ command[p].pc = "idle" /\ started' = started + 1
      /\ UNCHANGED <<listed, homes, storeLock, active, mishap, torn, raced>>
  BY DEF Begin
<1>2. /\ started \in Nat /\ listed \in Seq(Account)
      /\ command \in [Commanders -> CommandState] /\ Sound(p)
  BY DEF Inv, TypeOK
<1>3. PICK kind \in {"import", "login", "reauth", "remove", "select"},
           id \in Ids(listed) \cup {0}, workspace \in Workspaces \cup {NoWorkspace} :
        /\ (id # 0) = (kind \in {"reauth", "remove", "select"})
        /\ command' = [command EXCEPT ![p] =
             [Idle EXCEPT
                !.pc = IF kind = "select" THEN "choose" ELSE "lock",
                !.kind = kind,
                !.id = id,
                !.workspace = IF kind = "import" THEN workspace ELSE NoWorkspace,
                !.new = 2 * started + 1,
                !.login = IF kind \in {"login", "reauth"} THEN 2 * started + 2 ELSE NoHome]]
  BY DEF Begin
<1>. DEFINE step == IF kind = "select" THEN "choose" ELSE "lock"
            space == IF kind = "import" THEN workspace ELSE NoWorkspace
            login == IF kind \in {"login", "reauth"} THEN 2 * started + 2 ELSE NoHome
            d == Begun(step, kind, id, space, 2 * started + 1, login)
<1>4. command' = [command EXCEPT ![p] = d]
  BY <1>3 DEF Begun
<1>5. /\ d \in CommandState /\ d.pc = step /\ d.kind = kind /\ d.id = id
      /\ d.new = 2 * started + 1 /\ d.login = login /\ d.old = NoHome
  <2>1. id \in Int
    <3>1. \A i \in DOMAIN listed : listed[i] \in Account
      BY <1>2
    <3>. QED BY <3>1 DEF Ids, Account
  <2>2. /\ step \in Steps /\ space \in Spaces /\ login \in Int /\ 2 * started + 1 \in Int
        /\ kind \in {"none", "import", "login", "reauth", "remove", "select"}
    BY <1>2 DEF Steps, Spaces, NoHome
  <2>. HIDE DEF step, space, login
  <2>. QED BY <2>1, <2>2, BegunFields
<1>. HIDE DEF d
<1>6. /\ d.pc \in {"choose", "lock"} /\ (d.pc = "choose" <=> d.kind = "select")
      /\ d.kind \in {"import", "login", "reauth", "remove", "select"}
      /\ (d.id # 0) = (d.kind \in {"reauth", "remove", "select"})
      /\ d.new = 2 * started + 1 /\ d.old = NoHome
      /\ IF d.kind \in {"login", "reauth"} THEN d.login = 2 * started + 2 ELSE d.login = NoHome
  BY <1>3, <1>5
<1>7. Differs(command', command, p) /\ command'[p] = d
  BY <1>2, <1>4, <1>5 DEF Differs
<1>8. /\ homes \cup HomesOf(listed) \subseteq 0..2 * started
      /\ \A q \in Commanders : Own(command[q]) \subseteq 1..2 * started
  BY DEF Inv, Numbered
<1>9. TypeOK'
  BY <1>1, <1>2, <1>7 DEF Inv, TypeOK, Differs
<1>10. Excludes'
  BY <1>1, <1>6, <1>7 DEF Inv, Excludes, Differs, Holding
<1>11. /\ Own(d) \subseteq {2 * started + 1, 2 * started + 2} /\ d.new # NoHome /\ d.new # d.login
  BY <1>2, <1>6 DEF Own, NoHome
<1>12. Numbered'
  <2>1. (homes \cup HomesOf(listed))' \subseteq 0..2 * started'
    <3>1. 0..2 * started \subseteq 0..2 * started'
      BY <1>1, <1>2
    <3>. QED BY <1>1, <1>8, <3>1
  <2>2. \A q \in Commanders : Own(command'[q]) \subseteq 1..2 * started'
    <3>1. 1..2 * started \subseteq 1..2 * started'
      BY <1>1, <1>2
    <3>2. {2 * started + 1, 2 * started + 2} \subseteq 1..2 * started'
      BY <1>1, <1>2
    <3>. QED BY <1>7, <1>8, <1>11, <3>1, <3>2 DEF Differs
  <2>3. \A q \in Commanders :
           /\ command'[q].pc # "idle" => command'[q].new # NoHome
           /\ command'[q].new = command'[q].login => command'[q].new = NoHome
    BY <1>7, <1>11 DEF Differs, Inv, Numbered
  <2>4. ASSUME NEW q \in Commanders, NEW r \in Commanders, q # r
        PROVE  Own(command'[q]) \cap Own(command'[r]) = {}
    <3>1. (1..2 * started) \cap {2 * started + 1, 2 * started + 2} = {}
      BY <1>2
    <3>2. CASE q # p /\ r # p
      BY <1>7, <2>4, <3>2 DEF Differs, Inv, Numbered
    <3>3. CASE q = p
      <4>1. command'[q] = d /\ command'[r] = command[r]
        BY <1>7, <2>4, <3>3 DEF Differs
      <4>. QED BY <1>8, <1>11, <3>1, <4>1
    <3>4. CASE r = p
      <4>1. command'[r] = d /\ command'[q] = command[q]
        BY <1>7, <2>4, <3>4 DEF Differs
      <4>. QED BY <1>8, <1>11, <3>1, <4>1
    <3>. QED BY <3>2, <3>3, <3>4
  <2>. HIDE DEF Own, HomesOf
  <2>. QED BY <2>1, <2>2, <2>3, <2>4 DEF Numbered
<1>13. \A q \in Commanders : Sound(q)'
  <2>1. ASSUME NEW q \in Commanders, q # p PROVE Sound(q)'
    <3>1. command'[q] = command[q] /\ Sound(q)
      BY <1>7, <2>1 DEF Differs, Inv
    <3>2. UNCHANGED <<listed, homes, mishap>>
      BY <1>1
    <3>3. Fresh(q)' /\ Meant(q)'
      BY <3>1, <3>2 DEF Sound, Fresh, Meant
    <3>4. Loaded(q)' = Loaded(q) /\ Amended(q)' = Amended(q)
      BY <3>1, <3>2 DEF Loaded, Amended
    <3>5. Reads(q)'
      BY <3>1, <3>2, <3>4 DEF Sound, Reads
    <3>. QED BY <3>3, <3>5 DEF Sound
  <2>2. Sound(p)'
    <3>1. /\ 2 * started + 1 \notin homes \cup HomesOf(listed)
          /\ 2 * started + 2 \notin homes \cup HomesOf(listed)
          /\ NoHome \notin homes \cup HomesOf(listed)
      BY <1>2, <1>8, HomesAreNumbers
    <3>2. Fresh(p)'
      BY <1>1, <1>6, <1>7, <3>1 DEF Fresh
    <3>3. Meant(p)'
      BY <1>6, <1>7 DEF Meant
    <3>4. Reads(p)'
      BY <1>6, <1>7 DEF Reads
    <3>. QED BY <3>2, <3>3, <3>4 DEF Sound
  <2>. QED BY <2>1, <2>2
<1>14. StoresAgree'
  <2>1. AccountsHaveHomes'
    BY <1>1 DEF Inv, StoresAgree, AccountsHaveHomes
  <2>2. NoHomeIsForgotten'
    <3>1. Pending(command[p]) = {NoHome}
      BY <1>1, <1>2 DEF Sound, Fresh
    <3>2. ASSUME NEW h \in homes'
          PROVE  \/ h \in HomesOf(listed') \cup {Outside} \cup Pending(command'[p])
                 \/ h \in homes \ (HomesOf(listed) \cup Pending(command[p]))
      BY <1>1, <3>1, HomesAreNumbers
    <3>. QED BY <1>1, <1>7, <3>2, NothingForgotten
  <2>3. SelectionExists'
    BY <1>1, <1>7, SelectionStays
  <2>. QED BY <2>1, <2>2, <2>3 DEF StoresAgree
<1>15. HomesApart(listed)'
  BY <1>1 DEF Inv
<1>. QED BY <1>9, <1>10, <1>12, <1>13, <1>14, <1>15 DEF Inv

\* The new home exists before the list names it.
LEMMA CopyKeepsInv ==
  ASSUME Inv, NEW p \in Commanders, Copy(p)
  PROVE  Inv'
<1>. DEFINE kept == command[p].accounts
            index == Existing(command[p])
            entry == ManagedAccount(IF index = 0 THEN command[p].new ELSE kept[index].id,
                                    command[p].workspace, command[p].new)
            old == IF index = 0 THEN NoHome ELSE kept[index].home
            more == IF index = 0 THEN Append(kept, entry) ELSE [kept EXCEPT ![index] = entry]
<1>1. /\ command[p].pc = "copy"
      /\ UNCHANGED <<listed, storeLock, active, started, mishap, torn, raced>>
  BY DEF Copy
<1>2. /\ storeLock = p /\ Sound(p) /\ Loaded(p) /\ started \in Nat
      /\ command \in [Commanders -> CommandState] /\ command[p] \in CommandState
  BY <1>1 DEF Inv, TypeOK, Excludes, Holding, Sound, Reads
<1>3. /\ command[p].new \in 1..2 * started
      /\ command[p].new \notin homes \cup HomesOf(listed)
      /\ command[p].old = NoHome /\ NoHome \notin homes \cup HomesOf(listed)
  <2>1. command[p].new \in 1..2 * started
    BY <1>1 DEF Inv, Numbered, Own
  <2>. QED BY <1>1, <1>2, <2>1, HomesAreNumbers DEF Sound, Fresh, Steps
<1>4. CASE command' = WithStep(command, p, "tidy") /\ UNCHANGED homes
  <2>1. /\ Differs(command', command, p) /\ Fixed(command'[p], command[p])
        /\ command'[p].pc = "tidy" /\ command'[p].old = command[p].old
    BY <1>2, <1>4, WithStepFacts DEF Steps
  <2>2. Own(command'[p]) = Own(command[p]) /\ Pending(command'[p]) = Pending(command[p])
    BY <2>1 DEF Own, Pending, Fixed
  <2>3. Frame(p)
    BY <1>1, <1>2, <1>4, <2>1, <2>2 DEF Frame, Fixed, Inv, TypeOK, Numbered
  <2>4. Sound(p)'
    BY <1>1, <1>2, <1>3, <1>4, <2>1 DEF Sound, Fresh, Meant, Reads, Fixed
  <2>5. StoresAgree'
    <3>1. AccountsHaveHomes'
      BY <1>1, <1>4 DEF Inv, StoresAgree, AccountsHaveHomes
    <3>2. NoHomeIsForgotten'
      <4>1. \A h \in homes' :
              \/ h \in HomesOf(listed') \cup {Outside} \cup Pending(command'[p])
              \/ h \in homes \ (HomesOf(listed) \cup Pending(command[p]))
        BY <1>1, <1>4, <2>2
      <4>. QED BY <1>1, <2>1, <4>1, NothingForgotten
    <3>3. SelectionExists'
      BY <1>1, <2>1, SelectionStays
    <3>. QED BY <3>1, <3>2, <3>3 DEF StoresAgree
  <2>6. HomesApart(listed)'
    BY <1>1 DEF Inv
  <2>. QED BY <2>3, <2>4, <2>5, <2>6, FrameSuffices
<1>5. CASE /\ homes' = homes \cup {command[p].new}
           /\ command' = WithAccounts(WithOld(WithStep(command, p, "save"), p, old), p, more)
  <2>1. /\ kept = WithoutDuplicates(listed) /\ kept \in Seq(Account)
        /\ command[p].kind = "reauth" => command[p].id \in Ids(kept)
    BY <1>2 DEF Loaded, Sound, Meant, CommandState
  <2>2. index \in DOMAIN kept \cup {0} /\ 0 \notin DOMAIN kept
    BY <2>1, ExistingFacts
  <2>3. entry \in Account /\ old \in Int
    <3>1. index # 0 => kept[index] \in Account
      BY <2>1, <2>2
    <3>2. /\ command[p].new \in Nat /\ command[p].new \in Int
          /\ command[p].workspace \in Spaces
      BY <1>2, <1>3 DEF CommandState
    <3>. HIDE DEF kept, index
    <3>. QED BY <3>1, <3>2 DEF ManagedAccount, Account, NoHome
  <2>4. more \in Seq(Account)
    <3>. HIDE DEF kept, index, entry
    <3>. QED BY <2>1, <2>2, <2>3
  <2>5. \/ old = NoHome /\ more = Append(kept, ManagedAccount(command[p].new, command[p].workspace,
                                                             command[p].new))
        \/ \E i \in DOMAIN kept :
             /\ old = kept[i].home
             /\ more = [kept EXCEPT ![i] = ManagedAccount(kept[i].id, command[p].workspace,
                                                          command[p].new)]
    <3>. HIDE DEF kept, index
    <3>1. CASE index = 0
      BY <3>1
    <3>2. CASE index # 0
      BY <2>2, <3>2
    <3>. QED BY <3>1, <3>2
  <2>. DEFINE mid1 == WithStep(command, p, "save")
              mid2 == WithOld(mid1, p, old)
  <2>6. /\ Differs(mid1, command, p) /\ Fixed(mid1[p], command[p]) /\ mid1[p].pc = "save"
        /\ mid1[p].workspace = command[p].workspace /\ mid1[p].dropped = command[p].dropped
    BY <1>2, WithStepFacts DEF Steps
  <2>7. command' = WithAccounts(mid2, p, more)
    BY <1>5
  <2>. HIDE DEF mid1, more, old, index
  <2>8. /\ Differs(mid2, mid1, p) /\ Fixed(mid2[p], mid1[p]) /\ mid2[p].old = old
        /\ mid2[p].pc = mid1[p].pc /\ mid2[p].workspace = mid1[p].workspace
        /\ mid2[p].dropped = mid1[p].dropped
    BY <2>3, <2>6, WithOldFacts DEF Differs
  <2>. HIDE DEF mid2
  <2>9. /\ Differs(command', mid2, p) /\ Fixed(command'[p], mid2[p])
        /\ command'[p].accounts = more /\ command'[p].old = mid2[p].old
        /\ command'[p].pc = mid2[p].pc /\ command'[p].workspace = mid2[p].workspace
        /\ command'[p].dropped = mid2[p].dropped
    BY <2>4, <2>7, <2>8, WithAccountsFacts DEF Differs
  <2>10. /\ Differs(command', command, p) /\ Fixed(command'[p], command[p])
         /\ command'[p].pc = "save" /\ command'[p].old = old /\ command'[p].accounts = more
         /\ command'[p].workspace = command[p].workspace
         /\ command'[p].dropped = command[p].dropped
    BY <2>6, <2>8, <2>9 DEF Differs, Fixed
  <2>11. Own(command'[p]) = Own(command[p])
    BY <2>10 DEF Own, Fixed
  <2>12. Frame(p)
    <3>0. command[p].new \in Nat /\ command[p].new # NoHome /\ homes \subseteq Nat
      BY <1>2, <1>3 DEF NoHome, Inv, TypeOK
    <3>1. homes' \subseteq homes \cup Own(command[p]) /\ homes' \subseteq Nat
      BY <1>5, <3>0 DEF Own
    <3>. QED BY <1>1, <1>2, <1>5, <2>10, <2>11, <3>1 DEF Frame, Fixed, Inv, TypeOK, Numbered
  <2>13. Sound(p)'
    <3>1. Amended(p)'
      <4>1. command'[p].new = command[p].new /\ listed' = listed
        BY <1>1, <2>10 DEF Fixed
      <4>2. command[p].dropped = (Len(kept) < Len(listed))
        BY <1>2, <2>1 DEF Loaded
      <4>. QED BY <2>1, <2>5, <2>10, <4>1, <4>2 DEF Amended
    <3>2. Fresh(p)'
      BY <1>1, <1>2, <2>10 DEF Sound, Fresh, Fixed
    <3>3. Meant(p)'
      BY <1>1, <1>2, <2>10 DEF Sound, Meant, Fixed
    <3>4. Reads(p)'
      BY <1>1, <1>3, <1>5, <2>10, <3>1 DEF Reads, Fixed
    <3>. QED BY <3>2, <3>3, <3>4 DEF Sound
  <2>14. StoresAgree'
    <3>1. AccountsHaveHomes'
      BY <1>1, <1>5 DEF Inv, StoresAgree, AccountsHaveHomes
    <3>2. NoHomeIsForgotten'
      <4>1. ASSUME NEW h \in homes'
            PROVE  \/ h \in HomesOf(listed') \cup {Outside} \cup Pending(command'[p])
                   \/ h \in homes \ (HomesOf(listed) \cup Pending(command[p]))
        BY <1>1, <1>3, <1>5, <2>10 DEF Pending, Fixed
      <4>. QED BY <1>1, <2>10, <4>1, NothingForgotten
    <3>3. SelectionExists'
      BY <1>1, <2>10, SelectionStays
    <3>. QED BY <3>1, <3>2, <3>3 DEF StoresAgree
  <2>15. HomesApart(listed)'
    BY <1>1 DEF Inv
  <2>. QED BY <2>12, <2>13, <2>14, <2>15, FrameSuffices
<1>6. \/ command' = WithStep(command, p, "tidy") /\ UNCHANGED homes
      \/ /\ homes' = homes \cup {command[p].new}
         /\ command' = WithAccounts(WithOld(WithStep(command, p, "save"), p, old), p, more)
  <2>. HIDE DEF index
  <2>1. CASE command' = [command EXCEPT ![p].pc = "tidy"] /\ UNCHANGED homes
    BY <2>1 DEF WithStep
  <2>2. CASE /\ homes' = homes \cup {command[p].new}
             /\ command' = [command EXCEPT
                  ![p].pc = "save",
                  ![p].old = old,
                  ![p].accounts = IF index = 0 THEN Append(@, entry)
                                  ELSE [@ EXCEPT ![index] = entry]]
    <3>. HIDE DEF entry, old
    <3>1. WithOld(WithStep(command, p, "save"), p, old)[p].accounts = kept
      BY <1>2 DEF WithStep, WithOld, CommandState
    <3>. QED BY <2>2, <3>1 DEF WithAccounts, WithOld, WithStep
  <2>. QED BY <2>1, <2>2 DEF Copy, index
<1>. QED BY <1>4, <1>5, <1>6
\* What the list is with the account that was added or moved.
LEMMA SavedFacts ==
  ASSUME Inv, NEW p \in Commanders, command[p].pc = "save"
  PROVE  LET more == command[p].accounts
             old  == command[p].old
         IN /\ more \in Seq(Account) /\ HomesApart(more) /\ old \in Int
            /\ HomesOf(more) \subseteq HomesOf(listed) \cup {command[p].new}
            /\ command[p].new \in HomesOf(more) /\ old \notin HomesOf(more)
            /\ old \in HomesOf(listed) \cup {NoHome}
            /\ command[p].dropped = FALSE =>
                 /\ HomesOf(listed) \subseteq HomesOf(more) \cup {old}
                 /\ Ids(listed) \subseteq Ids(more)
            /\ Distinct(listed) => Ids(listed) \subseteq Ids(more)
<1>. DEFINE kept == WithoutDuplicates(listed)
            more == command[p].accounts
            old  == command[p].old
            entry(id) == ManagedAccount(id, command[p].workspace, command[p].new)
<1>1. /\ Reads(p) /\ Amended(p) /\ HomesApart(listed) /\ listed \in Seq(Account)
      /\ started \in Nat /\ command[p] \in CommandState
  BY DEF Inv, TypeOK, Sound, Reads
<1>2. /\ kept \in Seq(Account) /\ HomesOf(kept) \subseteq HomesOf(listed)
      /\ Len(kept) >= Len(listed) => kept = listed
      /\ Distinct(listed) => kept = listed
      /\ \A i, j \in DOMAIN kept : i # j => kept[i].home # kept[j].home
  BY <1>1, WithoutDuplicatesFacts
<1>3. /\ command[p].new \in Nat /\ command[p].new # NoHome
      /\ command[p].new \notin HomesOf(listed) /\ command[p].workspace \in Spaces
      /\ NoHome \notin HomesOf(listed)
  <2>1. command[p].new \in 1..2 * started
    BY DEF Inv, Numbered, Own
  <2>. QED BY <1>1, <2>1, HomesAreNumbers DEF Reads, NoHome, CommandState
<1>4. ASSUME command[p].dropped = FALSE PROVE kept = listed
  <2>1. Len(kept) \in Nat /\ Len(listed) \in Nat
    BY <1>1, <1>2
  <2>2. ~(Len(kept) < Len(listed))
    BY <1>1, <1>4 DEF Amended
  <2>. HIDE DEF kept
  <2>3. Len(kept) >= Len(listed)
    BY <2>1, <2>2
  <2>. QED BY <1>2, <2>3
<1>5. /\ more \in Seq(Account) /\ HomesApart(more)
      /\ HomesOf(more) \subseteq HomesOf(kept) \cup {command[p].new}
      /\ command[p].new \in HomesOf(more) /\ old \notin HomesOf(more)
      /\ old \in HomesOf(kept) \cup {NoHome}
      /\ HomesOf(kept) \subseteq HomesOf(more) \cup {old}
      /\ Ids(kept) \subseteq Ids(more)
  <2>1. CASE old = NoHome /\ more = Append(kept, entry(command[p].new))
    <3>1. entry(command[p].new) \in Account /\ entry(command[p].new).home = command[p].new
      BY <1>3 DEF ManagedAccount, Account
    <3>. HIDE DEF kept, more, old, entry
    <3>2. /\ more \in Seq(Account) /\ HomesApart(more) /\ Ids(kept) \subseteq Ids(more)
          /\ HomesOf(more) = HomesOf(kept) \cup {command[p].new}
      <4>. DEFINE e == entry(command[p].new)
      <4>1. e \in Account /\ e.home = command[p].new /\ e.home \notin HomesOf(kept)
            /\ more = Append(kept, e)
        BY <1>2, <1>3, <2>1, <3>1
      <4>. HIDE DEF e
      <4>. QED BY <1>2, <4>1, AddedFacts
    <3>. QED BY <1>2, <1>3, <2>1, <3>2
  <2>2. ASSUME NEW i \in DOMAIN kept, old = kept[i].home,
               more = [kept EXCEPT ![i] = entry(kept[i].id)]
        PROVE  /\ more \in Seq(Account) /\ HomesApart(more)
               /\ HomesOf(more) \subseteq HomesOf(kept) \cup {command[p].new}
               /\ command[p].new \in HomesOf(more) /\ old \notin HomesOf(more)
               /\ old \in HomesOf(kept) \cup {NoHome}
               /\ HomesOf(kept) \subseteq HomesOf(more) \cup {old}
               /\ Ids(kept) \subseteq Ids(more)
    <3>1. kept[i].id \in Int
      <4>1. kept[i] \in Account
        BY <1>2
      <4>. QED BY <4>1 DEF Account
    <3>2. /\ entry(kept[i].id) \in Account /\ entry(kept[i].id).home = command[p].new
          /\ entry(kept[i].id).id = kept[i].id
      BY <1>3, <3>1 DEF ManagedAccount, Account
    <3>3. old \in HomesOf(kept)
      BY <2>2 DEF HomesOf
    <3>. HIDE DEF kept, more, old, entry
    <3>4. /\ more \in Seq(Account) /\ HomesApart(more) /\ Ids(kept) \subseteq Ids(more)
          /\ HomesOf(more) = (HomesOf(kept) \ {kept[i].home}) \cup {command[p].new}
      <4>. DEFINE e == entry(kept[i].id)
      <4>1. /\ e \in Account /\ e.home = command[p].new /\ e.home \notin HomesOf(kept)
            /\ e.id = kept[i].id /\ more = Replaced(kept, i, e)
        BY <1>2, <1>3, <2>2, <3>2 DEF Replaced
      <4>. HIDE DEF e
      <4>. QED BY <1>2, <4>1, MovedFacts
    <3>. QED BY <1>2, <1>3, <2>2, <3>3, <3>4
  <2>. QED BY <1>1, <2>1, <2>2 DEF Amended
<1>6. old \in Int
  BY <1>1 DEF CommandState
<1>. HIDE DEF kept, more, old
<1>7. ASSUME kept = listed
      PROVE  HomesOf(listed) \subseteq HomesOf(more) \cup {old} /\ Ids(listed) \subseteq Ids(more)
  BY <1>5, <1>7, Zenon
<1>8. /\ HomesOf(more) \subseteq HomesOf(listed) \cup {command[p].new}
      /\ old \in HomesOf(listed) \cup {NoHome}
  BY <1>2, <1>5
<1>. QED BY <1>2, <1>4, <1>5, <1>6, <1>7, <1>8 DEF more, old

\* The file names the new home, or the home is removed, and the old one is nobody's.
LEMMA SaveKeepsInv ==
  ASSUME Inv, NEW p \in Commanders, Save(p)
  PROVE  Inv'
<1>. DEFINE more == command[p].accounts
            new  == command[p].new
<1>1. command[p].pc = "save" /\ UNCHANGED <<storeLock, active, started, raced>>
  BY DEF Save
<1>2. /\ storeLock = p /\ Sound(p) /\ listed \in Seq(Account)
      /\ command \in [Commanders -> CommandState] /\ command[p] \in CommandState
      /\ mishap \in BOOLEAN /\ torn \in BOOLEAN /\ command[p].dropped \in BOOLEAN
  BY <1>1 DEF Inv, TypeOK, Excludes, Holding, CommandState
<1>3. /\ more \in Seq(Account) /\ HomesApart(more) /\ command[p].old \in Int
      /\ HomesOf(more) \subseteq HomesOf(listed) \cup {new}
      /\ new \in HomesOf(more) /\ command[p].old \notin HomesOf(more)
      /\ command[p].old \in HomesOf(listed) \cup {NoHome}
      /\ command[p].dropped = FALSE =>
           /\ HomesOf(listed) \subseteq HomesOf(more) \cup {command[p].old}
           /\ Ids(listed) \subseteq Ids(more)
  BY <1>1, SavedFacts
<1>4. /\ new \in homes \ HomesOf(listed) /\ new # command[p].login /\ new \in Own(command[p])
      /\ command[p].login \notin HomesOf(listed)
      /\ NoHome \notin homes \cup HomesOf(listed)
  BY <1>1, <1>2, HomesAreNumbers DEF Inv, Numbered, Sound, Fresh, Reads, Own
<1>5. ASSUME NEW old \in Int, command' = WithOld(WithStep(command, p, "tidy"), p, old)
      PROVE  /\ Differs(command', command, p) /\ Fixed(command'[p], command[p])
             /\ command'[p].pc = "tidy" /\ command'[p].old = old
  <2>. DEFINE mid == WithStep(command, p, "tidy")
  <2>1. /\ Differs(mid, command, p) /\ Fixed(mid[p], command[p]) /\ mid[p].pc = "tidy"
    BY <1>2, WithStepFacts DEF Steps
  <2>2. command' = WithOld(mid, p, old)
    BY <1>5
  <2>. HIDE DEF mid
  <2>3. mid \in [Commanders -> CommandState]
    BY <2>1 DEF Differs
  <2>4. /\ Differs(command', mid, p) /\ Fixed(command'[p], mid[p])
        /\ command'[p].pc = mid[p].pc /\ command'[p].old = old
    BY <2>2, <2>3, WithOldFacts
  <2>. QED BY <2>1, <2>4 DEF Differs, Fixed
<1>6. ASSUME Differs(command', command, p), Fixed(command'[p], command[p]),
             command'[p].pc = "tidy", command'[p].old \in {command[p].old, NoHome},
             listed' \in {listed, more}, homes' \subseteq homes, homes \ {new} \subseteq homes',
             mishap' \in BOOLEAN, torn' \in BOOLEAN, mishap => mishap',
             command'[p].old \notin HomesOf(listed'),
             mishap' \/ new \in HomesOf(listed') \/ new \notin homes',
             StoresAgree'
      PROVE  Inv'
  <2>1. Own(command'[p]) = Own(command[p])
    BY <1>6 DEF Own, Fixed
  <2>2. /\ HomesOf(listed') \subseteq HomesOf(listed) \cup {new} /\ listed' \in Seq(Account)
        /\ HomesApart(listed)'
    BY <1>2, <1>3, <1>6 DEF Inv
  <2>3. Frame(p)
    BY <1>1, <1>2, <1>4, <1>6, <2>1, <2>2 DEF Frame, Fixed, Inv, TypeOK, Numbered
  <2>4. Sound(p)'
    <3>1. Fresh(p)'
      BY <1>4, <1>6, <2>2 DEF Fresh, Fixed
    <3>2. Meant(p)'
      BY <1>1, <1>2, <1>6 DEF Sound, Meant, Fixed
    <3>3. Reads(p)'
      BY <1>6 DEF Reads, Fixed
    <3>. QED BY <3>1, <3>2, <3>3 DEF Sound
  <2>. QED BY <1>6, <2>2, <2>3, <2>4, FrameSuffices
<1>7. CASE /\ listed' = more /\ mishap' = (mishap \/ command[p].dropped)
           /\ command' = WithOld(WithStep(command, p, "tidy"), p, command[p].old)
           /\ UNCHANGED <<homes, torn>>
  <2>1. /\ Differs(command', command, p) /\ Fixed(command'[p], command[p])
        /\ command'[p].pc = "tidy" /\ command'[p].old = command[p].old
    BY <1>3, <1>5, <1>7
  <2>2. AccountsHaveHomes'
    BY <1>3, <1>4, <1>7 DEF Inv, StoresAgree, AccountsHaveHomes
  <2>3. NoHomeIsForgotten'
    <3>1. CASE command[p].dropped = TRUE
      BY <1>7, <3>1 DEF NoHomeIsForgotten
    <3>2. CASE command[p].dropped = FALSE
      <4>1. ASSUME NEW h \in homes'
            PROVE  \/ h \in HomesOf(listed') \cup {Outside} \cup Pending(command'[p])
                   \/ h \in homes \ (HomesOf(listed) \cup Pending(command[p]))
        BY <1>3, <1>7, <2>1, <3>2 DEF Pending, Fixed
      <4>. QED BY <1>7, <2>1, <4>1, NothingForgotten
    <3>. QED BY <1>2, <3>1, <3>2
  <2>4. SelectionExists'
    BY <1>1, <1>2, <1>3, <1>7, <2>1, SelectionStays
  <2>5. StoresAgree'
    BY <2>2, <2>3, <2>4 DEF StoresAgree
  <2>6. mishap' \in BOOLEAN /\ (mishap => mishap')
    BY <1>2, <1>7
  <2>. HIDE DEF more, new
  <2>. QED BY <1>2, <1>3, <1>6, <1>7, <2>1, <2>5, <2>6
<1>8. CASE /\ Discard({new}) /\ UNCHANGED <<listed, torn>>
           /\ command' = WithOld(WithStep(command, p, "tidy"), p, NoHome)
  <2>1. /\ Differs(command', command, p) /\ Fixed(command'[p], command[p])
        /\ command'[p].pc = "tidy" /\ command'[p].old = NoHome
    BY <1>5, <1>8 DEF NoHome
  <2>2. /\ homes' \subseteq homes /\ homes \ {new} \subseteq homes'
        /\ mishap' \in BOOLEAN /\ (mishap => mishap')
        /\ mishap' \/ {new} \cap homes' = {}
    BY <1>2, <1>8, DiscardFacts
  <2>3. AccountsHaveHomes'
    <3>1. new # Outside
      <4>1. new \in 1..2 * started /\ started \in Nat
        BY <1>4 DEF Inv, Numbered, TypeOK
      <4>. QED BY <4>1 DEF Outside
    <3>. QED BY <1>4, <1>8, <2>2, <3>1 DEF Inv, StoresAgree, AccountsHaveHomes
  <2>4. NoHomeIsForgotten'
    <3>1. ASSUME NEW h \in homes'
          PROVE  \/ h \in HomesOf(listed') \cup {Outside} \cup Pending(command'[p])
                 \/ h \in homes \ (HomesOf(listed) \cup Pending(command[p]))
      BY <1>3, <1>4, <1>8, <2>1, <2>2 DEF Pending, Fixed
    <3>. QED BY <2>1, <2>2, <3>1, NothingForgotten
  <2>5. SelectionExists'
    BY <1>1, <1>8, <2>1, <2>2, SelectionStays
  <2>6. StoresAgree'
    BY <2>3, <2>4, <2>5 DEF StoresAgree
  <2>. HIDE DEF more, new
  <2>. QED BY <1>2, <1>4, <1>6, <1>8, <2>1, <2>2, <2>6
<1>9. CASE /\ listed' = more /\ torn' = TRUE /\ mishap' = TRUE /\ homes' = homes \ {new}
           /\ command' = WithOld(WithStep(command, p, "tidy"), p, NoHome)
  <2>1. /\ Differs(command', command, p) /\ Fixed(command'[p], command[p])
        /\ command'[p].pc = "tidy" /\ command'[p].old = NoHome
    BY <1>5, <1>9 DEF NoHome
  <2>2. StoresAgree'
    <3>1. new # Outside
      <4>1. new \in 1..2 * started /\ started \in Nat
        BY <1>4 DEF Inv, Numbered, TypeOK
      <4>. QED BY <4>1 DEF Outside
    <3>2. AccountsHaveHomes'
      BY <1>9, <3>1 DEF Inv, StoresAgree, AccountsHaveHomes
    <3>3. NoHomeIsForgotten' /\ SelectionExists'
      BY <1>9 DEF NoHomeIsForgotten, SelectionExists
    <3>. QED BY <3>2, <3>3 DEF StoresAgree
  <2>3. NoHome \notin HomesOf(more)
    BY <1>3, <1>4
  <2>. HIDE DEF more, new
  <2>. QED BY <1>2, <1>3, <1>6, <1>9, <2>1, <2>2, <2>3
<1>. QED BY <1>7, <1>8, <1>9 DEF Save, WithStep, WithOld
-----------------------------------------------------------------------------
(* The theorems.                                                           *)

\* The invariant holds when nothing has run,
LEMMA InitHolds == ManagedInit => Inv
<1>. SUFFICES ASSUME ManagedInit PROVE Inv
  OBVIOUS
<1>. DEFINE first == ManagedAccount(-1, NoWorkspace, Outside)
<1>1. /\ listed = <<first>> /\ homes = {Outside} /\ storeLock = Free
      /\ active \in {Live, -1} /\ command = [p \in Commanders |-> Idle] /\ started = 0
      /\ mishap = FALSE /\ torn = FALSE /\ raced = FALSE
  BY DEF ManagedInit
<1>2. /\ first \in Account /\ first.home = Outside /\ first.id = -1
  BY DEF ManagedAccount, Account, Spaces, Outside
<1>. HIDE DEF first
<1>3. listed \in Seq(Account) /\ DOMAIN listed = {1} /\ listed[1] = first
  BY <1>1, <1>2
<1>4. HomesOf(listed) = {Outside} /\ Ids(listed) = {-1}
  BY <1>2, <1>3 DEF HomesOf, Ids
<1>5. /\ Idle \in CommandState /\ Idle.pc = "idle" /\ Idle.new = NoHome /\ Idle.login = NoHome
      /\ Idle.id = 0 /\ Idle.kind = "none" /\ Own(Idle) = {} /\ Pending(Idle) = {NoHome}
  <2>1. <<>> \in Seq(Account) /\ NoHome \in Int /\ NoWorkspace \in Spaces
    BY DEF NoHome, Spaces
  <2>. QED BY <2>1 DEF Idle, CommandState, Steps, Own, Pending
<1>6. TypeOK
  <2>1. active \in Int /\ homes \subseteq Nat
    BY <1>1 DEF Live, Outside
  <2>2. command \in [Commanders -> CommandState]
    BY <1>1, <1>5
  <2>. QED BY <1>1, <1>3, <2>1, <2>2 DEF TypeOK
<1>7. Excludes
  BY <1>1, <1>5 DEF Excludes, Holding
<1>8. Numbered
  BY <1>1, <1>4, <1>5 DEF Numbered, Outside
<1>9. HomesApart(listed)
  BY <1>3 DEF HomesApart
<1>10. ASSUME NEW p \in Commanders PROVE Sound(p)
  BY <1>1, <1>4, <1>5 DEF Sound, Fresh, Meant, Reads, NoHome, Outside
<1>11. StoresAgree
  BY <1>1, <1>4 DEF StoresAgree, AccountsHaveHomes, NoHomeIsForgotten, SelectionExists
<1>. QED BY <1>6, <1>7, <1>8, <1>9, <1>10, <1>11 DEF Inv

\* every step of every command keeps it,
LEMMA NextKeepsInv == Inv /\ [ManagedNext]_managedVars => Inv'
<1>. SUFFICES ASSUME Inv, [ManagedNext]_managedVars PROVE Inv'
  OBVIOUS
<1>1. ASSUME NEW p \in Commanders, Begin(p) \/ Command(p) \/ Kill(p) PROVE Inv'
  BY <1>1, BeginKeepsInv, KillKeepsInv, OpenKeepsInv, LoginKeepsInv, CopyKeepsInv, SaveKeepsInv,
     TidyKeepsInv, UnlistKeepsInv, EraseKeepsInv, DeselectKeepsInv, ChooseKeepsInv, PointKeepsInv
     DEF Command
<1>2. CASE UNCHANGED managedVars
  <2>. USE <1>2 DEF managedVars, Inv
  <2>1. TypeOK'
    BY DEF TypeOK
  <2>2. Excludes' /\ Numbered' /\ HomesApart(listed)'
    BY DEF Excludes, Numbered
  <2>3. ASSUME NEW p \in Commanders PROVE Sound(p)'
    BY DEF Sound, Fresh, Meant, Reads, Loaded, Amended
  <2>4. StoresAgree'
    BY DEF StoresAgree, AccountsHaveHomes, NoHomeIsForgotten, SelectionExists
  <2>. QED BY <2>1, <2>2, <2>3, <2>4
<1>. QED BY <1>1, <1>2 DEF ManagedNext

\* and so it holds in every reachable state.
LEMMA Invariance == ManagedSpec => []Inv
BY InitHolds, NextKeepsInv, PTL DEF ManagedSpec

\* The file, the homes and the selection agree in every reachable state, however
\* many commands run and whatever step of theirs fails or is the last: an account
\* in the file has its home, no home outside the managed root is deleted, no home
\* with credentials is forgotten while nothing went wrong, and the selected
\* account exists.
THEOREM StoresStayInAgreement == ManagedSpec => []StoresAgree
BY Invariance, PTL DEF Inv

\* Only a removal, or a file with duplicates, makes an account leave the file.
LEMMA AccountsLeave ==
  ASSUME Inv, ManagedNext, NEW id \in Ids(listed) \ Ids(listed')
  PROVE  \/ \E p \in Commanders : command[p].pc = "unlist" /\ command[p].id = id
         \/ ~Distinct(listed)
<1>. SUFFICES ASSUME Distinct(listed)
              PROVE  \E p \in Commanders : command[p].pc = "unlist" /\ command[p].id = id
  OBVIOUS
<1>1. PICK p \in Commanders : Begin(p) \/ Command(p) \/ Kill(p)
  BY DEF ManagedNext
<1>2. CASE Save(p)
  <2>1. command[p].pc = "save" /\ listed' \in {listed, command[p].accounts}
    BY <1>2 DEF Save
  <2>2. Ids(listed) \subseteq Ids(command[p].accounts)
    BY <2>1, SavedFacts
  <2>. QED BY <2>1, <2>2
<1>3. CASE Unlist(p)
  <2>. DEFINE index == IndexOf(command[p].accounts, command[p].id)
              less == RemoveAt(command[p].accounts, index)
  <2>1. command[p].pc = "unlist" /\ listed' \in {listed, less}
    BY <1>3 DEF Unlist
  <2>2. Ids(listed) \subseteq Ids(less) \cup {command[p].id}
    BY <2>1, UnlistFacts
  <2>. HIDE DEF less
  <2>. QED BY <2>1, <2>2
<1>4. CASE UNCHANGED listed
  BY <1>4
<1>. QED BY <1>1, <1>2, <1>3, <1>4
         DEF Command, Begin, Open, Opens, Login, Copy, Tidy, Erase, Deselect, Choose, Point, Kill

\* An account leaves the file only when its removal was asked for, or because it
\* is the duplicate of one that stays.
THEOREM OnlyRemovedAccountsLeave == ManagedSpec => OnlyRemovalRemoves
<1>. DEFINE Lawful ==
       \A id \in Ids(listed) \ Ids(listed') :
         \/ \E p \in Commanders : command[p].pc = "unlist" /\ command[p].id = id
         \/ ~Distinct(listed)
<1>1. Inv /\ [ManagedNext]_managedVars => [Lawful]_managedVars
  BY AccountsLeave
<1>2. OnlyRemovalRemoves <=> [][Lawful]_managedVars
  BY PTL DEF OnlyRemovalRemoves
<1>. HIDE DEF Lawful
<1>. QED BY <1>1, <1>2, Invariance, PTL DEF ManagedSpec

-----------------------------------------------------------------------------
(***************************************************************************)
(* The history: who writes without having lost anything writes what it     *)
(* read, extended.  The mutex keeps the threads of a process apart; a      *)
(* thread of another process is overtaken by every write that succeeds.    *)
(***************************************************************************)

\* A file has a bucket for every key.
IsDocument(d) ==
  /\ d = [valid |-> d.valid, buckets |-> d.buckets, preferred |-> d.preferred]
  /\ d.buckets = [k \in Keys |-> d.buckets[k]]

\* A recorder that is at work holds the mutex of its process, and what it has
\* read is the file as long as it has lost nothing.
RecorderInv(r) ==
  /\ recorder[r].pc \in {"idle", "read", "write"}
  /\ recorder[r].process \in Processes /\ recorder[r].key \in Keys
  /\ recorder[r].pc # "idle" => mutex[recorder[r].process] = r
  /\ IsDocument(recorder[r].base)
  /\ recorder[r].pc = "write" /\ ~recorder[r].lost => recorder[r].base = history

\* Steps of a recorder change fields that it has.
IsRecorder(c) ==
  c = [pc |-> c.pc, process |-> c.process, base |-> c.base, lost |-> c.lost,
       key |-> c.key, sample |-> c.sample]

HistoryInv ==
  /\ recorder = [r \in Recorders |-> recorder[r]] /\ mutex = [p \in Processes |-> mutex[p]]
  /\ IsDocument(history)
  /\ \A r \in Recorders : IsRecorder(recorder[r]) /\ RecorderInv(r)

\* A document of which one field is changed is a document.
LEMMA FieldsChange ==
  ASSUME NEW d, IsDocument(d)
  PROVE  /\ \A valid : IsDocument([d EXCEPT !.valid = valid])
         /\ \A buckets : buckets = [k \in Keys |-> buckets[k]] =>
              IsDocument([d EXCEPT !.buckets = buckets])
<1>. DEFINE Doc(v, b, p) == [valid |-> v, buckets |-> b, preferred |-> p]
<1>1. d = Doc(d.valid, d.buckets, d.preferred) /\ d.buckets = [k \in Keys |-> d.buckets[k]]
  BY DEF IsDocument
<1>2. ASSUME NEW v, NEW b, NEW p, b = [k \in Keys |-> b[k]] PROVE IsDocument(Doc(v, b, p))
  BY <1>2 DEF IsDocument
<1>3. ASSUME NEW valid PROVE [d EXCEPT !.valid = valid] = Doc(valid, d.buckets, d.preferred)
  BY <1>1
<1>4. ASSUME NEW buckets PROVE [d EXCEPT !.buckets = buckets] = Doc(d.valid, buckets, d.preferred)
  BY <1>1
<1>. HIDE DEF Doc
<1>. QED BY <1>1, <1>2, <1>3, <1>4

\* A record touches the bucket of its key alone.
LEMMA RecordIsLocal ==
  ASSUME NEW d, IsDocument(d), NEW key \in Keys, NEW sample
  PROVE  /\ IsDocument(RecordProvider(d, key, sample))
         /\ \A k \in Keys \ {key} : RecordProvider(d, key, sample).buckets[k] = d.buckets[k]
         /\ RecordProvider(d, key, sample).buckets[key] = Recorded(d.buckets[key], sample)
<1>. DEFINE buckets == [d.buckets EXCEPT ![key] = Recorded(@, sample)]
            preferred == IF key = Unscoped THEN d.preferred ELSE key
            new == RecordProvider(d, key, sample)
<1>1. new = [d EXCEPT !.buckets = buckets, !.preferred = preferred]
  BY Zenon DEF RecordProvider
<1>. HIDE DEF new
<1>2. new = [valid |-> d.valid, buckets |-> buckets, preferred |-> preferred]
  <2>. HIDE DEF buckets, preferred
  <2>. QED BY <1>1 DEF IsDocument
<1>3. /\ DOMAIN buckets = Keys /\ buckets[key] = Recorded(d.buckets[key], sample)
      /\ \A k \in Keys \ {key} : buckets[k] = d.buckets[k]
  BY DEF IsDocument
<1>4. buckets = [k \in Keys |-> buckets[k]]
  BY <1>3
<1>5. new.valid = d.valid /\ new.buckets = buckets /\ new.preferred = preferred
  <2>. HIDE DEF buckets, preferred
  <2>. QED BY <1>2
<1>6. IsDocument(new)
  <2>. HIDE DEF buckets, preferred
  <2>. QED BY <1>2, <1>4, <1>5 DEF IsDocument
<1>. QED BY <1>3, <1>5, <1>6 DEF new

\* So is the one that stands for no file.
LEMMA EmptyIsDocument == IsDocument(EmptyDocument)
BY DEF IsDocument, EmptyDocument

\* Every file that may be found at the start is a document, and nobody is at work.
LEMMA HistoryInitHolds == HistoryInit => HistoryInv
<1>. SUFFICES ASSUME HistoryInit PROVE HistoryInv
  OBVIOUS
<1>1. IsDocument(EmptyDocument)
  BY EmptyIsDocument
<1>2. IsDocument(history)
  <2>1. IsDocument(NewerFile)
    BY <1>1, FieldsChange DEF NewerFile
  <2>2. ASSUME NEW k \in AccountKeys PROVE IsDocument(OlderFile(k))
    <3>. DEFINE buckets == [EmptyDocument.buckets EXCEPT ![k] = OlderSeries]
    <3>1. OlderFile(k) = [EmptyDocument EXCEPT !.buckets = buckets]
      BY Zenon DEF OlderFile
    <3>2. EmptyDocument.buckets = [j \in Keys |-> <<>>]
      BY DEF EmptyDocument
    <3>3. buckets = [j \in Keys |-> buckets[j]]
      BY <3>2
    <3>. HIDE DEF buckets
    <3>. QED BY <1>1, <3>1, <3>3, FieldsChange
  <2>3. history \in {EmptyDocument, NewerFile} \cup {OlderFile(k) : k \in AccountKeys}
    BY Zenon DEF HistoryInit
  <2>. QED BY <1>1, <2>1, <2>2, <2>3
<1>3. PICK process \in [Recorders -> Processes] :
        recorder = [r \in Recorders |-> Waiting(process[r])]
  BY DEF HistoryInit
<1>4. ASSUME NEW r \in Recorders PROVE IsRecorder(recorder[r]) /\ RecorderInv(r)
  <2>1. recorder[r] = Waiting(process[r]) /\ process[r] \in Processes
    BY <1>3
  <2>. QED BY <1>1, <2>1 DEF Waiting, IsRecorder, RecorderInv, Keys
<1>5. mutex = [p \in Processes |-> mutex[p]]
  BY DEF HistoryInit
<1>6. recorder = [r \in Recorders |-> recorder[r]]
  BY <1>3
<1>. QED BY <1>2, <1>4, <1>5, <1>6 DEF HistoryInv

\* Recorders whose fields have some values.
Shaped(V) == [pc : V, process : V, base : V, lost : V, key : V, sample : V]

\* Recorders have a shape.
LEMMA RecordersAreShaped ==
  ASSUME HistoryInv
  PROVE  \E V : recorder \in [Recorders -> Shaped(V)]
<1>. DEFINE V == UNION {{recorder[s].pc, recorder[s].process, recorder[s].base, recorder[s].lost,
                         recorder[s].key, recorder[s].sample} : s \in Recorders}
<1>1. ASSUME NEW s \in Recorders PROVE recorder[s] \in Shaped(V)
  <2>1. /\ recorder[s].pc \in V /\ recorder[s].process \in V /\ recorder[s].base \in V
        /\ recorder[s].lost \in V /\ recorder[s].key \in V /\ recorder[s].sample \in V
    OBVIOUS
  <2>2. IsRecorder(recorder[s])
    BY DEF HistoryInv
  <2>. HIDE DEF V
  <2>. QED BY <2>1, <2>2 DEF IsRecorder, Shaped
<1>. HIDE DEF V
<1>. QED BY <1>1 DEF HistoryInv

\* The next state g of the recorders differs from f in r alone, which keeps its process.
Advances(g, f, r) ==
  /\ g = [s \in Recorders |-> g[s]] /\ \A s \in Recorders \ {r} : g[s] = f[s]
  /\ IsRecorder(g[r]) /\ g[r].process = f[r].process

Entered(f, r, key, sample) == [f EXCEPT ![r].pc = "read", ![r].key = key, ![r].sample = sample]
HasRead(f, r, lost, base) == [f EXCEPT ![r].pc = "write", ![r].lost = lost, ![r].base = base]

\* A recorder that enters takes a sample along.
LEMMA EnteredAdvances ==
  ASSUME NEW V, NEW f \in [Recorders -> Shaped(V)], NEW r \in Recorders, NEW key, NEW sample
  PROVE  LET g == Entered(f, r, key, sample)
         IN Advances(g, f, r) /\ g[r].pc = "read" /\ g[r].key = key /\ g[r].base = f[r].base
BY DEF Shaped, Advances, IsRecorder, Entered

\* A recorder that has read keeps what it read.
LEMMA HasReadAdvances ==
  ASSUME NEW V, NEW f \in [Recorders -> Shaped(V)], NEW r \in Recorders, NEW lost, NEW base
  PROVE  LET g == HasRead(f, r, lost, base)
         IN /\ Advances(g, f, r) /\ g[r].pc = "write" /\ g[r].key = f[r].key
            /\ g[r].base = base /\ g[r].lost = lost
BY DEF Shaped, Advances, IsRecorder, HasRead

\* A recorder enters when nobody of its process is at work.
LEMMA EnterKeepsHistory ==
  ASSUME HistoryInv, NEW r \in Recorders, Enter(r)
  PROVE  HistoryInv'
<1>1. PICK V : recorder \in [Recorders -> Shaped(V)]
  BY RecordersAreShaped
<1>2. PICK key \in Keys, used \in Uses, reset \in Resets \cup {NoReset} :
        recorder' = Entered(recorder, r, key, Entry(tick, used, reset))
  BY Zenon DEF Enter, HasSample, Entered
<1>. DEFINE sample == Entry(tick, used, reset)
<1>. HIDE DEF sample
<1>3. /\ Advances(recorder', recorder, r) /\ recorder'[r].pc = "read"
      /\ recorder'[r].key = key /\ recorder'[r].base = recorder[r].base
  <2>1. recorder' = Entered(recorder, r, key, sample)
    BY <1>2 DEF sample
  <2>. QED BY <1>1, <2>1, EnteredAdvances
<1>4. recorder[r].process \in Processes
  BY DEF HistoryInv, RecorderInv
<1>5. /\ mutex' = [mutex EXCEPT ![recorder[r].process] = r]
      /\ mutex[recorder[r].process] = NoThread /\ history' = history
  BY DEF Enter
<1>6. /\ mutex' = [p \in Processes |-> mutex'[p]] /\ mutex'[recorder[r].process] = r
      /\ \A p \in Processes \ {recorder[r].process} : mutex'[p] = mutex[p]
  BY <1>4, <1>5 DEF HistoryInv
<1>7. ASSUME NEW s \in Recorders PROVE (IsRecorder(recorder[s]) /\ RecorderInv(s))'
  <2>1. CASE s = r
    BY <1>3, <1>4, <1>6, <2>1 DEF Advances, RecorderInv, HistoryInv
  <2>2. CASE s # r
    <3>1. recorder'[s] = recorder[s] /\ IsRecorder(recorder[s]) /\ RecorderInv(s)
      BY <1>3, <2>2 DEF Advances, HistoryInv
    <3>2. recorder[s].pc # "idle" => recorder[s].process # recorder[r].process
      BY <1>5, <3>1, NobodyRecords DEF RecorderInv
    <3>. QED BY <1>5, <1>6, <3>1, <3>2 DEF RecorderInv
  <2>. QED BY <2>1, <2>2
<1>. QED BY <1>3, <1>5, <1>6, <1>7 DEF Advances, HistoryInv

\* A recorder reads the file, or an empty one in its place.
LEMMA ReadKeepsHistory ==
  ASSUME HistoryInv, NEW r \in Recorders, Read(r)
  PROVE  HistoryInv'
<1>1. PICK V : recorder \in [Recorders -> Shaped(V)]
  BY RecordersAreShaped
<1>2. PICK readable \in BOOLEAN :
        recorder' = HasRead(recorder, r, ~(readable /\ history.valid),
                            IF readable /\ history.valid THEN history ELSE EmptyDocument)
  BY Zenon DEF Read, HasRead
<1>. DEFINE usable == readable /\ history.valid
            base == IF usable THEN history ELSE EmptyDocument
<1>3. /\ Advances(recorder', recorder, r) /\ recorder'[r].pc = "write"
      /\ recorder'[r].key = recorder[r].key /\ recorder'[r].base = base /\ recorder'[r].lost = ~usable
  <2>. DEFINE lost == ~usable
  <2>1. recorder' = HasRead(recorder, r, lost, base)
    BY <1>2
  <2>. HIDE DEF lost, base
  <2>2. /\ Advances(recorder', recorder, r) /\ recorder'[r].pc = "write"
        /\ recorder'[r].key = recorder[r].key /\ recorder'[r].base = base /\ recorder'[r].lost = lost
    BY <1>1, <2>1, HasReadAdvances
  <2>. QED BY <2>2 DEF lost
<1>4. recorder[r].pc = "read" /\ UNCHANGED <<history, mutex>>
  BY DEF Read
<1>5. ASSUME NEW s \in Recorders PROVE (IsRecorder(recorder[s]) /\ RecorderInv(s))'
  <2>1. CASE s = r
    <3>1. RecorderInv(r) /\ IsDocument(history)
      BY DEF HistoryInv
    <3>. QED BY <1>3, <1>4, <2>1, <3>1, EmptyIsDocument DEF Advances, RecorderInv
  <2>2. CASE s # r
    BY <1>3, <1>4, <2>2 DEF Advances, RecorderInv, HistoryInv
  <2>. QED BY <2>1, <2>2
<1>. QED BY <1>3, <1>4, <1>5 DEF Advances, HistoryInv

\* What a recorder c becomes when a thread of a process writes.
Loses(g, c, process) ==
  /\ IsRecorder(g) /\ g.pc = c.pc /\ g.process = c.process /\ g.key = c.key /\ g.base = c.base
  /\ IF c.pc = "write" /\ c.process # process THEN g.lost = TRUE ELSE g = c

Marked(c, lost) == [c EXCEPT !.lost = lost]

\* Only the mark changes.
LEMMA MarkedFields ==
  ASSUME NEW V, NEW c \in Shaped(V), NEW lost
  PROVE  LET d == Marked(c, lost) IN
         /\ IsRecorder(d) /\ d.pc = c.pc /\ d.process = c.process
         /\ d.key = c.key /\ d.base = c.base /\ d.lost = lost
BY DEF Shaped, IsRecorder, Marked

\* The next step of an overtaken recorder writes what is no longer there.
LEMMA OvertakenLoses ==
  ASSUME HistoryInv, NEW r \in Recorders, NEW s \in Recorders
  PROVE  Loses(Overtaken(r)[s], recorder[s], recorder[r].process)
<1>1. IsRecorder(recorder[s])
  BY DEF HistoryInv
<1>. DEFINE d == [recorder[s] EXCEPT !.lost = TRUE]
<1>2. /\ IsRecorder(d) /\ d.pc = recorder[s].pc /\ d.process = recorder[s].process
      /\ d.key = recorder[s].key /\ d.base = recorder[s].base /\ d.lost = TRUE
  <2>1. PICK V : recorder[s] \in Shaped(V)
    BY RecordersAreShaped
  <2>2. d = Marked(recorder[s], TRUE)
    BY DEF Marked
  <2>. HIDE DEF d
  <2>. QED BY <2>1, <2>2, MarkedFields
<1>3. Overtaken(r)[s] = IF recorder[s].pc = "write" /\ recorder[s].process # recorder[r].process
                        THEN d ELSE recorder[s]
  BY Zenon DEF Overtaken
<1>. HIDE DEF d
<1>. QED BY <1>1, <1>2, <1>3 DEF Loses

\* A recorder that waits.
LEMMA WaitingIsRecorder ==
  ASSUME NEW process
  PROVE  LET d == Waiting(process) IN
         /\ IsRecorder(d) /\ d.pc = "idle" /\ d.process = process
                                  /\ d.key \in Keys /\ IsDocument(d.base)
BY EmptyIsDocument DEF Waiting, IsRecorder, Keys

\* What a write does to the recorders and to the file.
LEMMA WriteFacts ==
  ASSUME HistoryInv, NEW r \in Recorders, Write(r)
  PROVE  /\ recorder[r].pc = "write" /\ recorder' = [s \in Recorders |-> recorder'[s]]
         /\ recorder'[r] = Waiting(recorder[r].process)
         /\ \A s \in Recorders \ {r} : recorder'[s] \in {recorder[s], Overtaken(r)[s]}
         /\ \/ history' = history
            \/ /\ history' = RecordProvider(recorder[r].base, recorder[r].key, recorder[r].sample)
               /\ \A s \in Recorders \ {r} : recorder'[s] = Overtaken(r)[s]
<1>1. recorder = [s \in Recorders |-> recorder[s]]
  BY DEF HistoryInv
<1>. DEFINE over == Overtaken(r)
<1>2. over = [s \in Recorders |-> over[s]]
  BY Zenon DEF Overtaken
<1>3. over[r] = recorder[r]
  BY OvertakenLoses DEF Loses
<1>4. recorder[r].pc = "write"
  BY DEF Write
<1>5. \/ /\ recorder' = [recorder EXCEPT ![r] = Waiting(recorder[r].process)] /\ history' = history
      \/ /\ recorder' = [over EXCEPT ![r] = Waiting(over[r].process)]
         /\ history' = RecordProvider(recorder[r].base, recorder[r].key, recorder[r].sample)
  BY DEF Write
<1>. HIDE DEF over
<1>6. CASE recorder' = [recorder EXCEPT ![r] = Waiting(recorder[r].process)] /\ history' = history
  BY <1>1, <1>4, <1>6 DEF over
<1>7. CASE /\ recorder' = [over EXCEPT ![r] = Waiting(over[r].process)]
           /\ history' = RecordProvider(recorder[r].base, recorder[r].key, recorder[r].sample)
  <2>1. recorder' = [over EXCEPT ![r] = Waiting(recorder[r].process)]
    BY <1>3, <1>7
  <2>2. recorder' = [s \in Recorders |-> recorder'[s]] /\ recorder'[r] = Waiting(recorder[r].process)
        /\ \A s \in Recorders \ {r} : recorder'[s] = over[s]
    BY <1>2, <2>1
  <2>. QED BY <1>4, <1>7, <2>2 DEF over
<1>. QED BY <1>5, <1>6, <1>7

\* A recorder gives the mutex back when it has written or failed.
LEMMA WriteKeepsHistory ==
  ASSUME HistoryInv, NEW r \in Recorders, Write(r)
  PROVE  HistoryInv'
<1>. DEFINE file == RecordProvider(recorder[r].base, recorder[r].key, recorder[r].sample)
<1>1. /\ recorder[r].pc = "write" /\ recorder' = [s \in Recorders |-> recorder'[s]]
      /\ recorder'[r] = Waiting(recorder[r].process)
      /\ \A s \in Recorders \ {r} : recorder'[s] \in {recorder[s], Overtaken(r)[s]}
      /\ \/ history' = history
         \/ history' = file /\ \A s \in Recorders \ {r} : recorder'[s] = Overtaken(r)[s]
  BY WriteFacts
<1>2. IsRecorder(recorder[r]) /\ RecorderInv(r) /\ mutex = [p \in Processes |-> mutex[p]]
  BY DEF HistoryInv
<1>3. IsDocument(history')
  <2>1. IsDocument(file)
    BY <1>2, RecordIsLocal DEF RecorderInv
  <2>. HIDE DEF file
  <2>. QED BY <1>1, <2>1 DEF HistoryInv
<1>4. mutex' = [mutex EXCEPT ![recorder[r].process] = IF @ = r THEN NoThread ELSE @]
  BY DEF Write
<1>5. /\ mutex' = [p \in Processes |-> mutex'[p]]
      /\ \A p \in Processes \ {recorder[r].process} : mutex'[p] = mutex[p]
  BY <1>2, <1>4
<1>6. ASSUME NEW s \in Recorders PROVE (IsRecorder(recorder[s]) /\ RecorderInv(s))'
  <2>1. CASE s = r
    BY <1>1, <1>2, <2>1, WaitingIsRecorder DEF RecorderInv
  <2>2. CASE s # r
    <3>1. IsRecorder(recorder[s]) /\ RecorderInv(s)
      BY DEF HistoryInv
    <3>. DEFINE g == Overtaken(r)[s]
    <3>2. Loses(g, recorder[s], recorder[r].process)
      BY OvertakenLoses
    <3>3. recorder'[s] \in {recorder[s], g} /\ (history' = history \/ recorder'[s] = g)
      BY <1>1, <2>2
    <3>. HIDE DEF g
    <3>4. recorder[s].pc # "idle" => recorder[s].process # recorder[r].process
      BY <1>1, <1>2, <2>2, <3>1 DEF RecorderInv
    <3>5. /\ IsRecorder(recorder'[s]) /\ recorder'[s].pc = recorder[s].pc
          /\ recorder'[s].process = recorder[s].process /\ recorder'[s].key = recorder[s].key
          /\ recorder'[s].base = recorder[s].base
      BY <3>1, <3>2, <3>3 DEF Loses
    <3>6. recorder'[s].pc = "write" /\ ~recorder'[s].lost => recorder'[s].base = history'
      <4>1. CASE recorder'[s] = recorder[s] /\ history' = history
        BY <3>1, <4>1 DEF RecorderInv
      <4>2. CASE recorder'[s] = g
        <5>1. recorder[s].pc = "write" => g.lost
          BY <3>2, <3>4 DEF Loses
        <5>. QED BY <3>2, <4>2, <5>1 DEF Loses
      <4>. QED BY <3>3, <4>1, <4>2
    <3>7. recorder'[s].pc # "idle" => mutex'[recorder'[s].process] = s
      BY <1>5, <3>1, <3>4, <3>5 DEF RecorderInv
    <3>. QED BY <3>1, <3>5, <3>6, <3>7 DEF RecorderInv
  <2>. QED BY <2>1, <2>2
<1>. QED BY <1>1, <1>3, <1>5, <1>6 DEF HistoryInv

\* The clock moves while nobody is at work.
LEMMA HistoryNextKeeps == HistoryInv /\ [HistoryNext]_historyVars => HistoryInv'
<1>1. ASSUME HistoryInv, UNCHANGED <<history, mutex, recorder>> PROVE HistoryInv'
  BY <1>1 DEF HistoryInv, RecorderInv
<1>. QED
  BY <1>1, EnterKeepsHistory, ReadKeepsHistory, WriteKeepsHistory DEF HistoryNext, Tick, historyVars

\* and so the history's invariant holds in every reachable state.
LEMMA HistoryInvariance == HistorySpec => []HistoryInv
BY HistoryInitHolds, HistoryNextKeeps, PTL DEF HistorySpec

\* Who ends a write has replaced the file by what it read, extended, or left it.
LEMMA WritesWhatWasRead ==
  ASSUME HistoryInv, [HistoryNext]_historyVars, NEW r \in Recorders,
         recorder[r].pc = "write", recorder'[r].pc = "idle"
  PROVE  history' \in {history, RecordProvider(recorder[r].base, recorder[r].key,
                                               recorder[r].sample)}
<1>. DEFINE file == RecordProvider(recorder[r].base, recorder[r].key, recorder[r].sample)
<1>1. ASSUME NEW s \in Recorders, Write(s), ~UNCHANGED history PROVE history' = file
  <2>1. s = r
    <3>1. CASE s # r
      <4>1. recorder'[r] \in {recorder[r], Overtaken(s)[r]}
        BY <1>1, <3>1, WriteFacts
      <4>2. Overtaken(s)[r].pc = recorder[r].pc
        BY OvertakenLoses DEF Loses
      <4>. QED BY <4>1, <4>2
    <3>. QED BY <3>1
  <2>. QED BY <1>1, <2>1, WriteFacts DEF file
<1>2. history' \in {history, file}
  <2>. HIDE DEF file
  <2>1. ASSUME NEW s \in Recorders PROVE Enter(s) \/ Read(s) => history' = history
    BY Zenon DEF Enter, Read
  <2>2. Tick \/ UNCHANGED historyVars => history' = history
    BY DEF Tick, historyVars
  <2>. QED BY <1>1, <2>1, <2>2 DEF HistoryNext
<1>. QED BY <1>2

\* A write that lost nothing was made from the file, and touches one bucket.
LEMMA WritesExtend ==
  ASSUME HistoryInv, [HistoryNext]_historyVars, NEW r \in Recorders,
         recorder[r].pc = "write", recorder'[r].pc = "idle", ~recorder[r].lost
  PROVE  /\ history' \in {history, RecordProvider(history, recorder[r].key, recorder[r].sample)}
         /\ \A k \in Keys \ {recorder[r].key} : history'.buckets[k] = history.buckets[k]
<1>1. recorder[r].key \in Keys /\ recorder[r].base = history /\ IsDocument(history)
  BY DEF HistoryInv, RecorderInv
<1>. DEFINE file == RecordProvider(history, recorder[r].key, recorder[r].sample)
<1>2. \A k \in Keys \ {recorder[r].key} : file.buckets[k] = history.buckets[k]
  BY <1>1, RecordIsLocal
<1>. HIDE DEF file
<1>3. history' \in {history, file}
  BY <1>1, WritesWhatWasRead DEF file
<1>. QED BY <1>2, <1>3 DEF file

\* However many threads of however many processes record, a write that has lost
\* nothing extends the file it replaces, in the series of its own account.
THEOREM RecordsExtend == HistorySpec => RecordsExtendTheFile
<1>1. HistoryInv /\ [HistoryNext]_historyVars =>
        [\A r \in Recorders :
           recorder[r].pc = "write" /\ recorder'[r].pc = "idle" /\ ~recorder[r].lost =>
             /\ history' \in {history, RecordProvider(history, recorder[r].key, recorder[r].sample)}
             /\ \A k \in Keys \ {recorder[r].key} :
                  history'.buckets[k] = history.buckets[k]]_historyVars
  BY WritesExtend
<1>. QED BY <1>1, HistoryInvariance, PTL DEF HistorySpec, RecordsExtendTheFile

-----------------------------------------------------------------------------
(* Lists.                                                                  *)

\* What holds of zero and is handed on holds up to n.
LEMMA HandedOn ==
  ASSUME NEW N \in Nat, NEW P, 0 \in P, \A n \in 1..N : n - 1 \in P => n \in P
  PROVE  \A n \in 0..N : n \in P
<1>. DEFINE bad == {n \in 0..N : n \notin P}
<1>1. SUFFICES ASSUME bad # {} PROVE FALSE
  OBVIOUS
<1>2. PICK k \in bad : \A u \in bad : k <= u
  <2>1. bad \in SUBSET Nat
    OBVIOUS
  <2>. HIDE DEF bad
  <2>. QED BY <1>1, <2>1, LeastExists
<1>3. k \in 1..N
  BY <1>2
<1>4. k - 1 \in P
  BY <1>2, <1>3
<1>. QED BY <1>2, <1>3, <1>4

\* A set of numbers up to n that is not empty has a greatest one.
LEMMA MaxIsGreatest ==
  ASSUME NEW N \in Nat, NEW S \in SUBSET (0..N), S # {}
  PROVE  /\ Max(S) \in S
         /\ \A i \in S : i <= Max(S)
         /\ \A k \in S : (\A i \in S : i <= k) => Max(S) = k
<1>. DEFINE R == {N - i : i \in S}
<1>0. \A i \in S : i \in Int /\ N - i \in Nat
  OBVIOUS
<1>1. R \in SUBSET Nat /\ R # {}
  BY <1>0
<1>2. PICK r \in R : \A u \in R : r <= u
  <2>. HIDE DEF R
  <2>. QED BY <1>1, LeastExists
<1>3. PICK m \in S : r = N - m
  BY <1>2
<1>4. \A i \in S : i <= m
  <2>1. ASSUME NEW i \in S PROVE i <= m
    <3>1. N - i \in R
      OBVIOUS
    <3>2. r <= N - i
      BY <1>2, <3>1
    <3>. QED BY <1>0, <1>3, <3>2
  <2>. QED BY <2>1
<1>5. \E x \in S : \A y \in S : x >= y
  BY <1>0, <1>4
<1>6. Max(S) \in S /\ \A y \in S : Max(S) >= y
  BY <1>5, Zenon DEF Max
<1>7. \A i \in S : i <= Max(S)
  BY <1>0, <1>6
<1>8. ASSUME NEW k \in S, \A i \in S : i <= k PROVE Max(S) = k
  <2>1. Max(S) <= k /\ k <= Max(S)
    BY <1>6, <1>7, <1>8
  <2>2. Max(S) \in Int /\ k \in Int
    BY <1>0, <1>6
  <2>. QED BY <2>1, <2>2
<1>. QED BY <1>6, <1>7, <1>8

\* The positions of a list up to one.
LEMMA MaxOfPrefix ==
  ASSUME NEW n \in Nat \ {0}
  PROVE  Max(1..n) = n /\ (1..n) \ {n} = 1..(n - 1) /\ 1..n # {}
<1>1. 1..n \in SUBSET (0..n) /\ n \in 1..n /\ 1..n # {} /\ \A i \in 1..n : i <= n
  OBVIOUS
<1>. DEFINE S == 1..n
<1>2. Max(S) = n
  <2>. HIDE DEF S
  <2>1. S \in SUBSET (0..n) /\ n \in S /\ S # {} /\ \A i \in S : i <= n
    BY <1>1 DEF S
  <2>. QED BY <2>1, MaxIsGreatest
<1>. QED BY <1>1, <1>2

-----------------------------------------------------------------------------
(* Folds.                                                                  *)

\* it does the steps of G from base along the list, for sets of its positions up to m.
Iterates(it, m, G, base, list) ==
  \A t \in SUBSET (1..m) :
    it[t] = IF t = {} THEN base ELSE G[<<it[t \ {Max(t)}], list[Max(t)]>>]

\* Such an iteration exists.
LEMMA IterationExists ==
  ASSUME NEW A, NEW B, NEW base \in A, NEW G \in [A \X B -> A], NEW list \in Seq(B),
         NEW m \in 0..Len(list)
  PROVE  \E it \in [SUBSET (1..m) -> A] : Iterates(it, m, G, base, list)
<1>. DEFINE P == {k \in 0..Len(list) :
              \E it \in [SUBSET (1..k) -> A] : Iterates(it, k, G, base, list)}
<1>1. Len(list) \in Nat
  OBVIOUS
<1>2. 0 \in P
  <2>. DEFINE it == [t \in SUBSET (1..0) |-> base]
  <2>1. it \in [SUBSET (1..0) -> A]
    OBVIOUS
  <2>2. \A t \in SUBSET (1..0) : t = {} /\ it[t] = base
    OBVIOUS
  <2>. HIDE DEF it
  <2>3. Iterates(it, 0, G, base, list)
    BY <2>2 DEF Iterates
  <2>4. 0 \in 0..Len(list)
    BY <1>1
  <2>. QED BY <2>1, <2>3, <2>4
<1>3. ASSUME NEW k \in 1..Len(list), k - 1 \in P PROVE k \in P
  <2>1. PICK f \in [SUBSET (1..(k - 1)) -> A] : Iterates(f, k - 1, G, base, list)
    BY <1>3
  <2>2. list[k] \in B /\ k \in Nat \ {0}
    OBVIOUS
  <2>. DEFINE g == [t \in SUBSET (1..k) |->
                     IF k \in t THEN G[<<f[t \ {k}], list[k]>>] ELSE f[t]]
  <2>3. ASSUME NEW t \in SUBSET (1..k) PROVE t \ {k} \in SUBSET (1..(k - 1))
    BY <2>2
  <2>4. ASSUME NEW t \in SUBSET (1..k) PROVE g[t] \in A
    <3>1. CASE k \in t
      <4>1. f[t \ {k}] \in A
        BY <2>3
      <4>2. <<f[t \ {k}], list[k]>> \in A \X B
        BY <2>2, <4>1
      <4>3. g[t] = G[<<f[t \ {k}], list[k]>>]
        BY <3>1
      <4>. HIDE DEF g
      <4>. QED BY <4>2, <4>3
    <3>2. CASE k \notin t
      <4>1. t = t \ {k}
        BY <3>2
      <4>2. t \in SUBSET (1..(k - 1))
        BY <2>3, <4>1
      <4>. QED BY <3>2, <4>2
    <3>. QED BY <3>1, <3>2
  <2>5. g \in [SUBSET (1..k) -> A]
    <3>1. g = [t \in SUBSET (1..k) |-> g[t]]
      OBVIOUS
    <3>. HIDE DEF g
    <3>. QED BY <2>4, <3>1
  <2>6. ASSUME NEW t \in SUBSET (1..k)
        PROVE  g[t] = IF t = {} THEN base ELSE G[<<g[t \ {Max(t)}], list[Max(t)]>>]
    <3>1. CASE k \in t
      <4>1. Max(t) = k
        <5>1. t \in SUBSET (0..k) /\ \A i \in t : i <= k
          OBVIOUS
        <5>. QED BY <2>2, <3>1, <5>1, MaxIsGreatest
      <4>2. g[t \ {k}] = f[t \ {k}]
        BY <2>3
      <4>3. g[t] = G[<<f[t \ {k}], list[k]>>]
        BY <3>1
      <4>. HIDE DEF g
      <4>. QED BY <3>1, <4>1, <4>2, <4>3
    <3>2. CASE k \notin t
      <4>1. t = t \ {k}
        BY <3>2
      <4>2. t \in SUBSET (1..(k - 1))
        BY <2>3, <4>1
      <4>3. g[t] = f[t]
        BY <3>2
      <4>4. f[t] = IF t = {} THEN base ELSE G[<<f[t \ {Max(t)}], list[Max(t)]>>]
        BY <2>1, <4>2 DEF Iterates
      <4>5. g[t \ {Max(t)}] = f[t \ {Max(t)}]
        BY <3>2
      <4>. HIDE DEF g
      <4>. QED BY <4>3, <4>4, <4>5
    <3>. QED BY <3>1, <3>2
  <2>. HIDE DEF g
  <2>7. Iterates(g, k, G, base, list)
    BY <2>6 DEF Iterates
  <2>. QED BY <2>5, <2>7
<1>. HIDE DEF P
<1>4. \A n \in 0..Len(list) : n \in P
  BY <1>1, <1>2, <1>3, HandedOn
<1>. QED BY <1>4 DEF P

\* h is what a fold by the steps of G has after each member of the list.
Follows(h, A, G, base, list) ==
  /\ h \in [0..Len(list) -> A]
  /\ h[0] = base
  /\ \A n \in 1..Len(list) : h[n] = G[<<h[n - 1], list[n]>>]

\* From base, G leads along the list to v.
LeadsTo(v, A, G, base, list) == \E h : Follows(h, A, G, base, list) /\ h[Len(list)] = v

\* it does the steps of G as long as it has something of A.
Obeys(it, A, G, base, list) ==
  /\ it[{}] = base
  /\ \A t \in SUBSET (1..Len(list)) : t # {} /\ it[t \ {Max(t)}] \in A =>
       it[t] = G[<<it[t \ {Max(t)}], list[Max(t)]>>]

\* A fold that obeys follows the list.
LEMMA FoldFollows ==
  ASSUME NEW A, NEW B, NEW base \in A, NEW G \in [A \X B -> A], NEW list \in Seq(B),
         NEW iter, Obeys(iter, A, G, base, list)
  PROVE  LeadsTo(iter[DOMAIN list], A, G, base, list)
<1>. DEFINE N == Len(list)
            h == [n \in 0..N |-> iter[1..n]]
<1>1. DOMAIN list = 1..N /\ N \in Nat
  OBVIOUS
<1>2. h[0] = base
  <2>1. 1..0 = {} /\ 0 \in 0..N
    BY <1>1
  <2>. QED BY <2>1 DEF Obeys
<1>3. ASSUME NEW n \in 1..N, h[n - 1] \in A
      PROVE  h[n] = G[<<h[n - 1], list[n]>>] /\ h[n] \in A
  <2>1. /\ n \in Nat \ {0} /\ n - 1 \in 0..N /\ n \in 0..N
        /\ 1..n \in SUBSET (1..N) /\ list[n] \in B
    BY <1>1
  <2>2. Max(1..n) = n /\ (1..n) \ {n} = 1..(n - 1) /\ 1..n # {}
    BY <2>1, MaxOfPrefix
  <2>3. h[n] = iter[1..n] /\ h[n - 1] = iter[1..(n - 1)]
    BY <2>1
  <2>. HIDE DEF h
  <2>4. h[n] = G[<<h[n - 1], list[n]>>]
    BY <1>3, <2>1, <2>2, <2>3 DEF Obeys
  <2>5. <<h[n - 1], list[n]>> \in A \X B
    BY <1>3, <2>1
  <2>. QED BY <2>4, <2>5
<1>4. h[N] = iter[DOMAIN list] /\ h = [n \in 0..N |-> h[n]]
  BY <1>1
<1>. HIDE DEF h
<1>5. \A n \in 0..N : h[n] \in A
  <2>. DEFINE P == {n \in 0..N : h[n] \in A}
  <2>1. 0 \in P
    <3>1. 0 \in 0..N
      BY <1>1
    <3>. QED BY <1>2, <3>1
  <2>2. ASSUME NEW n \in 1..N, n - 1 \in P PROVE n \in P
    <3>1. n \in 0..N
      BY <1>1
    <3>. QED BY <1>3, <2>2, <3>1
  <2>. HIDE DEF P
  <2>3. \A n \in 0..N : n \in P
    BY <1>1, <2>1, <2>2, HandedOn
  <2>. QED BY <2>3 DEF P
<1>6. \A n \in 1..N : h[n] = G[<<h[n - 1], list[n]>>]
  <2>1. ASSUME NEW n \in 1..N PROVE n - 1 \in 0..N
    BY <1>1
  <2>. QED BY <1>3, <1>5, <2>1
<1>7. Follows(h, A, G, base, list)
  BY <1>2, <1>4, <1>5, <1>6 DEF Follows
<1>. QED BY <1>4, <1>7 DEF LeadsTo

\* The steps of G along the whole list, and what they are taken from.
LEMMA FoldExists ==
  ASSUME NEW A, NEW B, NEW base \in A, NEW G \in [A \X B -> A], NEW list \in Seq(B)
  PROVE  \E f : /\ f = [t \in SUBSET DOMAIN list |-> f[t]]
                /\ f[{}] = base
                /\ \A t \in SUBSET DOMAIN list : t # {} =>
                     /\ f[t] = G[<<f[t \ {Max(t)}], list[Max(t)]>>]
                     /\ f[t \ {Max(t)}] \in A /\ list[Max(t)] \in B
<1>. DEFINE N == Len(list)
<1>1. DOMAIN list = 1..N /\ N \in Nat /\ N \in 0..N
  OBVIOUS
<1>2. PICK f \in [SUBSET (1..N) -> A] : Iterates(f, N, G, base, list)
  BY <1>1, IterationExists
<1>3. f[{}] = base
  BY <1>2 DEF Iterates
<1>4. ASSUME NEW t \in SUBSET (1..N), t # {}
      PROVE  /\ f[t] = G[<<f[t \ {Max(t)}], list[Max(t)]>>]
             /\ f[t \ {Max(t)}] \in A /\ list[Max(t)] \in B
  <2>1. Max(t) \in 1..N
    <3>1. t \in SUBSET (0..N)
      BY <1>1
    <3>. QED BY <1>1, <1>4, <3>1, MaxIsGreatest
  <2>2. f[t] = G[<<f[t \ {Max(t)}], list[Max(t)]>>]
    BY <1>2, <1>4 DEF Iterates
  <2>3. f[t \ {Max(t)}] \in A
    OBVIOUS
  <2>4. list[Max(t)] \in B
    BY <1>1, <2>1
  <2>. QED BY <2>2, <2>3, <2>4
<1>5. f = [t \in SUBSET DOMAIN list |-> f[t]]
  BY <1>1
<1>. QED BY <1>1, <1>3, <1>4, <1>5

\* What an iteration does at a set of positions.
LEMMA FoldObeys ==
  ASSUME NEW A, NEW B, NEW G, NEW base, NEW list \in Seq(B), NEW it, it[{}] = base,
         \A t \in SUBSET DOMAIN list : t # {} =>
           (it[t \ {Max(t)}] \in A /\ list[Max(t)] \in B =>
              it[t] = G[<<it[t \ {Max(t)}], list[Max(t)]>>])
  PROVE  Obeys(it, A, G, base, list)
<1>. DEFINE N == Len(list)
<1>1. DOMAIN list = 1..N /\ N \in Nat
  OBVIOUS
<1>2. ASSUME NEW t \in SUBSET (1..N), t # {} PROVE list[Max(t)] \in B
  <2>1. t \in SUBSET (0..N)
    BY <1>1
  <2>2. Max(t) \in 1..N
    BY <1>1, <1>2, <2>1, MaxIsGreatest
  <2>. QED BY <1>1, <2>2
<1>. QED BY <1>1, <1>2 DEF Obeys

\* Every step along the list keeps what is in I with its position.
Preserves(I, A, G, list) ==
  \A n \in 1..Len(list) : \A a \in A : <<n - 1, a>> \in I => <<n, G[<<a, list[n]>>]>> \in I

\* What holds at the base and is kept by every step holds at the end.
LEMMA FoldKeeps ==
  ASSUME NEW A, NEW B, NEW G \in [A \X B -> A], NEW base, NEW list \in Seq(B), NEW v,
         LeadsTo(v, A, G, base, list), NEW I, <<0, base>> \in I, Preserves(I, A, G, list)
  PROVE  v \in A /\ <<Len(list), v>> \in I
<1>. DEFINE N == Len(list)
<1>1. N \in Nat /\ N \in 0..N
  OBVIOUS
<1>2. PICK h : Follows(h, A, G, base, list) /\ h[N] = v
  BY DEF LeadsTo
<1>3. \A n \in 0..N : h[n] \in A
  BY <1>2 DEF Follows
<1>. DEFINE P == {n \in 0..N : <<n, h[n]>> \in I}
<1>4. 0 \in P
  BY <1>1, <1>2 DEF Follows
<1>5. ASSUME NEW n \in 1..N, n - 1 \in P PROVE n \in P
  <2>1. n - 1 \in 0..N /\ n \in 0..N /\ <<n - 1, h[n - 1]>> \in I
    BY <1>1, <1>5
  <2>2. h[n] = G[<<h[n - 1], list[n]>>]
    BY <1>2 DEF Follows
  <2>. QED BY <1>3, <2>1, <2>2 DEF Preserves
<1>. HIDE DEF P
<1>6. \A n \in 0..N : n \in P
  BY <1>1, <1>4, <1>5, HandedOn
<1>. QED BY <1>1, <1>2, <1>3, <1>6 DEF P

\* What a fold leads to is of the set of its steps.
LEMMA FoldStays ==
  ASSUME NEW A, NEW B, NEW G \in [A \X B -> A], NEW base \in A, NEW list \in Seq(B), NEW v,
         LeadsTo(v, A, G, base, list)
  PROVE  v \in A
<1>. DEFINE I == Nat \X A
<1>1. <<0, base>> \in I
  OBVIOUS
<1>2. ASSUME NEW n \in 1..Len(list), NEW a \in A PROVE <<n, G[<<a, list[n]>>]>> \in I
  <2>1. list[n] \in B /\ n \in Nat
    OBVIOUS
  <2>2. <<a, list[n]>> \in A \X B
    BY <2>1
  <2>. QED BY <2>1, <2>2
<1>. HIDE DEF I
<1>3. Preserves(I, A, G, list)
  BY <1>2 DEF Preserves
<1>. QED BY <1>1, <1>3, FoldKeeps

\* more is the list with e at its end.
Longer(more, list, e) == more = Append(list, e)

\* The last member of a list takes the last step.
LEMMA FoldAppends ==
  ASSUME NEW A, NEW B, NEW G, NEW base, NEW list \in Seq(B), NEW e \in B,
         NEW u, LeadsTo(u, A, G, base, list),
         NEW more, Longer(more, list, e), NEW v, LeadsTo(v, A, G, base, more)
  PROVE  v = G[<<u, e>>]
<1>. DEFINE N == Len(list)
<1>1. /\ N \in Nat /\ N \in 0..N /\ Len(more) = N + 1 /\ more[N + 1] = e
      /\ \A n \in 1..N : more[n] = list[n]
  BY DEF Longer
<1>2. PICK h : Follows(h, A, G, base, list) /\ h[N] = u
  BY DEF LeadsTo
<1>3. PICK g : Follows(g, A, G, base, more) /\ g[Len(more)] = v
  BY DEF LeadsTo
<1>. DEFINE P == {n \in 0..N : g[n] = h[n]}
<1>4. 0 \in P
  BY <1>1, <1>2, <1>3 DEF Follows
<1>5. ASSUME NEW n \in 1..N, n - 1 \in P PROVE n \in P
  <2>1. n \in 1..Len(more) /\ n \in 0..N /\ g[n - 1] = h[n - 1]
    BY <1>1, <1>5
  <2>2. h[n] = G[<<h[n - 1], list[n]>>]
    BY <1>2 DEF Follows
  <2>3. g[n] = G[<<g[n - 1], more[n]>>]
    BY <1>3, <2>1 DEF Follows
  <2>. QED BY <1>1, <2>1, <2>2, <2>3
<1>. HIDE DEF P
<1>6. \A n \in 0..N : n \in P
  BY <1>1, <1>4, <1>5, HandedOn
<1>7. g[N] = u
  BY <1>1, <1>2, <1>6 DEF P
<1>8. g[N + 1] = G[<<g[N], e>>]
  <2>1. N + 1 \in 1..Len(more) /\ (N + 1) - 1 = N
    BY <1>1
  <2>2. g[N + 1] = G[<<g[(N + 1) - 1], more[N + 1]>>]
    BY <1>3, <2>1 DEF Follows
  <2>. QED BY <1>1, <2>1, <2>2
<1>. QED BY <1>1, <1>3, <1>7, <1>8

\* Nothing is folded to the base.
LEMMA FoldOfNothing ==
  ASSUME NEW A, NEW G, NEW base, NEW v, LeadsTo(v, A, G, base, <<>>)
  PROVE  v = base
BY DEF LeadsTo, Follows

\* The steps of Only.
Keeping(set, B) ==
  [p \in Seq(B) \X B |-> IF p[2] \in set THEN Append(p[1], p[2]) ELSE p[1]]

\* Only follows its list.
LEMMA OnlyFolds ==
  ASSUME NEW B, NEW list \in Seq(B), NEW set
  PROVE  LeadsTo(Only(list, set), Seq(B), Keeping(set, B), <<>>, list)
<1>. DEFINE A == Seq(B)
            Op(a, e) == IF e \in set THEN Append(a, e) ELSE a
            Step(f) == [t \in SUBSET DOMAIN list |->
              IF t = {} THEN <<>> ELSE LET i == Max(t) IN Op(f[t \ {i}], list[i])]
            iter == CHOOSE f : f = Step(f)
            G == Keeping(set, B)
<1>1. Only(list, set) = iter[DOMAIN list]
  BY Zenon DEF Only, FoldLeft, MapThenFoldSet
<1>2. <<>> \in A /\ G \in [A \X B -> A]
  BY DEF Keeping
<1>3. ASSUME NEW a \in A, NEW e \in B PROVE G[<<a, e>>] = Op(a, e)
  BY DEF Keeping
<1>. HIDE DEF Op, G, A
<1>4. iter = Step(iter)
  <2>1. PICK f : /\ f = [t \in SUBSET DOMAIN list |-> f[t]]
                 /\ f[{}] = <<>>
                 /\ \A t \in SUBSET DOMAIN list : t # {} =>
                      /\ f[t] = G[<<f[t \ {Max(t)}], list[Max(t)]>>]
                      /\ f[t \ {Max(t)}] \in A /\ list[Max(t)] \in B
    BY <1>2, FoldExists, ZenonT(40)
  <2>2. f = Step(f)
    BY <1>3, <2>1
  <2>. QED BY <2>2
<1>. HIDE DEF iter
<1>5. /\ iter[{}] = <<>>
      /\ \A t \in SUBSET DOMAIN list : t # {} =>
           iter[t] = Op(iter[t \ {Max(t)}], list[Max(t)])
  BY <1>4
<1>6. \A t \in SUBSET DOMAIN list : t # {} =>
        (iter[t \ {Max(t)}] \in A /\ list[Max(t)] \in B =>
           iter[t] = G[<<iter[t \ {Max(t)}], list[Max(t)]>>])
  BY <1>3, <1>5
<1>7. Obeys(iter, A, G, <<>>, list)
  BY <1>5, <1>6, FoldObeys
<1>8. LeadsTo(iter[DOMAIN list], A, G, <<>>, list)
  BY <1>2, <1>7, FoldFollows
<1>. QED BY <1>1, <1>8 DEF A, G

\* The members of a list with one more.
LEMMA RangeOfAppend ==
  ASSUME NEW B, NEW list \in Seq(B), NEW e \in B
  PROVE  Append(list, e) \in Seq(B) /\ Range(Append(list, e)) = Range(list) \cup {e}
<1>. DEFINE more == Append(list, e)
            N == Len(list)
<1>1. /\ N \in Nat /\ DOMAIN list = 1..N /\ DOMAIN more = 1..(N + 1)
      /\ more[N + 1] = e /\ \A n \in 1..N : more[n] = list[n]
      /\ more \in Seq(B)
  OBVIOUS
<1>. HIDE DEF more
<1>2. 1..(N + 1) = 1..N \cup {N + 1}
  BY <1>1
<1>3. {more[n] : n \in 1..(N + 1)} = {list[n] : n \in 1..N} \cup {e}
  BY <1>1, <1>2
<1>. QED BY <1>1, <1>3 DEF Range, more

\* Only keeps the members of a list that are in the set, in a list of their own.
LEMMA OnlyFacts ==
  ASSUME NEW B, NEW list \in Seq(B), NEW set
  PROVE  Only(list, set) \in Seq(B) /\ Range(Only(list, set)) = Range(list) \cap set
<1>. DEFINE A == Seq(B)
            G == Keeping(set, B)
            N == Len(list)
            I == {p \in Nat \X A : Range(p[2]) = {list[i] : i \in 1..p[1]} \cap set}
<1>1. LeadsTo(Only(list, set), A, G, <<>>, list)
  BY OnlyFolds
<1>2. G \in [A \X B -> A]
  BY DEF Keeping
<1>3. <<0, <<>>>> \in I
  <2>1. Range(<<>>) = {} /\ 1..0 = {} /\ <<>> \in A
    BY DEF Range
  <2>2. {list[i] : i \in 1..0} \cap set = {}
    BY <2>1
  <2>. HIDE DEF A
  <2>. QED BY <2>1, <2>2
<1>4. ASSUME NEW n \in 1..N, NEW a \in A, <<n - 1, a>> \in I
      PROVE  <<n, G[<<a, list[n]>>]>> \in I
  <2>1. list[n] \in B /\ n \in Nat /\ N \in Nat
    OBVIOUS
  <2>2. Range(a) = {list[i] : i \in 1..(n - 1)} \cap set
    BY <1>4
  <2>3. {list[i] : i \in 1..n} = {list[i] : i \in 1..(n - 1)} \cup {list[n]}
    BY <2>1
  <2>4. Range(Append(a, list[n])) = Range(a) \cup {list[n]} /\ Append(a, list[n]) \in A
    BY <2>1, RangeOfAppend
  <2>5. G[<<a, list[n]>>] = IF list[n] \in set THEN Append(a, list[n]) ELSE a
    BY <2>1 DEF Keeping
  <2>6. /\ G[<<a, list[n]>>] \in A
        /\ Range(G[<<a, list[n]>>]) = {list[i] : i \in 1..n} \cap set
    BY <2>2, <2>3, <2>4, <2>5
  <2>. HIDE DEF G, A
  <2>. QED BY <2>1, <2>6
<1>. HIDE DEF G, I
<1>5. Preserves(I, A, G, list)
  BY <1>4 DEF Preserves
<1>. HIDE DEF A
<1>6. Only(list, set) \in A /\ <<N, Only(list, set)>> \in I
  BY <1>1, <1>2, <1>3, <1>5, FoldKeeps
<1>7. Range(list) = {list[i] : i \in 1..N}
  BY DEF Range
<1>. QED BY <1>6, <1>7 DEF I, A
-----------------------------------------------------------------------------
(* Sorting.                                                                *)

Entries == [at : Int, used : Int, reset : Int]

\* Entries are in order of time and use: a weak order.
LEMMA EarlierIsWeakOrder ==
  ASSUME NEW e \in Entries, NEW f \in Entries, NEW g \in Entries
  PROVE  /\ ~Earlier(e, e) /\ (Earlier(e, f) => ~Earlier(f, e))
         /\ ~Earlier(f, e) /\ ~Earlier(g, f) => ~Earlier(g, e)
         /\ Earlier(e, f) => e.at <= f.at
         /\ e.at < f.at => Earlier(e, f)
BY DEF Entries, Earlier

Ordered(entries) ==
  \A i, j \in DOMAIN entries : i < j => ~Earlier(entries[j], entries[i])

\* r is s and t behind it.
Joined(r, s, t) ==
  /\ Len(r) = Len(s) + Len(t)
  /\ \A i \in 1..Len(s) : r[i] = s[i]
  /\ \A i \in 1..Len(t) : r[Len(s) + i] = t[i]

\* A list and another one behind it.
LEMMA ConcatFacts ==
  ASSUME NEW B, NEW s \in Seq(B), NEW t \in Seq(B)
  PROVE  s \o t \in Seq(B) /\ Joined(s \o t, s, t)
<1>1. /\ s \o t \in Seq(B) /\ Len(s \o t) = Len(s) + Len(t)
      /\ \A i \in 1..Len(s) : (s \o t)[i] = s[i]
      /\ \A i \in 1..Len(t) : (s \o t)[Len(s) + i] = t[i]
  OBVIOUS
<1>. QED BY <1>1 DEF Joined

\* What InsertAt does at each position.
LEMMA InsertAtFacts ==
  ASSUME NEW B, NEW s \in Seq(B), NEW e \in B, NEW k \in 1..(Len(s) + 1)
  PROVE  /\ InsertAt(s, k, e) \in Seq(B)
         /\ Len(InsertAt(s, k, e)) = Len(s) + 1
         /\ InsertAt(s, k, e)[k] = e
         /\ \A i \in 1..(k - 1) : InsertAt(s, k, e)[i] = s[i]
         /\ \A i \in k..Len(s) : InsertAt(s, k, e)[i + 1] = s[i]
<1>. DEFINE N == Len(s)
            before == SubSeq(s, 1, k - 1)
            after == SubSeq(s, k, N)
            one == <<e>>
<1>1. N \in Nat /\ k \in Nat /\ k - 1 \in 0..N
  OBVIOUS
<1>2. /\ before \in Seq(B) /\ Len(before) = k - 1
      /\ \A i \in 1..(k - 1) : before[i] = s[i]
  BY <1>1
<1>3. /\ after \in Seq(B) /\ Len(after) = N - k + 1
      /\ \A i \in 1..(N - k + 1) : after[i] = s[k + i - 1]
  BY <1>1
<1>4. one \in Seq(B) /\ Len(one) = 1 /\ one[1] = e
  OBVIOUS
<1>5. InsertAt(s, k, e) = (before \o one) \o after
  BY DEF InsertAt
<1>. HIDE DEF before, after, one
<1>. DEFINE first == before \o one
<1>6. /\ first \in Seq(B) /\ Len(first) = k /\ first[k] = e
      /\ \A i \in 1..(k - 1) : first[i] = s[i]
  <2>0. first \in Seq(B) /\ Joined(first, before, one)
    BY <1>2, <1>4, ConcatFacts
  <2>1. /\ first \in Seq(B) /\ Len(first) = (k - 1) + 1
        /\ \A i \in 1..(k - 1) : first[i] = before[i]
        /\ \A i \in 1..1 : first[(k - 1) + i] = one[i]
    <3>. HIDE DEF first
    <3>. QED BY <1>2, <1>4, <2>0 DEF Joined
  <2>2. 1 \in 1..1 /\ (k - 1) + 1 = k
    BY <1>1
  <2>. HIDE DEF first
  <2>. QED BY <1>2, <1>4, <2>1, <2>2
<1>. HIDE DEF first
<1>. DEFINE all == first \o after
<1>7. /\ all \in Seq(B) /\ Len(all) = N + 1
      /\ \A i \in 1..k : all[i] = first[i]
      /\ \A i \in 1..(N - k + 1) : all[k + i] = after[i]
  <2>1. /\ all \in Seq(B) /\ Len(all) = k + (N - k + 1)
        /\ \A i \in 1..k : all[i] = first[i]
        /\ \A i \in 1..(N - k + 1) : all[k + i] = after[i]
    <3>1. all \in Seq(B) /\ Joined(all, first, after)
      BY <1>3, <1>6, ConcatFacts
    <3>. HIDE DEF all
    <3>. QED BY <1>3, <1>6, <3>1 DEF Joined
  <2>2. k + (N - k + 1) = N + 1
    BY <1>1
  <2>. QED BY <2>1, <2>2
<1>. HIDE DEF all
<1>8. ASSUME NEW i \in k..N PROVE all[i + 1] = s[i]
  <2>1. /\ (i + 1) - k \in 1..(N - k + 1)
        /\ k + ((i + 1) - k) = i + 1 /\ k + ((i + 1) - k) - 1 = i
    BY <1>1
  <2>. QED BY <1>3, <1>7, <2>1, ZenonT(40)
<1>9. all[k] = e /\ \A i \in 1..(k - 1) : all[i] = s[i]
  BY <1>1, <1>6, <1>7
<1>10. InsertAt(s, k, e) = all
  BY <1>5 DEF first, all
<1>. QED BY <1>7, <1>8, <1>9, <1>10

\* r is s with e at position k.
Grown(r, s, e, k) ==
  /\ Len(r) = Len(s) + 1 /\ r[k] = e
  /\ \A i \in 1..(k - 1) : r[i] = s[i]
  /\ \A i \in k..Len(s) : r[i + 1] = s[i]

\* An entry is inserted behind the last one that it is not earlier than.
LEMMA InsertedFacts ==
  ASSUME NEW s \in Seq(Entries), NEW e \in Entries
  PROVE  /\ Inserted(s, e) \in Seq(Entries)
         /\ \E k \in 1..(Len(s) + 1) :
              /\ Grown(Inserted(s, e), s, e, k)
              /\ k > 1 => ~Earlier(e, s[k - 1])
              /\ \A i \in k..Len(s) : Earlier(e, s[i])
<1>. DEFINE N == Len(s)
            places == {0} \cup {i \in DOMAIN s : ~Earlier(e, s[i])}
            m == Max(places)
            k == 1 + m
<1>1. N \in Nat /\ DOMAIN s = 1..N
  OBVIOUS
<1>2. places \in SUBSET (0..N) /\ places # {} /\ 0 \in places
  BY <1>1
<1>3. /\ \A i \in places : i # 0 => ~Earlier(e, s[i])
      /\ \A i \in 1..N : i \notin places => Earlier(e, s[i])
  BY <1>1
<1>4. Inserted(s, e) = InsertAt(s, k, e)
  BY Zenon DEF Inserted
<1>. HIDE DEF places
<1>5. m \in places /\ \A i \in places : i <= m
  BY <1>1, <1>2, MaxIsGreatest
<1>. HIDE DEF m
<1>6. m \in 0..N /\ k \in 1..(N + 1)
  BY <1>1, <1>2, <1>5
<1>7. Inserted(s, e) \in Seq(Entries) /\ Grown(Inserted(s, e), s, e, k)
  <2>. HIDE DEF k
  <2>. QED BY <1>4, <1>6, InsertAtFacts DEF Grown
<1>8. k > 1 => ~Earlier(e, s[k - 1])
  <2>1. k - 1 = m
    BY <1>6
  <2>. QED BY <1>3, <1>5, <1>6, <2>1
<1>9. ASSUME NEW i \in k..N PROVE Earlier(e, s[i])
  <2>1. i \in 1..N /\ i > m
    BY <1>1, <1>6
  <2>2. i \notin places
    BY <1>5, <1>6, <2>1
  <2>. QED BY <1>3, <2>1, <2>2
<1>. HIDE DEF k
<1>. QED BY <1>6, <1>7, <1>8, <1>9

\* An ordered list stays ordered, and has one more member.
LEMMA InsertedIsOrdered ==
  ASSUME NEW s \in Seq(Entries), NEW e \in Entries
  PROVE  /\ Inserted(s, e) \in Seq(Entries) /\ Len(Inserted(s, e)) = Len(s) + 1
         /\ Range(Inserted(s, e)) = Range(s) \cup {e}
         /\ Ordered(s) => Ordered(Inserted(s, e))
<1>. DEFINE r == Inserted(s, e)
            N == Len(s)
<1>1. r \in Seq(Entries)
  BY InsertedFacts
<1>2. PICK k \in 1..(N + 1) : /\ Grown(r, s, e, k)
                              /\ k > 1 => ~Earlier(e, s[k - 1])
                              /\ \A i \in k..N : Earlier(e, s[i])
  BY InsertedFacts
<1>. HIDE DEF r
<1>3. /\ N \in Nat /\ k \in Nat /\ DOMAIN s = 1..N /\ Len(r) = N + 1 /\ DOMAIN r = 1..(N + 1)
      /\ r[k] = e /\ (\A i \in 1..(k - 1) : r[i] = s[i]) /\ (\A i \in k..N : r[i + 1] = s[i])
  BY <1>1, <1>2 DEF Grown
<1>4. \A i \in 1..N : s[i] \in Entries
  OBVIOUS
<1>5. Range(r) = Range(s) \cup {e}
  <2>1. ASSUME NEW i \in 1..(N + 1) PROVE r[i] \in Range(s) \cup {e}
    <3>1. CASE i < k
      BY <1>3, <3>1 DEF Range
    <3>2. CASE i > k
      <4>1. i - 1 \in k..N /\ (i - 1) + 1 = i
        BY <1>3, <3>2
      <4>2. r[i] = s[i - 1] /\ i - 1 \in DOMAIN s
        BY <1>3, <4>1
      <4>. QED BY <4>2 DEF Range
    <3>3. CASE i = k
      BY <1>3, <3>3
    <3>4. i < k \/ i > k \/ i = k
      BY <1>3
    <3>. QED BY <3>1, <3>2, <3>3, <3>4, Zenon
  <2>2. ASSUME NEW i \in 1..N PROVE s[i] \in Range(r)
    <3>1. CASE i < k
      <4>1. i \in 1..(N + 1) /\ r[i] = s[i]
        BY <1>3, <3>1
      <4>. QED BY <1>3, <4>1 DEF Range
    <3>2. CASE i >= k
      <4>1. i + 1 \in 1..(N + 1) /\ r[i + 1] = s[i]
        BY <1>3, <3>2
      <4>. QED BY <1>3, <4>1 DEF Range
    <3>. QED BY <1>3, <3>1, <3>2
  <2>3. e \in Range(r)
    <3>1. k \in 1..(N + 1)
      OBVIOUS
    <3>. QED BY <1>3, <3>1 DEF Range
  <2>. QED BY <1>3, <2>1, <2>2, <2>3 DEF Range
<1>6. ASSUME Ordered(s) PROVE Ordered(r)
  <2>1. \A i \in 1..N : i < k => ~Earlier(e, s[i])
    <3>1. ASSUME NEW i \in 1..N, i < k PROVE ~Earlier(e, s[i])
      <4>1. k - 1 \in 1..N /\ ~Earlier(e, s[k - 1])
        BY <1>2, <1>3, <3>1
      <4>2. CASE i = k - 1
        BY <4>1, <4>2
      <4>3. CASE i # k - 1
        <5>1. i < k - 1
          BY <1>3, <3>1, <4>3
        <5>2. ~Earlier(s[k - 1], s[i])
          BY <1>3, <1>6, <4>1, <5>1 DEF Ordered
        <5>. QED BY <1>4, <4>1, <5>2, EarlierIsWeakOrder
      <4>. QED BY <4>2, <4>3
    <3>. QED BY <3>1
  <2>2. ASSUME NEW i \in 1..(N + 1), NEW j \in 1..(N + 1), i < j
        PROVE  ~Earlier(r[j], r[i])
    <3>1. CASE j < k
      <4>1. i \in 1..N /\ j \in 1..N /\ r[i] = s[i] /\ r[j] = s[j]
        BY <1>3, <2>2, <3>1
      <4>. QED BY <1>3, <1>6, <2>2, <4>1 DEF Ordered
    <3>2. CASE j = k
      <4>1. i \in 1..N /\ i < k /\ r[i] = s[i] /\ r[j] = e
        BY <1>3, <2>2, <3>2
      <4>. QED BY <2>1, <4>1
    <3>3. CASE j > k
      <4>1. j - 1 \in k..N /\ (j - 1) + 1 = j /\ j - 1 \in 1..N
        BY <1>3, <3>3
      <4>2. r[j] = s[j - 1]
        BY <1>3, <4>1
      <4>3. CASE i < k
        <5>1. i \in 1..N /\ i < j - 1 /\ r[i] = s[i]
          BY <1>3, <4>1, <4>3
        <5>. QED BY <1>3, <1>6, <4>1, <4>2, <5>1 DEF Ordered
      <4>4. CASE i = k
        <5>1. r[i] = e /\ Earlier(e, s[j - 1])
          BY <1>2, <1>3, <4>1, <4>4
        <5>. QED BY <1>4, <4>1, <4>2, <5>1, EarlierIsWeakOrder
      <4>5. CASE i > k
        <5>1. i - 1 \in k..N /\ (i - 1) + 1 = i /\ i - 1 \in 1..N /\ i - 1 < j - 1
          BY <1>3, <2>2, <4>5
        <5>2. r[i] = s[i - 1]
          BY <1>3, <5>1
        <5>. QED BY <1>3, <1>6, <4>1, <4>2, <5>1, <5>2 DEF Ordered
      <4>. QED BY <1>3, <4>3, <4>4, <4>5
    <3>. QED BY <1>3, <3>1, <3>2, <3>3
  <2>. QED BY <1>3, <2>2 DEF Ordered
<1>. QED BY <1>1, <1>3, <1>5, <1>6 DEF r

\* An entry that is not earlier than any is inserted at the end.
LEMMA InsertedLast ==
  ASSUME NEW s \in Seq(Entries), NEW e \in Entries, \A f \in Range(s) : ~Earlier(e, f)
  PROVE  Inserted(s, e) = Append(s, e)
<1>. DEFINE r == Inserted(s, e)
            N == Len(s)
<1>1. r \in Seq(Entries)
  BY InsertedFacts
<1>2. PICK k \in 1..(N + 1) : Grown(r, s, e, k) /\ \A i \in k..N : Earlier(e, s[i])
  BY InsertedFacts
<1>. HIDE DEF r
<1>3. N \in Nat /\ DOMAIN s = 1..N /\ k \in Nat
  OBVIOUS
<1>4. k = N + 1
  <2>1. SUFFICES ASSUME k # N + 1 PROVE FALSE
    OBVIOUS
  <2>2. k \in k..N /\ k \in 1..N
    BY <1>3, <2>1
  <2>3. s[k] \in Range(s) /\ Earlier(e, s[k])
    BY <1>2, <1>3, <2>2 DEF Range
  <2>. QED BY <2>3
<1>5. Len(r) = N + 1 /\ r[N + 1] = e /\ \A i \in 1..N : r[i] = s[i]
  BY <1>2, <1>3, <1>4 DEF Grown
<1>. DEFINE more == Append(s, e)
<1>6. /\ more \in Seq(Entries) /\ Len(more) = N + 1 /\ more[N + 1] = e
      /\ \A i \in 1..N : more[i] = s[i]
  OBVIOUS
<1>. HIDE DEF more
<1>7. \A i \in 1..(N + 1) : r[i] = more[i]
  BY <1>3, <1>5, <1>6
<1>8. r = more
  BY <1>1, <1>3, <1>5, <1>6, <1>7
<1>. QED BY <1>8 DEF r, more

\* The steps of Sorted.
Inserting == [p \in Seq(Entries) \X Entries |-> Inserted(p[1], p[2])]

\* Sorted follows its list.
LEMMA SortedFolds ==
  ASSUME NEW list \in Seq(Entries)
  PROVE  LeadsTo(Sorted(list), Seq(Entries), Inserting, <<>>, list)
<1>. DEFINE A == Seq(Entries)
            Step(f) == [t \in SUBSET DOMAIN list |->
              IF t = {} THEN <<>> ELSE LET i == Max(t) IN Inserted(f[t \ {i}], list[i])]
            iter == CHOOSE f : f = Step(f)
            G == Inserting
<1>1. Sorted(list) = iter[DOMAIN list]
  BY Zenon DEF Sorted, FoldLeft, MapThenFoldSet
<1>2. <<>> \in A /\ G \in [A \X Entries -> A]
  BY InsertedFacts DEF Inserting
<1>3. ASSUME NEW a \in A, NEW e \in Entries PROVE G[<<a, e>>] = Inserted(a, e)
  BY DEF Inserting
<1>. HIDE DEF G, A
<1>4. iter = Step(iter)
  <2>1. PICK f : /\ f = [t \in SUBSET DOMAIN list |-> f[t]]
                 /\ f[{}] = <<>>
                 /\ \A t \in SUBSET DOMAIN list : t # {} =>
                      /\ f[t] = G[<<f[t \ {Max(t)}], list[Max(t)]>>]
                      /\ f[t \ {Max(t)}] \in A /\ list[Max(t)] \in Entries
    BY <1>2, FoldExists, ZenonT(40)
  <2>2. f = Step(f)
    BY <1>3, <2>1
  <2>. QED BY <2>2
<1>. HIDE DEF iter
<1>5. /\ iter[{}] = <<>>
      /\ \A t \in SUBSET DOMAIN list : t # {} =>
           iter[t] = Inserted(iter[t \ {Max(t)}], list[Max(t)])
  BY <1>4
<1>6. \A t \in SUBSET DOMAIN list : t # {} =>
        (iter[t \ {Max(t)}] \in A /\ list[Max(t)] \in Entries =>
           iter[t] = G[<<iter[t \ {Max(t)}], list[Max(t)]>>])
  BY <1>3, <1>5
<1>7. Obeys(iter, A, G, <<>>, list)
  BY <1>5, <1>6, FoldObeys
<1>8. LeadsTo(iter[DOMAIN list], A, G, <<>>, list)
  BY <1>2, <1>7, FoldFollows
<1>. QED BY <1>1, <1>8 DEF A, G

\* Sorted puts the entries of a list in order.
LEMMA SortedFacts ==
  ASSUME NEW list \in Seq(Entries)
  PROVE  /\ Sorted(list) \in Seq(Entries) /\ Range(Sorted(list)) = Range(list)
         /\ Ordered(Sorted(list))
<1>. DEFINE A == Seq(Entries)
            G == Inserting
            N == Len(list)
            I == {p \in Nat \X A : Range(p[2]) = {list[i] : i \in 1..p[1]} /\ Ordered(p[2])}
<1>1. LeadsTo(Sorted(list), A, G, <<>>, list)
  BY SortedFolds
<1>2. G \in [A \X Entries -> A]
  BY InsertedFacts DEF Inserting
<1>3. <<0, <<>>>> \in I
  <2>1. Range(<<>>) = {} /\ 1..0 = {} /\ <<>> \in A /\ Ordered(<<>>)
    BY DEF Range, Ordered
  <2>2. {list[i] : i \in 1..0} = {}
    BY <2>1
  <2>. HIDE DEF A
  <2>. QED BY <2>1, <2>2
<1>4. ASSUME NEW n \in 1..N, NEW a \in A, <<n - 1, a>> \in I
      PROVE  <<n, G[<<a, list[n]>>]>> \in I
  <2>1. list[n] \in Entries /\ n \in Nat /\ N \in Nat
    OBVIOUS
  <2>2. Range(a) = {list[i] : i \in 1..(n - 1)} /\ Ordered(a)
    BY <1>4
  <2>3. {list[i] : i \in 1..n} = {list[i] : i \in 1..(n - 1)} \cup {list[n]}
    BY <2>1
  <2>4. G[<<a, list[n]>>] = Inserted(a, list[n])
    BY <2>1 DEF Inserting
  <2>5. /\ Inserted(a, list[n]) \in A /\ Ordered(Inserted(a, list[n]))
        /\ Range(Inserted(a, list[n])) = Range(a) \cup {list[n]}
    BY <2>1, <2>2, InsertedIsOrdered
  <2>. HIDE DEF G, A
  <2>. QED BY <2>1, <2>2, <2>3, <2>4, <2>5
<1>. HIDE DEF G, I
<1>5. Preserves(I, A, G, list)
  BY <1>4 DEF Preserves
<1>. HIDE DEF A
<1>6. Sorted(list) \in A /\ <<N, Sorted(list)>> \in I
  BY <1>1, <1>2, <1>3, <1>5, FoldKeeps
<1>7. Range(list) = {list[i] : i \in 1..N}
  BY DEF Range
<1>. QED BY <1>6, <1>7 DEF I, A

\* The last of a list is inserted into the rest.
LEMMA SortedAppends ==
  ASSUME NEW list \in Seq(Entries), NEW e \in Entries
  PROVE  Sorted(Append(list, e)) = Inserted(Sorted(list), e)
<1>. DEFINE A == Seq(Entries)
            G == Inserting
            nothing == <<>>
            u == Sorted(list)
            more == Append(list, e)
            v == Sorted(more)
<1>1. LeadsTo(u, A, G, nothing, list)
  BY SortedFolds
<1>2. LeadsTo(v, A, G, nothing, more)
  <2>1. more \in Seq(Entries)
    OBVIOUS
  <2>. QED BY <2>1, SortedFolds
<1>3. G \in [A \X Entries -> A]
  BY InsertedFacts DEF Inserting
<1>4. u \in A
  BY SortedFacts
<1>5. G[<<u, e>>] = Inserted(u, e)
  BY <1>4 DEF Inserting
<1>6. Longer(more, list, e)
  BY DEF Longer
<1>. HIDE DEF G, A, nothing, u, v, more
<1>7. v = G[<<u, e>>]
  BY <1>1, <1>2, <1>6, FoldAppends
<1>. QED BY <1>5, <1>7 DEF u, v, more

-----------------------------------------------------------------------------
(* The peaks of an hour.                                                   *)

\* The steps of HourPeaks.
Peaking == [p \in Seq(Entries) \X Entries |-> NextPeaks(p[1], p[2])]

\* What a step does to one or two peaks.
LEMMA NextPeaksFacts ==
  ASSUME NEW peaks \in Seq(Entries), NEW e \in Entries
  PROVE  /\ NextPeaks(peaks, e) \in Seq(Entries)
         /\ peaks = <<>> => NextPeaks(peaks, e) = <<e>>
         /\ Len(peaks) = 1 =>
              NextPeaks(peaks, e) = IF StartsResetSegment(peaks[1], e) THEN <<peaks[1], e>>
                                    ELSE <<SegmentPeak(peaks[1], e)>>
         /\ Len(peaks) = 2 =>
              NextPeaks(peaks, e) = IF StartsResetSegment(peaks[2], e) THEN <<peaks[1], e>>
                                    ELSE <<peaks[1], SegmentPeak(peaks[2], e)>>
<1>1. CASE peaks = <<>>
  BY <1>1 DEF NextPeaks
<1>2. CASE peaks # <<>>
  <2>1. Len(peaks) \in Nat \ {0} /\ Head(peaks) = peaks[1] /\ Last(peaks) = peaks[Len(peaks)]
    BY <1>2 DEF Last
  <2>2. Front(peaks) \in Seq(Entries)
    BY <1>2 DEF Front
  <2>3. peaks[1] \in Entries /\ peaks[Len(peaks)] \in Entries
    BY <2>1
  <2>4. SegmentPeak(peaks[Len(peaks)], e) \in Entries
    BY <2>3 DEF SegmentPeak
  <2>5. NextPeaks(peaks, e) =
          IF StartsResetSegment(peaks[Len(peaks)], e) THEN <<peaks[1], e>>
          ELSE Append(Front(peaks), SegmentPeak(peaks[Len(peaks)], e))
    BY <1>2, <2>1 DEF NextPeaks
  <2>6. NextPeaks(peaks, e) \in Seq(Entries)
    BY <2>2, <2>3, <2>4, <2>5
  <2>7. Len(peaks) = 1 => Front(peaks) = <<>>
    BY DEF Front
  <2>8. ASSUME Len(peaks) = 2 PROVE Front(peaks) = <<peaks[1]>>
    <3>1. Front(peaks) = SubSeq(peaks, 1, 1)
      BY <2>8 DEF Front
    <3>2. /\ Front(peaks) \in Seq(Entries) /\ Len(Front(peaks)) = 1
          /\ Front(peaks)[1] = peaks[1]
      BY <2>8, <3>1
    <3>. QED BY <2>3, <3>2
  <2>9. Len(peaks) = 1 => Append(Front(peaks), SegmentPeak(peaks[Len(peaks)], e))
                           = <<SegmentPeak(peaks[1], e)>>
    BY <2>4, <2>7
  <2>10. Len(peaks) = 2 => Append(Front(peaks), SegmentPeak(peaks[Len(peaks)], e))
                           = <<peaks[1], SegmentPeak(peaks[2], e)>>
    <3>1. SUFFICES ASSUME Len(peaks) = 2
                   PROVE  Append(<<peaks[1]>>, SegmentPeak(peaks[2], e))
                            = <<peaks[1], SegmentPeak(peaks[2], e)>>
      BY <2>8
    <3>2. ASSUME NEW a \in Entries, NEW b \in Entries PROVE Append(<<a>>, b) = <<a, b>>
      <4>. DEFINE two == Append(<<a>>, b)
      <4>1. two \in Seq(Entries) /\ Len(two) = 2 /\ two[1] = a /\ two[2] = b
        OBVIOUS
      <4>. HIDE DEF two
      <4>2. two = <<a, b>>
        BY <4>1
      <4>. QED BY <4>2 DEF two
    <3>3. peaks[2] \in Entries /\ SegmentPeak(peaks[2], e) \in Entries
      BY <2>3, <2>4, <3>1
    <3>. QED BY <2>3, <3>2, <3>3
  <2>11. peaks = <<>> => FALSE
    BY <1>2
  <2>. QED BY <2>5, <2>6, <2>9, <2>10, <2>11
<1>. QED BY <1>1, <1>2

\* HourPeaks follows its list.
LEMMA HourPeaksFolds ==
  ASSUME NEW list \in Seq(Entries)
  PROVE  LeadsTo(HourPeaks(list), Seq(Entries), Peaking, <<>>, list)
<1>. DEFINE A == Seq(Entries)
            Step(f) == [t \in SUBSET DOMAIN list |->
              IF t = {} THEN <<>> ELSE LET i == Max(t) IN NextPeaks(f[t \ {i}], list[i])]
            iter == CHOOSE f : f = Step(f)
            G == Peaking
<1>1. HourPeaks(list) = iter[DOMAIN list]
  BY Zenon DEF HourPeaks, FoldLeft, MapThenFoldSet
<1>2. <<>> \in A /\ G \in [A \X Entries -> A]
  BY NextPeaksFacts DEF Peaking
<1>3. ASSUME NEW a \in A, NEW e \in Entries PROVE G[<<a, e>>] = NextPeaks(a, e)
  BY DEF Peaking
<1>. HIDE DEF G, A
<1>4. iter = Step(iter)
  <2>1. PICK f : /\ f = [t \in SUBSET DOMAIN list |-> f[t]]
                 /\ f[{}] = <<>>
                 /\ \A t \in SUBSET DOMAIN list : t # {} =>
                      /\ f[t] = G[<<f[t \ {Max(t)}], list[Max(t)]>>]
                      /\ f[t \ {Max(t)}] \in A /\ list[Max(t)] \in Entries
    BY <1>2, FoldExists, ZenonT(40)
  <2>2. f = Step(f)
    BY <1>3, <2>1
  <2>. QED BY <2>2
<1>. HIDE DEF iter
<1>5. /\ iter[{}] = <<>>
      /\ \A t \in SUBSET DOMAIN list : t # {} =>
           iter[t] = NextPeaks(iter[t \ {Max(t)}], list[Max(t)])
  BY <1>4
<1>6. \A t \in SUBSET DOMAIN list : t # {} =>
        (iter[t \ {Max(t)}] \in A /\ list[Max(t)] \in Entries =>
           iter[t] = G[<<iter[t \ {Max(t)}], list[Max(t)]>>])
  BY <1>3, <1>5
<1>7. Obeys(iter, A, G, <<>>, list)
  BY <1>5, <1>6, FoldObeys
<1>8. LeadsTo(iter[DOMAIN list], A, G, <<>>, list)
  BY <1>2, <1>7, FoldFollows
<1>. QED BY <1>1, <1>8 DEF A, G

\* It is among the first n entries.
Among(e, list, n) == \E i \in 1..n : e = list[i]

\* One or two peaks, in order, of the first n entries.
Peaked(peaks, list, n) ==
  IF n = 0 THEN peaks = <<>>
  ELSE /\ Len(peaks) \in {1, 2} /\ Among(peaks[1], list, n)
       /\ Len(peaks) = 2 => Among(peaks[2], list, n) /\ ~Earlier(peaks[2], peaks[1])

\* The other entries are earlier than this one and of another segment.
Leads(e, list) ==
  \A i \in DOMAIN list : list[i] # e => Earlier(list[i], e) /\ StartsResetSegment(list[i], e)

\* An entry that leads is the last peak.
Led(peaks, list, n) ==
  \A i \in 1..n : Leads(list[i], list) => peaks[Len(peaks)] = list[i]

\* The next entry of an ordered list keeps the peaks in order.
LEMMA NextPeaksArePeaks ==
  ASSUME NEW list \in Seq(Entries), Ordered(list), NEW n \in 1..Len(list),
         NEW peaks \in Seq(Entries), Peaked(peaks, list, n - 1)
  PROVE  Peaked(NextPeaks(peaks, list[n]), list, n)
<1>. DEFINE e == list[n]
            next == NextPeaks(peaks, e)
<1>. SUFFICES Peaked(next, list, n)
  OBVIOUS
<1>1. /\ n \in Nat \ {0} /\ n \in DOMAIN list /\ e \in Entries
      /\ \A i \in 1..n : i \in DOMAIN list /\ list[i] \in Entries
  OBVIOUS
<1>2. \A i \in 1..n : ~Earlier(e, list[i])
  BY <1>1, EarlierIsWeakOrder DEF Ordered
<1>3. CASE n = 1
  <2>1. peaks = <<>>
    BY <1>3 DEF Peaked
  <2>2. next = <<e>>
    BY <1>1, <2>1, NextPeaksFacts
  <2>3. Len(next) = 1 /\ next[1] = e
    BY <2>2
  <2>4. Among(e, list, n)
    BY <1>1 DEF Among
  <2>. HIDE DEF next
  <2>. QED BY <1>1, <2>3, <2>4 DEF Peaked
<1>4. CASE n # 1
  <2>1. /\ Len(peaks) \in {1, 2} /\ Among(peaks[1], list, n - 1)
        /\ Len(peaks) = 2 =>
             Among(peaks[2], list, n - 1) /\ ~Earlier(peaks[2], peaks[1])
    BY <1>1, <1>4 DEF Peaked
  <2>2. \A p : Among(p, list, n - 1) => Among(p, list, n) /\ ~Earlier(e, p)
    BY <1>1, <1>2 DEF Among
  <2>3. Among(e, list, n)
    BY <1>1 DEF Among
  <2>4. \A p : SegmentPeak(p, e) \in {p, e}
    BY DEF SegmentPeak
  <2>5. CASE Len(peaks) = 1
    <3>1. Among(peaks[1], list, n) /\ ~Earlier(e, peaks[1])
      BY <2>1, <2>2, <2>5
    <3>2. CASE StartsResetSegment(peaks[1], e)
      <4>1. next = <<peaks[1], e>>
        BY <1>1, <2>5, <3>2, NextPeaksFacts
      <4>2. Len(next) = 2 /\ next[1] = peaks[1] /\ next[2] = e
        BY <4>1
      <4>. HIDE DEF next
      <4>. QED BY <1>1, <2>3, <3>1, <4>2 DEF Peaked
    <3>3. CASE ~StartsResetSegment(peaks[1], e)
      <4>1. next = <<SegmentPeak(peaks[1], e)>>
        BY <1>1, <2>5, <3>3, NextPeaksFacts
      <4>2. Len(next) = 1 /\ next[1] \in {peaks[1], e}
        BY <2>4, <4>1
      <4>. HIDE DEF next
      <4>. QED BY <1>1, <2>3, <3>1, <4>2 DEF Peaked
    <3>. QED BY <3>2, <3>3
  <2>6. CASE Len(peaks) = 2
    <3>1. /\ Among(peaks[1], list, n) /\ ~Earlier(e, peaks[1])
          /\ Among(peaks[2], list, n) /\ ~Earlier(peaks[2], peaks[1])
      BY <2>1, <2>2, <2>6
    <3>2. CASE StartsResetSegment(peaks[2], e)
      <4>1. next = <<peaks[1], e>>
        BY <1>1, <2>6, <3>2, NextPeaksFacts
      <4>2. Len(next) = 2 /\ next[1] = peaks[1] /\ next[2] = e
        BY <4>1
      <4>. HIDE DEF next
      <4>. QED BY <1>1, <2>3, <3>1, <4>2 DEF Peaked
    <3>3. CASE ~StartsResetSegment(peaks[2], e)
      <4>1. next = <<peaks[1], SegmentPeak(peaks[2], e)>>
        BY <1>1, <2>6, <3>3, NextPeaksFacts
      <4>2. Len(next) = 2 /\ next[1] = peaks[1] /\ next[2] \in {peaks[2], e}
        BY <2>4, <4>1
      <4>. HIDE DEF next
      <4>. QED BY <1>1, <2>3, <3>1, <4>2 DEF Peaked
    <3>. QED BY <3>2, <3>3
  <2>. QED BY <2>1, <2>5, <2>6
<1>. QED BY <1>3, <1>4

\* The next entry of an ordered list keeps an entry that leads the last peak.
LEMMA NextPeaksAreLed ==
  ASSUME NEW list \in Seq(Entries), Ordered(list), NEW n \in 1..Len(list),
         NEW peaks \in Seq(Entries), Peaked(peaks, list, n - 1), Led(peaks, list, n - 1)
  PROVE  Led(NextPeaks(peaks, list[n]), list, n)
<1>. DEFINE e == list[n]
            next == NextPeaks(peaks, e)
<1>1. /\ n \in Nat \ {0} /\ n \in DOMAIN list /\ e \in Entries
      /\ \A i \in 1..n : i \in DOMAIN list /\ list[i] \in Entries
  OBVIOUS
<1>2. SUFFICES ASSUME NEW i \in 1..n, Leads(list[i], list)
               PROVE  next[Len(next)] = list[i]
  BY DEF Led
<1>3. list[i] = e
  <2>1. SUFFICES ASSUME list[i] # e PROVE FALSE
    OBVIOUS
  <2>2. i < n
    BY <1>1, <2>1
  <2>3. Earlier(e, list[i])
    BY <1>1, <1>2, <2>1 DEF Leads
  <2>. QED BY <1>1, <2>2, <2>3 DEF Ordered
<1>4. ASSUME NEW p, Among(p, list, n - 1) PROVE p = e \/ StartsResetSegment(p, e)
  BY <1>1, <1>2, <1>3, <1>4 DEF Leads, Among
<1>5. SegmentPeak(e, e) = e
  BY DEF SegmentPeak
<1>6. CASE n = 1
  <2>1. peaks = <<>>
    BY <1>6 DEF Peaked
  <2>2. next = <<e>>
    BY <1>1, <2>1, NextPeaksFacts
  <2>3. Len(next) = 1 /\ next[1] = e
    BY <2>2
  <2>. HIDE DEF next, e
  <2>. QED BY <1>3, <2>3
<1>7. CASE n # 1
  <2>1. /\ Len(peaks) \in {1, 2} /\ Among(peaks[1], list, n - 1)
        /\ Len(peaks) = 2 => Among(peaks[2], list, n - 1)
    BY <1>1, <1>7 DEF Peaked
  <2>2. CASE Len(peaks) = 1
    <3>1. peaks[1] = e \/ StartsResetSegment(peaks[1], e)
      BY <1>4, <2>1
    <3>2. next = <<peaks[1], e>> \/ next = <<e>>
      <4>1. next = IF StartsResetSegment(peaks[1], e) THEN <<peaks[1], e>>
                   ELSE <<SegmentPeak(peaks[1], e)>>
        BY <1>1, <2>2, NextPeaksFacts
      <4>2. StartsResetSegment(peaks[1], e) \/ SegmentPeak(peaks[1], e) = e
        BY <1>5, <3>1
      <4>. HIDE DEF next, e
      <4>3. CASE StartsResetSegment(peaks[1], e)
        BY <4>1, <4>3
      <4>4. CASE ~StartsResetSegment(peaks[1], e)
        <5>1. next = <<SegmentPeak(peaks[1], e)>>
          BY <4>1, <4>4
        <5>. QED BY <4>2, <4>4, <5>1
      <4>. QED BY <4>3, <4>4
    <3>. HIDE DEF next, e
    <3>3. CASE next = <<peaks[1], e>>
      BY <1>3, <3>3
    <3>4. CASE next = <<e>>
      BY <1>3, <3>4
    <3>. QED BY <3>2, <3>3, <3>4
  <2>3. CASE Len(peaks) = 2
    <3>1. peaks[2] = e \/ StartsResetSegment(peaks[2], e)
      BY <1>4, <2>1, <2>3
    <3>2. next = <<peaks[1], e>>
      <4>1. next = IF StartsResetSegment(peaks[2], e) THEN <<peaks[1], e>>
                   ELSE <<peaks[1], SegmentPeak(peaks[2], e)>>
        BY <1>1, <2>3, NextPeaksFacts
      <4>. HIDE DEF next, e
      <4>. QED BY <1>5, <3>1, <4>1
    <3>. HIDE DEF next, e
    <3>. QED BY <1>3, <3>2
  <2>. QED BY <2>1, <2>2, <2>3
<1>. QED BY <1>6, <1>7

\* An hour has one or two peaks, of its entries and in order; an entry that
\* leads the hour is the last of them.
LEMMA HourPeaksFacts ==
  ASSUME NEW list \in Seq(Entries), Ordered(list)
  PROVE  /\ HourPeaks(list) \in Seq(Entries)
         /\ Peaked(HourPeaks(list), list, Len(list)) /\ Led(HourPeaks(list), list, Len(list))
<1>. DEFINE A == Seq(Entries)
            G == Peaking
            N == Len(list)
            I == {p \in Nat \X A : Peaked(p[2], list, p[1]) /\ Led(p[2], list, p[1])}
<1>1. LeadsTo(HourPeaks(list), A, G, <<>>, list)
  BY HourPeaksFolds
<1>2. G \in [A \X Entries -> A]
  BY NextPeaksFacts DEF Peaking
<1>3. <<0, <<>>>> \in I
  <2>1. Peaked(<<>>, list, 0) /\ Led(<<>>, list, 0) /\ <<>> \in A
    BY DEF Peaked, Led
  <2>. HIDE DEF A
  <2>. QED BY <2>1
<1>4. ASSUME NEW n \in 1..N, NEW a \in A, <<n - 1, a>> \in I
      PROVE  <<n, G[<<a, list[n]>>]>> \in I
  <2>1. list[n] \in Entries /\ n \in Nat
    OBVIOUS
  <2>2. Peaked(a, list, n - 1) /\ Led(a, list, n - 1)
    BY <1>4
  <2>3. G[<<a, list[n]>>] = NextPeaks(a, list[n])
    BY <2>1 DEF Peaking
  <2>4. NextPeaks(a, list[n]) \in A
    BY <2>1, NextPeaksFacts
  <2>5. Peaked(NextPeaks(a, list[n]), list, n)
    BY <2>2, NextPeaksArePeaks
  <2>6. Led(NextPeaks(a, list[n]), list, n)
    BY <2>2, NextPeaksAreLed
  <2>. HIDE DEF G, A
  <2>. QED BY <2>1, <2>3, <2>4, <2>5, <2>6
<1>. HIDE DEF G, I
<1>5. Preserves(I, A, G, list)
  BY <1>4 DEF Preserves
<1>. HIDE DEF A
<1>6. HourPeaks(list) \in A /\ <<N, HourPeaks(list)>> \in I
  BY <1>1, <1>2, <1>3, <1>5, FoldKeeps
<1>. QED BY <1>6 DEF I, A

\* The last entry of an hour takes the last step.
LEMMA HourPeaksAppends ==
  ASSUME NEW list \in Seq(Entries), NEW e \in Entries
  PROVE  /\ HourPeaks(list) \in Seq(Entries)
         /\ HourPeaks(Append(list, e)) = NextPeaks(HourPeaks(list), e)
<1>. DEFINE A == Seq(Entries)
            G == Peaking
            nothing == <<>>
            u == HourPeaks(list)
            more == Append(list, e)
            v == HourPeaks(more)
<1>1. LeadsTo(u, A, G, nothing, list)
  BY HourPeaksFolds
<1>2. LeadsTo(v, A, G, nothing, more)
  <2>1. more \in Seq(Entries)
    OBVIOUS
  <2>. QED BY <2>1, HourPeaksFolds
<1>3. G \in [A \X Entries -> A] /\ nothing \in A
  BY NextPeaksFacts DEF Peaking
<1>4. Longer(more, list, e)
  BY DEF Longer
<1>. HIDE DEF A
<1>5. u \in A
  <2>. HIDE DEF G, u, nothing
  <2>. QED BY <1>1, <1>3, FoldStays
<1>6. G[<<u, e>>] = NextPeaks(u, e)
  BY <1>5 DEF Peaking, A
<1>. HIDE DEF G, nothing, u, v, more
<1>7. v = G[<<u, e>>]
  BY <1>1, <1>2, <1>4, FoldAppends
<1>. QED BY <1>5, <1>6, <1>7 DEF A, u, v, more

-----------------------------------------------------------------------------
(* The series that a sample leaves.                                        *)

\* Hours follow the times of their entries.
LEMMA HoursFollowTime ==
  ASSUME NEW e \in Entries, NEW f \in Entries
  PROVE  HourOf(e) \in Int /\ (e.at <= f.at => HourOf(e) <= HourOf(f))
<1>. DEFINE d == HourTicks
            q == e.at \div d
            p == f.at \div d
<1>1. e.at \in Int /\ f.at \in Int /\ d \in Nat \ {0}
  BY HistoryConstants DEF Entries
<1>2. q \in Int /\ p \in Int
  BY <1>1
<1>3. d * q <= e.at /\ f.at < d * (p + 1)
  BY <1>1
<1>. HIDE DEF d, q, p
<1>4. ASSUME e.at <= f.at, p < q PROVE FALSE
  <2>1. p + 1 <= q
    BY <1>2, <1>4
  <2>2. d * (p + 1) <= d * q
    BY <1>1, <1>2, <2>1
  <2>. QED BY <1>1, <1>2, <1>3, <1>4, <2>2
<1>5. e.at <= f.at => q <= p
  BY <1>2, <1>4
<1>. QED BY <1>2, <1>5 DEF HourOf, d, q, p

\* The entries of the hour of a sample with the sample, and the others.
SampleHour(entries, sample) ==
  Sorted(Append(Only(entries, HourEntries(entries, sample)), sample))
SamplePeaks(entries, sample) == HourPeaks(SampleHour(entries, sample))
OtherEntries(entries, sample) == Only(entries, Range(entries) \ HourEntries(entries, sample))
AllEntries(entries, sample) ==
  Sorted(OtherEntries(entries, sample) \o SamplePeaks(entries, sample))
LastEntries(all) ==
  SubSeq(all, IF Len(all) > MaxSamples THEN Len(all) - MaxSamples + 1 ELSE 1, Len(all))

\* These are what replaces the entries.
LEMMA ReplacedByLast ==
  ASSUME NEW entries, NEW sample
  PROVE  ReplaceHourEntries(entries, sample) = LastEntries(AllEntries(entries, sample))
BY Zenon DEF ReplaceHourEntries, LastEntries, AllEntries, OtherEntries, SamplePeaks, SampleHour

\* The hour of a sample is in order and has its entries and the sample.
LEMMA SampleHourFacts ==
  ASSUME NEW entries \in Seq(Entries), NEW sample \in Entries
  PROVE  /\ SampleHour(entries, sample) \in Seq(Entries)
         /\ Ordered(SampleHour(entries, sample))
         /\ Range(SampleHour(entries, sample)) = HourEntries(entries, sample) \cup {sample}
         /\ OtherEntries(entries, sample) \in Seq(Entries)
         /\ Range(OtherEntries(entries, sample))
              = Range(entries) \ HourEntries(entries, sample)
<1>. DEFINE inHour == HourEntries(entries, sample)
            x == Only(entries, inHour)
            y == Append(x, sample)
<1>1. x \in Seq(Entries) /\ Range(x) = inHour
  <2>1. Range(entries) \cap inHour = inHour
    BY DEF HourEntries
  <2>. HIDE DEF inHour
  <2>. QED BY <2>1, OnlyFacts
<1>2. y \in Seq(Entries) /\ Range(y) = inHour \cup {sample}
  <2>. HIDE DEF x, inHour
  <2>. QED BY <1>1, RangeOfAppend
<1>3. Sorted(y) \in Seq(Entries) /\ Ordered(Sorted(y)) /\ Range(Sorted(y)) = Range(y)
  <2>. HIDE DEF y
  <2>. QED BY <1>2, SortedFacts
<1>. DEFINE rest == Range(entries) \ inHour
<1>4. Only(entries, rest) \in Seq(Entries) /\ Range(Only(entries, rest)) = rest
  <2>1. Range(entries) \cap rest = rest
    OBVIOUS
  <2>. HIDE DEF rest
  <2>. QED BY <2>1, OnlyFacts
<1>5. SampleHour(entries, sample) = Sorted(y) /\ OtherEntries(entries, sample) = Only(entries, rest)
  BY Zenon DEF SampleHour, OtherEntries
<1>. HIDE DEF y, rest, inHour
<1>. QED BY <1>2, <1>3, <1>4, <1>5 DEF inHour, rest

\* The peaks of that hour are one or two of its entries, in order.
LEMMA SamplePeaksFacts ==
  ASSUME NEW entries \in Seq(Entries), NEW sample \in Entries, NEW peaks,
         peaks = SamplePeaks(entries, sample)
  PROVE  /\ peaks \in Seq(Entries) /\ Len(peaks) \in {1, 2}
         /\ peaks[1] \in HourEntries(entries, sample) \cup {sample}
         /\ Len(peaks) = 2 => /\ peaks[2] \in HourEntries(entries, sample) \cup {sample}
                              /\ ~Earlier(peaks[2], peaks[1])
<1>. DEFINE hour == SampleHour(entries, sample)
            N == Len(hour)
<1>1. /\ hour \in Seq(Entries) /\ Ordered(hour)
      /\ Range(hour) = HourEntries(entries, sample) \cup {sample}
  BY SampleHourFacts
<1>2. peaks = HourPeaks(hour)
  BY Zenon DEF SamplePeaks
<1>. HIDE DEF hour
<1>3. peaks \in Seq(Entries) /\ Peaked(peaks, hour, N)
  BY <1>1, <1>2, HourPeaksFacts
<1>4. N \in Nat /\ DOMAIN hour = 1..N
  BY <1>1
<1>5. N # 0
  <2>1. SUFFICES ASSUME N = 0 PROVE FALSE
    OBVIOUS
  <2>2. DOMAIN hour = {}
    BY <1>4, <2>1
  <2>3. sample \in Range(hour)
    BY <1>1
  <2>. QED BY <2>2, <2>3 DEF Range
<1>6. \A p : Among(p, hour, N) => p \in Range(hour)
  BY <1>4 DEF Among, Range
<1>. QED BY <1>1, <1>3, <1>5, <1>6 DEF Peaked

\* A list of one or two is put behind another member by member.
LEMMA ConcatIsAppend ==
  ASSUME NEW B, NEW s \in Seq(B), NEW t \in Seq(B)
  PROVE  /\ Len(t) = 1 => s \o t = Append(s, t[1])
         /\ Len(t) = 2 => s \o t = Append(Append(s, t[1]), t[2])
<1>. DEFINE N == Len(s)
            j == s \o t
<1>1. j \in Seq(B) /\ Joined(j, s, t)
  BY ConcatFacts
<1>. HIDE DEF j
<1>2. /\ N \in Nat /\ Len(j) = N + Len(t) /\ \A i \in 1..N : j[i] = s[i]
      /\ \A i \in 1..Len(t) : j[N + i] = t[i]
  BY <1>1 DEF Joined
<1>3. \A i \in 1..Len(t) : t[i] \in B
  OBVIOUS
<1>4. ASSUME Len(t) = 1 PROVE j = Append(s, t[1])
  <2>. DEFINE m == Append(s, t[1])
  <2>1. 1 \in 1..Len(t) /\ t[1] \in B
    BY <1>3, <1>4
  <2>2. m \in Seq(B) /\ Len(m) = N + 1 /\ m[N + 1] = t[1] /\ \A i \in 1..N : m[i] = s[i]
    BY <2>1
  <2>3. Len(j) = N + 1 /\ j[N + 1] = t[1]
    BY <1>2, <1>4, <2>1
  <2>. HIDE DEF m
  <2>4. \A i \in 1..(N + 1) : j[i] = m[i]
    BY <1>2, <2>2, <2>3
  <2>5. j = m
    BY <1>1, <1>2, <2>2, <2>3, <2>4
  <2>. QED BY <2>5 DEF m
<1>5. ASSUME Len(t) = 2 PROVE j = Append(Append(s, t[1]), t[2])
  <2>. DEFINE m == Append(s, t[1])
              k == Append(m, t[2])
  <2>1. 1 \in 1..Len(t) /\ 2 \in 1..Len(t) /\ t[1] \in B /\ t[2] \in B
    BY <1>3, <1>5
  <2>2. m \in Seq(B) /\ Len(m) = N + 1 /\ m[N + 1] = t[1] /\ \A i \in 1..N : m[i] = s[i]
    BY <2>1
  <2>. HIDE DEF m
  <2>3. /\ k \in Seq(B) /\ Len(k) = N + 2 /\ k[N + 2] = t[2]
        /\ \A i \in 1..(N + 1) : k[i] = m[i]
    BY <1>2, <2>1, <2>2
  <2>4. Len(j) = N + 2 /\ j[N + 1] = t[1] /\ j[N + 2] = t[2]
    BY <1>2, <1>5, <2>1
  <2>. HIDE DEF k
  <2>5. \A i \in 1..(N + 2) : j[i] = k[i]
    <3>1. \A i \in 1..(N + 1) : j[i] = m[i]
      BY <1>2, <2>2, <2>4
    <3>. QED BY <1>2, <2>3, <2>4, <3>1, SMTT(30)
  <2>6. j = k
    BY <1>1, <1>2, <2>3, <2>4, <2>5
  <2>. QED BY <2>6 DEF k, m
<1>. QED BY <1>4, <1>5 DEF j

\* The peaks are inserted into the others one by one.
LEMMA PeaksAreInserted ==
  ASSUME NEW entries \in Seq(Entries), NEW sample \in Entries, NEW peaks,
         peaks = SamplePeaks(entries, sample), NEW others,
         others = Sorted(OtherEntries(entries, sample))
  PROVE  AllEntries(entries, sample) =
           IF Len(peaks) = 1 THEN Inserted(others, peaks[1])
           ELSE Inserted(Inserted(others, peaks[1]), peaks[2])
<1>. DEFINE o == OtherEntries(entries, sample)
            a == peaks[1]
            b == peaks[2]
<1>1. /\ peaks \in Seq(Entries) /\ Len(peaks) \in {1, 2} /\ a \in Entries
      /\ Len(peaks) = 2 => b \in Entries
  BY SamplePeaksFacts
<1>2. o \in Seq(Entries)
  BY SampleHourFacts
<1>3. AllEntries(entries, sample) = Sorted(o \o peaks) /\ others = Sorted(o)
  BY Zenon DEF AllEntries
<1>. HIDE DEF o
<1>4. CASE Len(peaks) = 1
  <2>1. o \o peaks = Append(o, a)
    BY <1>1, <1>2, <1>4, ConcatIsAppend
  <2>. HIDE DEF a
  <2>2. Sorted(o \o peaks) = Inserted(others, a)
    BY <1>1, <1>2, <1>3, <2>1, SortedAppends
  <2>. QED BY <1>3, <1>4, <2>2 DEF a
<1>5. CASE Len(peaks) = 2
  <2>. DEFINE oa == Append(o, a)
  <2>1. o \o peaks = Append(oa, b)
    BY <1>1, <1>2, <1>5, ConcatIsAppend
  <2>2. oa \in Seq(Entries)
    BY <1>1, <1>2
  <2>. HIDE DEF a, b, oa
  <2>3. Sorted(o \o peaks) = Inserted(Sorted(oa), b)
    BY <1>1, <1>5, <2>1, <2>2, SortedAppends
  <2>4. Sorted(oa) = Inserted(others, a)
    BY <1>1, <1>2, <1>3, SortedAppends DEF oa
  <2>. QED BY <1>3, <1>5, <2>3, <2>4 DEF a, b
<1>. QED BY <1>1, <1>4, <1>5

\* The others and the peaks are in order.
LEMMA AllEntriesFacts ==
  ASSUME NEW entries \in Seq(Entries), NEW sample \in Entries, NEW all,
         all = AllEntries(entries, sample), NEW peaks, peaks = SamplePeaks(entries, sample)
  PROVE  /\ all \in Seq(Entries) /\ Ordered(all) /\ Len(all) \in Nat \ {0}
         /\ Range(OtherEntries(entries, sample)) \cup {peaks[1]} \subseteq Range(all)
<1>. DEFINE o == OtherEntries(entries, sample)
            others == Sorted(o)
            first == Inserted(others, peaks[1])
            both == Inserted(first, peaks[2])
<1>1. /\ peaks \in Seq(Entries) /\ Len(peaks) \in {1, 2} /\ peaks[1] \in Entries
      /\ Len(peaks) = 2 => peaks[2] \in Entries
  BY SamplePeaksFacts
<1>2. o \in Seq(Entries)
  BY SampleHourFacts
<1>. HIDE DEF o
<1>3. others \in Seq(Entries) /\ Range(others) = Range(o) /\ Ordered(others)
  BY <1>2, SortedFacts
<1>4. all = IF Len(peaks) = 1 THEN first ELSE both
  BY PeaksAreInserted DEF o
<1>. HIDE DEF others
<1>5. /\ first \in Seq(Entries) /\ Len(first) = Len(others) + 1 /\ Ordered(first)
      /\ Range(first) = Range(o) \cup {peaks[1]}
  BY <1>1, <1>3, InsertedIsOrdered
<1>. HIDE DEF first
<1>6. Len(others) \in Nat /\ Len(first) \in Nat
  BY <1>3, <1>5
<1>7. CASE Len(peaks) = 1
  BY <1>4, <1>5, <1>6, <1>7 DEF o
<1>8. CASE Len(peaks) = 2
  <2>1. /\ both \in Seq(Entries) /\ Len(both) = Len(first) + 1 /\ Ordered(both)
        /\ Range(both) = Range(first) \cup {peaks[2]}
    BY <1>1, <1>5, <1>8, InsertedIsOrdered
  <2>. HIDE DEF both
  <2>. QED BY <1>4, <1>5, <1>6, <1>8, <2>1 DEF o
<1>. QED BY <1>1, <1>7, <1>8

\* r is what is left of a list without its first d members.
Behind(r, all, d) == Len(all) = Len(r) + d /\ \A i \in 1..Len(r) : r[i] = all[i + d]

\* The last entries are a tail of all of them.
LEMMA LastEntriesFacts ==
  ASSUME NEW all \in Seq(Entries), Len(all) \in Nat \ {0}, NEW r, r = LastEntries(all)
  PROVE  /\ r \in Seq(Entries) /\ Len(r) \in Nat \ {0} /\ Len(r) <= MaxSamples
         /\ r = all \/ Len(r) = MaxSamples
         /\ \E d \in Nat : Behind(r, all, d)
<1>. DEFINE N == Len(all)
            d == IF N > MaxSamples THEN N - MaxSamples ELSE 0
            m == IF N > MaxSamples THEN N - MaxSamples + 1 ELSE 1
<1>1. N \in Nat \ {0} /\ MaxSamples \in Nat \ {0}
  BY HistoryConstants
<1>2. d \in Nat /\ d < N /\ m = d + 1 /\ N - d <= MaxSamples /\ (d = 0 \/ N - d = MaxSamples)
  BY <1>1
<1>3. r = SubSeq(all, m, N)
  BY DEF LastEntries
<1>. HIDE DEF d, m
<1>4. r = SubSeq(all, d + 1, N)
  BY <1>2, <1>3
<1>5. /\ r \in Seq(Entries) /\ Len(r) = N - d
      /\ \A i \in 1..(N - d) : r[i] = all[i + d]
  BY <1>1, <1>2, <1>4
<1>6. Behind(r, all, d)
  BY <1>1, <1>2, <1>5 DEF Behind
<1>7. d = 0 => r = all
  <2>1. ASSUME d = 0 PROVE Len(r) = N /\ \A i \in 1..N : r[i] = all[i]
    BY <1>1, <1>5, <2>1
  <2>. QED BY <1>5, <2>1
<1>. QED BY <1>1, <1>2, <1>5, <1>6, <1>7

\* No hour is lost, except beyond the limit.
LEMMA ReplaceKeepsHours ==
  ASSUME NEW entries \in Seq(Entries), NEW sample \in Entries, NEW r,
         r = ReplaceHourEntries(entries, sample)
  PROVE  /\ r \in Seq(Entries)
         /\ Hours(entries) \subseteq Hours(r) \/ Len(r) = MaxSamples
<1>. DEFINE all == AllEntries(entries, sample)
            peaks == SamplePeaks(entries, sample)
            o == OtherEntries(entries, sample)
            inHour == HourEntries(entries, sample)
<1>1. r = LastEntries(all)
  BY ReplacedByLast
<1>2. peaks[1] \in inHour \cup {sample}
  BY SamplePeaksFacts
<1>3. Range(o) = Range(entries) \ inHour
  BY SampleHourFacts
<1>4. /\ all \in Seq(Entries) /\ Len(all) \in Nat \ {0}
      /\ Range(o) \cup {peaks[1]} \subseteq Range(all)
  BY AllEntriesFacts
<1>5. inHour = {e \in Range(entries) : HourOf(e) = HourOf(sample)}
  BY DEF HourEntries
<1>. HIDE DEF all, peaks, o, inHour
<1>6. r \in Seq(Entries) /\ (r = all \/ Len(r) = MaxSamples)
  BY <1>1, <1>4, LastEntriesFacts
<1>7. ASSUME r = all PROVE Hours(entries) \subseteq Hours(r)
  <2>1. SUFFICES ASSUME NEW i \in DOMAIN entries
                 PROVE  \E f \in Range(all) : HourOf(f) = HourOf(entries[i])
    BY <1>7, Zenon DEF Hours, Range
  <2>2. entries[i] \in Range(entries)
    BY DEF Range
  <2>3. CASE entries[i] \in inHour
    BY <1>2, <1>4, <1>5, <2>3
  <2>4. CASE entries[i] \notin inHour
    BY <1>3, <1>4, <2>2, <2>4
  <2>. QED BY <2>3, <2>4
<1>. QED BY <1>6, <1>7

\* What replaces the entries is in order and within the limit.
LEMMA ReplaceKeepsOrder ==
  ASSUME NEW entries \in Seq(Entries), NEW sample \in Entries, NEW r,
         r = ReplaceHourEntries(entries, sample)
  PROVE  Len(r) <= MaxSamples /\ Ordered(r)
<1>. DEFINE all == AllEntries(entries, sample)
            peaks == SamplePeaks(entries, sample)
<1>1. r = LastEntries(all)
  BY ReplacedByLast
<1>2. all \in Seq(Entries) /\ Len(all) \in Nat \ {0} /\ Ordered(all)
  BY AllEntriesFacts
<1>. HIDE DEF all, peaks
<1>3. r \in Seq(Entries) /\ Len(r) <= MaxSamples
  BY <1>1, <1>2, LastEntriesFacts
<1>4. PICK d \in Nat : Behind(r, all, d)
  BY <1>1, <1>2, LastEntriesFacts
<1>5. /\ DOMAIN r = 1..Len(r) /\ DOMAIN all = 1..Len(all) /\ Len(all) = Len(r) + d
      /\ Len(r) \in Nat /\ \A i \in 1..Len(r) : r[i] = all[i + d]
  BY <1>2, <1>3, <1>4 DEF Behind
<1>6. ASSUME NEW i \in DOMAIN r, NEW j \in DOMAIN r, i < j PROVE ~Earlier(r[j], r[i])
  <2>1. i + d \in DOMAIN all /\ j + d \in DOMAIN all /\ i + d < j + d
    BY <1>5, <1>6
  <2>2. ~Earlier(all[j + d], all[i + d])
    BY <1>2, <2>1 DEF Ordered
  <2>. QED BY <1>5, <2>2
<1>. QED BY <1>3, <1>6 DEF Ordered

\* An entry that is inserted has a place of its own, and the others keep theirs.
LEMMA InsertedPlaces ==
  ASSUME NEW s \in Seq(Entries), NEW e \in Entries, NEW hour
  PROVE  \E k \in Nat : \A i \in HourPlaces(Inserted(s, e), hour) :
           i = k \/ \E j \in HourPlaces(s, hour) : i = IF j < k THEN j ELSE j + 1
<1>. DEFINE r == Inserted(s, e)
            N == Len(s)
<1>1. r \in Seq(Entries)
  BY InsertedFacts
<1>2. PICK k \in 1..(N + 1) : Grown(r, s, e, k)
  BY InsertedFacts
<1>. HIDE DEF r
<1>3. /\ N \in Nat /\ k \in Nat /\ DOMAIN s = 1..N /\ DOMAIN r = 1..(N + 1)
      /\ (\A i \in 1..(k - 1) : r[i] = s[i]) /\ (\A i \in k..N : r[i + 1] = s[i])
  BY <1>1, <1>2 DEF Grown
<1>4. ASSUME NEW i \in HourPlaces(r, hour), i # k
      PROVE  \E j \in HourPlaces(s, hour) : i = IF j < k THEN j ELSE j + 1
  <2>1. i \in 1..(N + 1) /\ HourOf(r[i]) = hour
    BY <1>3 DEF HourPlaces
  <2>2. CASE i < k
    <3>1. i \in DOMAIN s /\ r[i] = s[i]
      BY <1>3, <2>1, <2>2
    <3>. QED BY <2>1, <2>2, <3>1 DEF HourPlaces
  <2>3. CASE i > k
    <3>1. i - 1 \in DOMAIN s /\ r[i] = s[i - 1] /\ ~(i - 1 < k) /\ i = (i - 1) + 1
      <4>1. i - 1 \in k..N /\ i = (i - 1) + 1
        BY <1>3, <2>1, <2>3
      <4>. QED BY <1>3, <4>1
    <3>2. i - 1 \in HourPlaces(s, hour)
      BY <2>1, <3>1 DEF HourPlaces
    <3>. QED BY <3>1, <3>2
  <2>. QED BY <1>3, <1>4, <2>1, <2>2, <2>3
<1>. QED BY <1>3, <1>4 DEF r

\* A set with two members at most.
LEMMA TwoAtMost ==
  ASSUME NEW S, NEW a, NEW b, S \subseteq {a, b}
  PROVE  Cardinality(S) <= 2
<1>1. IsFiniteSet({a}) /\ Cardinality({a}) = 1
  BY FS_Singleton
<1>2. {a, b} = {a} \cup {b}
  OBVIOUS
<1>3. IsFiniteSet({a, b}) /\ Cardinality({a, b}) <= 2
  BY <1>1, <1>2, FS_AddElement
<1>4. IsFiniteSet(S) /\ Cardinality(S) <= Cardinality({a, b})
  BY <1>3, FS_Subset
<1>5. Cardinality(S) \in Nat /\ Cardinality({a, b}) \in Nat
  BY <1>3, <1>4, FS_CardinalityType
<1>. QED BY <1>3, <1>4, <1>5

\* The hour of a sample has two peaks at most.
LEMMA ReplaceKeepsTwoPeaks ==
  ASSUME NEW entries \in Seq(Entries), NEW sample \in Entries, NEW r,
         r = ReplaceHourEntries(entries, sample)
  PROVE  Cardinality(HourPlaces(r, HourOf(sample))) <= 2
<1>. DEFINE all == AllEntries(entries, sample)
            peaks == SamplePeaks(entries, sample)
            o == OtherEntries(entries, sample)
            others == Sorted(o)
            first == Inserted(others, peaks[1])
            both == Inserted(first, peaks[2])
            hour == HourOf(sample)
<1>1. r = LastEntries(all)
  BY ReplacedByLast
<1>2. /\ peaks \in Seq(Entries) /\ Len(peaks) \in {1, 2} /\ peaks[1] \in Entries
      /\ Len(peaks) = 2 => peaks[2] \in Entries
  BY SamplePeaksFacts
<1>3. others \in Seq(Entries) /\ HourPlaces(others, hour) = {}
  <2>1. o \in Seq(Entries) /\ Range(o) = Range(entries) \ HourEntries(entries, sample)
    BY SampleHourFacts
  <2>2. others \in Seq(Entries) /\ Range(others) = Range(o)
    <3>. HIDE DEF o
    <3>. QED BY <2>1, SortedFacts
  <2>3. \A f \in Range(others) : HourOf(f) # hour
    BY <2>1, <2>2 DEF HourEntries
  <2>. HIDE DEF others, hour
  <2>. QED BY <2>2, <2>3 DEF HourPlaces, Range
<1>4. all = IF Len(peaks) = 1 THEN first ELSE both
  BY PeaksAreInserted
<1>5. all \in Seq(Entries) /\ Len(all) \in Nat \ {0}
  BY AllEntriesFacts
<1>. HIDE DEF all, peaks, o, others, hour
<1>6. first \in Seq(Entries)
  BY <1>2, <1>3, InsertedIsOrdered
<1>7. PICK k \in Nat : \A i \in HourPlaces(first, hour) : i = k
  BY <1>2, <1>3, InsertedPlaces
<1>. HIDE DEF first
<1>8. \E a, b \in Int : HourPlaces(all, hour) \subseteq {a, b}
  <2>1. CASE Len(peaks) = 1
    BY <1>4, <1>7, <2>1
  <2>2. CASE Len(peaks) = 2
    <3>1. PICK m \in Nat : \A i \in HourPlaces(both, hour) :
            i = m \/ \E j \in HourPlaces(first, hour) : i = IF j < m THEN j ELSE j + 1
      BY <1>2, <1>6, <2>2, InsertedPlaces
    <3>. HIDE DEF both
    <3>2. HourPlaces(both, hour) \subseteq {m, IF k < m THEN k ELSE k + 1}
      BY <1>7, <3>1
    <3>. QED BY <1>4, <2>2, <3>2
  <2>. QED BY <1>2, <2>1, <2>2
<1>9. PICK a \in Int, b \in Int : HourPlaces(all, hour) \subseteq {a, b}
  BY <1>8
<1>10. r \in Seq(Entries) /\ \E d \in Nat : Behind(r, all, d)
  BY <1>1, <1>5, LastEntriesFacts
<1>11. PICK d \in Nat : Behind(r, all, d)
  BY <1>10
<1>12. ASSUME NEW i \in HourPlaces(r, hour) PROVE i \in {a - d, b - d}
  <2>1. /\ i \in 1..Len(r) /\ HourOf(r[i]) = hour /\ Len(r) \in Nat
        /\ Len(all) = Len(r) + d /\ r[i] = all[i + d]
    BY <1>10, <1>11, SMTT(30) DEF HourPlaces, Behind
  <2>2. i + d \in DOMAIN all
    BY <1>5, <2>1
  <2>3. i + d \in HourPlaces(all, hour)
    BY <2>1, <2>2 DEF HourPlaces
  <2>4. i + d = a \/ i + d = b
    BY <1>9, <2>3
  <2>. QED BY <2>1, <2>4
<1>13. HourPlaces(r, hour) \subseteq {a - d, b - d}
  BY <1>12
<1>14. Cardinality(HourPlaces(r, hour)) <= 2
  BY <1>13, TwoAtMost
<1>. QED BY <1>14 DEF hour

\* The last peak after a step.
LEMMA LastPeak ==
  ASSUME NEW peaks \in Seq(Entries), NEW e \in Entries, NEW next, next = NextPeaks(peaks, e)
  PROVE  /\ peaks = <<>> => next[Len(next)] = e
         /\ Len(peaks) \in {1, 2} =>
              next[Len(next)] = IF StartsResetSegment(peaks[Len(peaks)], e) THEN e
                                ELSE SegmentPeak(peaks[Len(peaks)], e)
<1>1. \A a : <<a>>[Len(<<a>>)] = a
  OBVIOUS
<1>2. \A a, b : <<a, b>>[Len(<<a, b>>)] = b
  OBVIOUS
<1>3. ASSUME peaks = <<>> PROVE next[Len(next)] = e
  <2>1. next = <<e>>
    BY <1>3, NextPeaksFacts
  <2>. QED BY <2>1
<1>4. ASSUME Len(peaks) = 1
      PROVE  next[Len(next)] = IF StartsResetSegment(peaks[1], e) THEN e
                               ELSE SegmentPeak(peaks[1], e)
  <2>1. next = IF StartsResetSegment(peaks[1], e) THEN <<peaks[1], e>>
               ELSE <<SegmentPeak(peaks[1], e)>>
    BY <1>4, NextPeaksFacts
  <2>2. CASE StartsResetSegment(peaks[1], e)
    <3>1. next = <<peaks[1], e>>
      BY <2>1, <2>2
    <3>. QED BY <1>2, <2>2, <3>1
  <2>3. CASE ~StartsResetSegment(peaks[1], e)
    <3>1. next = <<SegmentPeak(peaks[1], e)>>
      BY <2>1, <2>3
    <3>. QED BY <1>1, <2>3, <3>1
  <2>. QED BY <2>2, <2>3
<1>5. ASSUME Len(peaks) = 2
      PROVE  next[Len(next)] = IF StartsResetSegment(peaks[2], e) THEN e
                               ELSE SegmentPeak(peaks[2], e)
  <2>1. next = IF StartsResetSegment(peaks[2], e) THEN <<peaks[1], e>>
               ELSE <<peaks[1], SegmentPeak(peaks[2], e)>>
    BY <1>5, NextPeaksFacts
  <2>2. CASE StartsResetSegment(peaks[2], e)
    <3>1. next = <<peaks[1], e>>
      BY <2>1, <2>2
    <3>. QED BY <1>2, <2>2, <3>1
  <2>3. CASE ~StartsResetSegment(peaks[2], e)
    <3>1. next = <<peaks[1], SegmentPeak(peaks[2], e)>>
      BY <2>1, <2>3
    <3>. QED BY <1>2, <2>3, <3>1
  <2>. QED BY <2>2, <2>3
<1>. QED BY <1>3, <1>4, <1>5

\* The last peak of an hour is of the sample's segment, as high as the sample and
\* as high as an active entry of its segment, if the sample is the latest.
LEMMA LastPeakIsHigh ==
  ASSUME NEW entries \in Seq(Entries), NEW sample \in Entries,
         \A i \in DOMAIN entries : Earlier(entries[i], sample),
         NEW peaks, peaks = SamplePeaks(entries, sample), NEW last, last = peaks[Len(peaks)]
  PROVE  /\ ~StartsResetSegment(last, sample) /\ last.used >= sample.used
         /\ \A i \in HourPlaces(entries, HourOf(sample)) :
              Active(entries, HourOf(sample), i) /\ ~StartsResetSegment(entries[i], sample) =>
                last.used >= entries[i].used
<1>. DEFINE inHour == HourEntries(entries, sample)
            hour == HourOf(sample)
            x == Only(entries, inHour)
            y == Sorted(x)
            u == HourPeaks(y)
<1>1. x \in Seq(Entries) /\ Range(x) = inHour
  <2>1. Range(entries) \cap inHour = inHour
    BY DEF HourEntries
  <2>. HIDE DEF inHour
  <2>. QED BY <2>1, OnlyFacts
<1>2. inHour = {entries[i] : i \in HourPlaces(entries, hour)}
  <2>1. inHour = {e \in Range(entries) : HourOf(e) = hour}
    BY DEF HourEntries
  <2>. HIDE DEF inHour, hour
  <2>. QED BY <2>1 DEF HourPlaces, Range
<1>3. peaks = HourPeaks(Sorted(Append(x, sample)))
  BY Zenon DEF SamplePeaks, SampleHour
<1>. HIDE DEF x
<1>4. y \in Seq(Entries) /\ Range(y) = inHour /\ Ordered(y)
  BY <1>1, SortedFacts
<1>5. Sorted(Append(x, sample)) = Inserted(y, sample)
  BY <1>1, SortedAppends
<1>6. \A f \in inHour : ~Earlier(sample, f)
  <2>1. \A f \in Range(entries) : f \in Entries /\ Earlier(f, sample)
    BY DEF Range
  <2>2. \A f \in inHour : f \in Range(entries)
    BY DEF HourEntries
  <2>. HIDE DEF inHour
  <2>. QED BY <2>1, <2>2, EarlierIsWeakOrder
<1>. HIDE DEF y, inHour, hour
<1>7. Inserted(y, sample) = Append(y, sample)
  BY <1>4, <1>6, InsertedLast
<1>8. u \in Seq(Entries) /\ HourPeaks(Append(y, sample)) = NextPeaks(u, sample)
  BY <1>4, HourPeaksAppends
<1>9. peaks = NextPeaks(u, sample)
  BY <1>3, <1>5, <1>7, <1>8
<1>10. Peaked(u, y, Len(y)) /\ Led(u, y, Len(y)) /\ Len(y) \in Nat /\ DOMAIN y = 1..Len(y)
  BY <1>4, HourPeaksFacts
<1>. HIDE DEF u
<1>11. ~StartsResetSegment(sample, sample)
  BY HistoryConstants DEF StartsResetSegment, Distance, Entries
<1>12. ASSUME NEW e \in Entries
       PROVE  LET p == SegmentPeak(e, sample)
              IN p \in {e, sample} /\ p.used >= e.used /\ p.used >= sample.used
  BY DEF SegmentPeak, Entries
<1>13. CASE Len(y) = 0
  <2>1. u = <<>>
    BY <1>10, <1>13 DEF Peaked
  <2>2. last = sample
    BY <1>8, <1>9, <2>1, LastPeak
  <2>3. HourPlaces(entries, hour) = {}
    <3>1. Range(y) = {}
      BY <1>10, <1>13 DEF Range
    <3>. QED BY <1>2, <1>4, <3>1
  <2>4. last.used >= sample.used
    BY <2>2 DEF Entries
  <2>. QED BY <1>11, <2>2, <2>3, <2>4 DEF hour
<1>14. CASE Len(y) # 0
  <2>. DEFINE l == u[Len(u)]
  <2>1. Len(u) \in {1, 2} /\ l \in Entries
    BY <1>8, <1>10, <1>14 DEF Peaked
  <2>2. last = IF StartsResetSegment(l, sample) THEN sample ELSE SegmentPeak(l, sample)
    BY <1>8, <1>9, <2>1, LastPeak
  <2>3. ASSUME NEW i \in HourPlaces(entries, hour), Active(entries, hour, i)
        PROVE  l = entries[i]
    <3>1. entries[i] \in Range(y)
      BY <1>2, <1>4
    <3>2. PICK m \in 1..Len(y) : y[m] = entries[i]
      BY <1>10, <3>1 DEF Range
    <3>3. ASSUME NEW k \in DOMAIN y, y[k] # entries[i]
          PROVE  Earlier(y[k], entries[i]) /\ StartsResetSegment(y[k], entries[i])
      <4>1. y[k] \in inHour
        BY <1>4 DEF Range
      <4>2. PICK j \in HourPlaces(entries, hour) : y[k] = entries[j]
        BY <1>2, <4>1
      <4>3. j # i
        BY <3>3, <4>2
      <4>. QED BY <2>3, <4>2, <4>3 DEF Active
    <3>4. Leads(y[m], y)
      BY <3>2, <3>3 DEF Leads
    <3>. QED BY <1>10, <3>2, <3>4 DEF Led
  <2>. HIDE DEF l
  <2>4. sample.used \in Int
    BY DEF Entries
  <2>5. ~StartsResetSegment(last, sample) /\ last.used >= sample.used
    <3>1. CASE StartsResetSegment(l, sample)
      BY <1>11, <2>2, <2>4, <3>1
    <3>2. CASE ~StartsResetSegment(l, sample)
      <4>1. last = SegmentPeak(l, sample)
        BY <2>2, <3>2
      <4>2. last \in {l, sample} /\ last.used >= sample.used
        BY <1>12, <2>1, <4>1
      <4>. QED BY <1>11, <3>2, <4>2
    <3>. QED BY <3>1, <3>2
  <2>6. ASSUME NEW i \in HourPlaces(entries, hour), Active(entries, hour, i),
               ~StartsResetSegment(entries[i], sample)
        PROVE  last.used >= entries[i].used
    <3>1. l = entries[i]
      BY <2>3, <2>6
    <3>2. last = SegmentPeak(l, sample)
      BY <2>2, <2>6, <3>1
    <3>. QED BY <1>12, <2>1, <3>1, <3>2
  <2>. QED BY <2>5, <2>6 DEF hour
<1>. QED BY <1>13, <1>14

\* If the sample is the latest, that peak is the last entry of the series.
LEMMA LastPeakIsLast ==
  ASSUME NEW entries \in Seq(Entries), NEW sample \in Entries,
         \A i \in DOMAIN entries : Earlier(entries[i], sample),
         NEW peaks, peaks = SamplePeaks(entries, sample),
         NEW r, r = ReplaceHourEntries(entries, sample)
  PROVE  /\ Len(r) \in HourPlaces(r, HourOf(sample))
         /\ r[Len(r)] = peaks[Len(peaks)]
<1>. DEFINE all == AllEntries(entries, sample)
            o == OtherEntries(entries, sample)
            others == Sorted(o)
            first == Inserted(others, peaks[1])
            both == Inserted(first, peaks[2])
            inHour == HourEntries(entries, sample)
            hour == HourOf(sample)
            last == peaks[Len(peaks)]
<1>1. r = LastEntries(all)
  BY ReplacedByLast
<1>2. /\ peaks \in Seq(Entries) /\ Len(peaks) \in {1, 2} /\ peaks[1] \in Entries
      /\ peaks[1] \in inHour \cup {sample}
      /\ Len(peaks) = 2 => /\ peaks[2] \in Entries /\ peaks[2] \in inHour \cup {sample}
                           /\ ~Earlier(peaks[2], peaks[1])
  <2>1. /\ peaks \in Seq(Entries) /\ Len(peaks) \in {1, 2} /\ peaks[1] \in inHour \cup {sample}
        /\ Len(peaks) = 2 => /\ peaks[2] \in inHour \cup {sample}
                             /\ ~Earlier(peaks[2], peaks[1])
    BY SamplePeaksFacts
  <2>2. peaks[1] \in Entries /\ (Len(peaks) = 2 => peaks[2] \in Entries)
    BY <2>1
  <2>. QED BY <2>1, <2>2
<1>3. all \in Seq(Entries) /\ Len(all) \in Nat \ {0}
  BY AllEntriesFacts
<1>4. all = IF Len(peaks) = 1 THEN first ELSE both
  BY PeaksAreInserted
<1>5. o \in Seq(Entries) /\ Range(o) = Range(entries) \ inHour
  BY SampleHourFacts
<1>6. \A f \in Range(entries) : f \in Entries /\ f.at <= sample.at
  <2>1. \A f \in Range(entries) : f \in Entries /\ Earlier(f, sample)
    BY DEF Range
  <2>. QED BY <2>1, EarlierIsWeakOrder
<1>7. inHour = {e \in Range(entries) : HourOf(e) = hour}
  BY DEF HourEntries
<1>8. \A e \in inHour \cup {sample} : e \in Entries /\ HourOf(e) = hour
  BY <1>6, <1>7
<1>. HIDE DEF all, o, inHour, hour
<1>9. others \in Seq(Entries) /\ Range(others) = Range(o)
  BY <1>5, SortedFacts
<1>. HIDE DEF others
<1>10. ASSUME NEW e \in inHour \cup {sample}, NEW f \in Range(others) PROVE ~Earlier(e, f)
  <2>1. f \in Entries /\ e \in Entries /\ sample \in Entries
    BY <1>5, <1>6, <1>8, <1>9
  <2>2. HourOf(f) <= hour /\ HourOf(f) # hour /\ HourOf(e) = hour
    <3>1. HourOf(f) # hour /\ f.at <= sample.at
      BY <1>5, <1>6, <1>7, <1>9
    <3>2. HourOf(f) <= HourOf(sample)
      BY <2>1, <3>1, HoursFollowTime
    <3>. QED BY <1>8, <3>1, <3>2
  <2>3. HourOf(f) \in Int /\ HourOf(e) \in Int
    BY <2>1, HoursFollowTime
  <2>4. ~(e.at <= f.at)
    BY <2>1, <2>2, <2>3, HoursFollowTime
  <2>5. e.at \in Int /\ f.at \in Int
    BY <2>1 DEF Entries
  <2>. QED BY <2>4, <2>5 DEF Earlier
<1>11. first = Append(others, peaks[1])
  BY <1>2, <1>9, <1>10, InsertedLast
<1>12. all[Len(all)] = last
  <2>1. CASE Len(peaks) = 1
    <3>1. last = peaks[1]
      BY <2>1
    <3>2. all = first
      BY <1>4, <2>1
    <3>. HIDE DEF last
    <3>. QED BY <1>2, <1>9, <1>11, <3>1, <3>2
  <2>2. CASE Len(peaks) = 2
    <3>1. first \in Seq(Entries) /\ Range(first) = Range(others) \cup {peaks[1]}
      BY <1>2, <1>9, InsertedIsOrdered
    <3>. HIDE DEF first
    <3>2. both = Append(first, peaks[2])
      BY <1>2, <1>10, <2>2, <3>1, InsertedLast
    <3>3. last = peaks[2] /\ all = both
      BY <1>2, <1>4, <2>2
    <3>. HIDE DEF last
    <3>. QED BY <1>2, <2>2, <3>1, <3>2, <3>3
  <2>. QED BY <1>2, <2>1, <2>2
<1>13. last \in inHour \cup {sample}
  BY <1>2
<1>. HIDE DEF last
<1>14. HourOf(last) = hour
  BY <1>8, <1>13
<1>15. /\ r \in Seq(Entries) /\ Len(r) \in Nat \ {0}
       /\ \E d \in Nat : Behind(r, all, d)
  BY <1>1, <1>3, LastEntriesFacts
<1>16. PICK d \in Nat : Behind(r, all, d)
  BY <1>15
<1>17. r[Len(r)] = last /\ Len(r) \in DOMAIN r
  <2>1. Len(r) \in 1..Len(r) /\ Len(r) \in DOMAIN r
    BY <1>15
  <2>. QED BY <1>12, <1>16, <2>1 DEF Behind
<1>18. Len(r) \in HourPlaces(r, hour)
  BY <1>14, <1>17 DEF HourPlaces
<1>. QED BY <1>17, <1>18 DEF last, hour

-----------------------------------------------------------------------------
(* The series of an account.                                               *)

SeriesOf == [window : {"session", "nearly a session", "week"}, entries : Seq(Entries)]

\* The steps of Merged.
Adding == [p \in Seq(Entries) \X Entries |-> AddNew(p[1], p[2])]

\* Two series are merged to entries.
LEMMA MergedStays ==
  ASSUME NEW kept \in Seq(Entries), NEW s \in SeriesOf
  PROVE  Merged(kept, s) \in Seq(Entries)
<1>. DEFINE A == Seq(Entries)
            list == s.entries
            Step(f) == [t \in SUBSET DOMAIN list |->
              IF t = {} THEN kept ELSE LET i == Max(t) IN AddNew(f[t \ {i}], list[i])]
            iter == CHOOSE f : f = Step(f)
            G == Adding
<1>1. Merged(kept, s) = iter[DOMAIN list]
  BY Zenon DEF Merged, FoldLeft, MapThenFoldSet
<1>2. kept \in A /\ G \in [A \X Entries -> A] /\ list \in A
  <2>1. ASSUME NEW a \in A, NEW e \in Entries PROVE AddNew(a, e) \in A
    <3>1. Append(a, e) \in A
      OBVIOUS
    <3>. HIDE DEF A
    <3>. QED BY <3>1 DEF AddNew
  <2>2. list \in A
    BY DEF SeriesOf
  <2>3. G \in [A \X Entries -> A]
    <3>. HIDE DEF A, list
    <3>. QED BY <2>1 DEF Adding, A
  <2>. QED BY <2>2, <2>3
<1>3. ASSUME NEW a \in A, NEW e \in Entries PROVE G[<<a, e>>] = AddNew(a, e)
  BY DEF Adding
<1>. HIDE DEF G, A, list
<1>4. iter = Step(iter)
  <2>1. PICK f : /\ f = [t \in SUBSET DOMAIN list |-> f[t]]
                 /\ f[{}] = kept
                 /\ \A t \in SUBSET DOMAIN list : t # {} =>
                      /\ f[t] = G[<<f[t \ {Max(t)}], list[Max(t)]>>]
                      /\ f[t \ {Max(t)}] \in A /\ list[Max(t)] \in Entries
    BY <1>2, FoldExists, ZenonT(40) DEF A
  <2>2. f = Step(f)
    BY <1>3, <2>1
  <2>. QED BY <2>2
<1>. HIDE DEF iter
<1>5. /\ iter[{}] = kept
      /\ \A t \in SUBSET DOMAIN list : t # {} =>
           iter[t] = AddNew(iter[t \ {Max(t)}], list[Max(t)])
  BY <1>4
<1>6. \A t \in SUBSET DOMAIN list : t # {} =>
        (iter[t \ {Max(t)}] \in A /\ list[Max(t)] \in Entries =>
           iter[t] = G[<<iter[t \ {Max(t)}], list[Max(t)]>>])
  BY <1>3, <1>5
<1>7. Obeys(iter, A, G, kept, list)
  BY <1>2, <1>5, <1>6, FoldObeys DEF A
<1>8. LeadsTo(iter[DOMAIN list], A, G, kept, list)
  BY <1>2, <1>7, FoldFollows DEF A
<1>9. iter[DOMAIN list] \in A
  BY <1>2, <1>8, FoldStays DEF A
<1>. QED BY <1>1, <1>9 DEF A

\* The entries of a series with those of others.
MergedSeries(entries, others) == FoldLeft(Merged, entries, others)
Merging == [p \in Seq(Entries) \X SeriesOf |-> Merged(p[1], p[2])]

\* Series are merged to entries; one alone is left as it is.
LEMMA MergedSeriesFacts ==
  ASSUME NEW entries \in Seq(Entries), NEW list \in Seq(SeriesOf)
  PROVE  /\ MergedSeries(entries, list) \in Seq(Entries)
         /\ list = <<>> => MergedSeries(entries, list) = entries
<1>. DEFINE A == Seq(Entries)
            Step(f) == [t \in SUBSET DOMAIN list |->
              IF t = {} THEN entries ELSE LET i == Max(t) IN Merged(f[t \ {i}], list[i])]
            iter == CHOOSE f : f = Step(f)
            G == Merging
<1>1. MergedSeries(entries, list) = iter[DOMAIN list]
  BY Zenon DEF MergedSeries, FoldLeft, MapThenFoldSet
<1>2. entries \in A /\ G \in [A \X SeriesOf -> A]
  BY MergedStays DEF Merging
<1>3. ASSUME NEW a \in A, NEW e \in SeriesOf PROVE G[<<a, e>>] = Merged(a, e)
  BY DEF Merging
<1>. HIDE DEF G, A
<1>4. iter = Step(iter)
  <2>1. PICK f : /\ f = [t \in SUBSET DOMAIN list |-> f[t]]
                 /\ f[{}] = entries
                 /\ \A t \in SUBSET DOMAIN list : t # {} =>
                      /\ f[t] = G[<<f[t \ {Max(t)}], list[Max(t)]>>]
                      /\ f[t \ {Max(t)}] \in A /\ list[Max(t)] \in SeriesOf
    BY <1>2, FoldExists, ZenonT(40)
  <2>2. f = Step(f)
    BY <1>3, <2>1
  <2>. QED BY <2>2
<1>. HIDE DEF iter
<1>5. /\ iter[{}] = entries
      /\ \A t \in SUBSET DOMAIN list : t # {} =>
           iter[t] = Merged(iter[t \ {Max(t)}], list[Max(t)])
  BY <1>4
<1>6. \A t \in SUBSET DOMAIN list : t # {} =>
        (iter[t \ {Max(t)}] \in A /\ list[Max(t)] \in SeriesOf =>
           iter[t] = G[<<iter[t \ {Max(t)}], list[Max(t)]>>])
  BY <1>3, <1>5
<1>7. Obeys(iter, A, G, entries, list)
  BY <1>5, <1>6, FoldObeys
<1>8. LeadsTo(iter[DOMAIN list], A, G, entries, list)
  BY <1>2, <1>7, FoldFollows
<1>9. iter[DOMAIN list] \in A
  BY <1>2, <1>8, FoldStays
<1>10. list = <<>> => DOMAIN list = {}
  OBVIOUS
<1>. QED BY <1>1, <1>5, <1>9, <1>10 DEF A

\* The entries of the sessions of an account are entries.
LEMMA SeriesEntriesStay ==
  ASSUME NEW bucket \in Seq(SeriesOf)
  PROVE  SeriesEntries(bucket) \in Seq(Entries)
<1>. DEFINE same == Only(bucket, Sessions(bucket))
<1>1. same \in Seq(SeriesOf)
  BY OnlyFacts
<1>2. SeriesEntries(bucket) =
        IF same = <<>> THEN <<>> ELSE MergedSeries(Head(same).entries, Tail(same))
  BY Zenon DEF SeriesEntries, MergedSeries
<1>. HIDE DEF same
<1>3. CASE same # <<>>
  <2>1. Head(same) \in SeriesOf /\ Tail(same) \in Seq(SeriesOf)
    BY <1>1, <1>3
  <2>2. Head(same).entries \in Seq(Entries)
    BY <2>1 DEF SeriesOf
  <2>. QED BY <1>2, <1>3, <2>1, <2>2, MergedSeriesFacts
<1>. QED BY <1>2, <1>3

\* A list of nothing.
LEMMA NothingInRange ==
  ASSUME NEW B, NEW list \in Seq(B), Range(list) = {}
  PROVE  list = <<>>
<1>1. DOMAIN list = 1..Len(list) /\ Len(list) \in Nat
  OBVIOUS
<1>2. DOMAIN list = {}
  BY DEF Range
<1>3. Len(list) = 0
  BY <1>1, <1>2
<1>. QED BY <1>3

\* What is recorded for an account is what its sessions are then, and the other
\* series of the account stay.
LEMMA RecordedFacts ==
  ASSUME NEW bucket \in Seq(SeriesOf), NEW sample \in Entries,
         NEW after, after = Recorded(bucket, sample)
  PROVE  /\ after \in Seq(SeriesOf)
         /\ SeriesEntries(after) = ReplaceHourEntries(SeriesEntries(bucket), sample)
         /\ \A s \in Range(bucket) : s.window = "week" => s \in Range(after)
<1>. DEFINE entries == ReplaceHourEntries(SeriesEntries(bucket), sample)
            new == Series("session", entries)
            rest == Only(bucket, Range(bucket) \ Sessions(bucket))
            none == Only(rest, {new})
            same == Only(after, {new})
<1>1. entries \in Seq(Entries)
  BY SeriesEntriesStay, ReplaceKeepsHours
<1>2. after = Append(rest, new)
  BY Zenon DEF Recorded
<1>3. rest \in Seq(SeriesOf) /\ Range(rest) = Range(bucket) \ Sessions(bucket)
  <2>. DEFINE others == Range(bucket) \ Sessions(bucket)
  <2>1. Range(bucket) \cap others = others
    OBVIOUS
  <2>. HIDE DEF others
  <2>2. Only(bucket, others) \in Seq(SeriesOf) /\ Range(Only(bucket, others)) = others
    BY <2>1, OnlyFacts
  <2>. QED BY <2>2 DEF others
<1>. HIDE DEF entries
<1>4. new \in SeriesOf /\ new.window = "session" /\ new.entries = entries
  BY <1>1 DEF Series, SeriesOf
<1>5. CanonicalMinutes(new.window) = "session"
  BY <1>4 DEF CanonicalMinutes
<1>. HIDE DEF new, rest
<1>6. after \in Seq(SeriesOf) /\ Range(after) = Range(rest) \cup {new}
  BY <1>2, <1>3, <1>4, RangeOfAppend
<1>7. Sessions(after) = {new} /\ new \notin Range(rest)
  <2>1. \A s \in Range(rest) : CanonicalMinutes(s.window) # "session"
    BY <1>3 DEF Sessions
  <2>. QED BY <1>5, <1>6, <2>1 DEF Sessions
<1>8. none = <<>>
  <2>1. none \in Seq(SeriesOf) /\ Range(none) = {}
    BY <1>3, <1>7, OnlyFacts
  <2>. HIDE DEF none
  <2>. QED BY <2>1, NothingInRange
<1>9. same = <<new>>
  <2>. DEFINE A == Seq(SeriesOf)
              G == Keeping({new}, SeriesOf)
              nothing == <<>>
  <2>1. LeadsTo(none, A, G, nothing, rest) /\ LeadsTo(same, A, G, nothing, after)
    BY <1>3, <1>6, OnlyFolds
  <2>2. Longer(after, rest, new)
    BY <1>2 DEF Longer
  <2>3. G[<<nothing, new>>] = <<new>>
    <3>1. nothing \in Seq(SeriesOf)
      OBVIOUS
    <3>2. Append(nothing, new) = <<new>>
      BY <1>4
    <3>. HIDE DEF nothing
    <3>3. G[<<nothing, new>>] = Append(nothing, new)
      BY <1>4, <3>1 DEF Keeping
    <3>. QED BY <3>2, <3>3
  <2>. HIDE DEF A, G, same, none
  <2>4. same = G[<<none, new>>]
    BY <1>3, <1>4, <2>1, <2>2, FoldAppends
  <2>. QED BY <1>8, <2>3, <2>4
<1>10. SeriesEntries(after) = MergedSeries(Head(same).entries, Tail(same))
  <2>1. SeriesEntries(after) =
          IF Only(after, Sessions(after)) = <<>> THEN <<>>
          ELSE MergedSeries(Head(Only(after, Sessions(after))).entries,
                            Tail(Only(after, Sessions(after))))
    BY Zenon DEF SeriesEntries, MergedSeries
  <2>2. same # <<>>
    BY <1>9
  <2>. QED BY <1>7, <2>1, <2>2
<1>11. Head(same) = new /\ Tail(same) = <<>>
  <2>1. Head(<<new>>) = new /\ Tail(<<new>>) = <<>>
    BY <1>4
  <2>. HIDE DEF same
  <2>. QED BY <1>9, <2>1
<1>12. SeriesEntries(after) = entries
  <2>1. <<>> \in Seq(SeriesOf)
    OBVIOUS
  <2>. HIDE DEF same
  <2>. QED BY <1>1, <1>4, <1>10, <1>11, <2>1, MergedSeriesFacts DEF entries
<1>13. ASSUME NEW s \in Range(bucket), s.window = "week" PROVE s \in Range(after)
  <2>1. s \notin Sessions(bucket)
    BY <1>13 DEF Sessions, CanonicalMinutes
  <2>. QED BY <1>3, <1>6, <2>1
<1>. QED BY <1>6, <1>12, <1>13 DEF entries

-----------------------------------------------------------------------------
(* What is written.                                                        *)

\* The series of a file have entries.
HasSeries(d) == \A k \in Keys : d.buckets[k] \in Seq(SeriesOf)

ContentsInv ==
  /\ tick \in Int /\ HasSeries(history)
  /\ \A r \in Recorders : HasSeries(recorder[r].base) /\ recorder[r].sample \in Entries

\* The files that may be found at the start have series.
LEMMA InitHasContents == HistoryInit => ContentsInv
<1>. SUFFICES ASSUME HistoryInit PROVE ContentsInv
  OBVIOUS
<1>1. EmptyDocument.buckets = [k \in Keys |-> <<>>]
  BY DEF EmptyDocument
<1>2. HasSeries(EmptyDocument)
  BY <1>1 DEF HasSeries
<1>3. NewerFile.buckets = EmptyDocument.buckets
  BY DEF NewerFile, EmptyDocument
<1>4. ASSUME NEW k \in AccountKeys PROVE HasSeries(OlderFile(k))
  <2>1. OlderSeries \in Seq(SeriesOf)
    <3>1. \A at, used, reset \in Int : Entry(at, used, reset) \in Entries
      BY DEF Entry, Entries
    <3>. HIDE DEF Entry
    <3>2. /\ <<Entry(0, 1, 1), Entry(0, 3, 1)>> \in Seq(Entries)
          /\ <<Entry(0, 1, NoReset)>> \in Seq(Entries)
          /\ <<Entry(0, 3, 1), Entry(1, 2, 2)>> \in Seq(Entries)
      BY <3>1 DEF NoReset
    <3>3. \A window \in {"session", "nearly a session", "week"} : \A entries \in Seq(Entries) :
            Series(window, entries) \in SeriesOf
      BY DEF Series, SeriesOf
    <3>4. ASSUME NEW a \in SeriesOf, NEW b \in SeriesOf, NEW c \in SeriesOf
          PROVE  <<a, b, c>> \in Seq(SeriesOf)
      OBVIOUS
    <3>. QED BY <3>2, <3>3, <3>4 DEF OlderSeries
  <2>2. OlderFile(k).buckets = [EmptyDocument.buckets EXCEPT ![k] = OlderSeries]
    <3>. DEFINE buckets == [EmptyDocument.buckets EXCEPT ![k] = OlderSeries]
    <3>1. OlderFile(k) = [EmptyDocument EXCEPT !.buckets = buckets]
      BY Zenon DEF OlderFile
    <3>. HIDE DEF buckets
    <3>2. OlderFile(k).buckets = buckets
      BY <3>1 DEF EmptyDocument
    <3>. QED BY <3>2 DEF buckets
  <2>. QED BY <1>1, <1>2, <2>1, <2>2 DEF HasSeries
<1>5. HasSeries(history)
  <2>1. history \in {EmptyDocument, NewerFile} \cup {OlderFile(k) : k \in AccountKeys}
    BY Zenon DEF HistoryInit
  <2>2. HasSeries(NewerFile)
    BY <1>2, <1>3 DEF HasSeries
  <2>. QED BY <1>2, <1>4, <2>1, <2>2
<1>6. PICK process \in [Recorders -> Processes] :
        recorder = [r \in Recorders |-> Waiting(process[r])]
  BY DEF HistoryInit
<1>7. ASSUME NEW r \in Recorders
      PROVE  HasSeries(recorder[r].base) /\ recorder[r].sample \in Entries
  <2>1. recorder[r] = Waiting(process[r])
    BY <1>6
  <2>2. recorder[r].base = EmptyDocument /\ recorder[r].sample = Entry(0, 0, NoReset)
    BY <2>1 DEF Waiting
  <2>. QED BY <1>2, <2>2 DEF Entry, Entries, NoReset
<1>8. tick \in Int
  BY DEF HistoryInit
<1>. QED BY <1>5, <1>7, <1>8 DEF ContentsInv

\* A record extends a series by entries.
LEMMA RecordHasSeries ==
  ASSUME NEW d, IsDocument(d), HasSeries(d), NEW key \in Keys, NEW sample \in Entries
  PROVE  HasSeries(RecordProvider(d, key, sample))
<1>1. Recorded(d.buckets[key], sample) \in Seq(SeriesOf)
  BY RecordedFacts DEF HasSeries
<1>. QED BY <1>1, RecordIsLocal DEF HasSeries

\* Nothing but entries is ever sampled, read or written.
LEMMA NextKeepsContents ==
  ASSUME HistoryInv, ContentsInv, [HistoryNext]_historyVars
  PROVE  ContentsInv'
<1>1. CASE UNCHANGED historyVars
  BY <1>1 DEF ContentsInv, historyVars
<1>2. CASE Tick
  <2>1. tick' \in Int
    BY <1>2 DEF Tick, ContentsInv
  <2>. QED BY <1>2, <2>1 DEF Tick, ContentsInv
<1>3. ASSUME NEW r \in Recorders, Enter(r) PROVE ContentsInv'
  <2>1. PICK V : recorder \in [Recorders -> Shaped(V)]
    BY RecordersAreShaped
  <2>2. PICK key \in Keys, used \in Uses, reset \in Resets \cup {NoReset} :
          recorder' = Entered(recorder, r, key, Entry(tick, used, reset))
    BY <1>3, Zenon DEF Enter, HasSample, Entered
  <2>3. Entry(tick, used, reset) \in Entries
    BY DEF ContentsInv, Entry, Entries, Uses, Resets, NoReset
  <2>4. /\ \A s \in Recorders \ {r} : recorder'[s] = recorder[s]
        /\ recorder'[r].base = recorder[r].base
    BY <2>1, <2>2, EnteredAdvances DEF Advances
  <2>5. recorder'[r].sample = Entry(tick, used, reset)
    BY <2>1, <2>2 DEF Entered, Shaped
  <2>6. history' = history /\ tick' = tick
    BY <1>3 DEF Enter
  <2>. QED BY <2>3, <2>4, <2>5, <2>6 DEF ContentsInv
<1>4. ASSUME NEW r \in Recorders, Read(r) PROVE ContentsInv'
  <2>1. PICK V : recorder \in [Recorders -> Shaped(V)]
    BY RecordersAreShaped
  <2>2. PICK readable \in BOOLEAN :
          recorder' = HasRead(recorder, r, ~(readable /\ history.valid),
                              IF readable /\ history.valid THEN history ELSE EmptyDocument)
    BY <1>4, Zenon DEF Read, HasRead
  <2>. DEFINE base == IF readable /\ history.valid THEN history ELSE EmptyDocument
              lost == ~(readable /\ history.valid)
  <2>3. HasSeries(base)
    BY DEF ContentsInv, HasSeries, EmptyDocument
  <2>4. recorder' = HasRead(recorder, r, lost, base)
    BY <2>2
  <2>. HIDE DEF base, lost
  <2>5. /\ \A s \in Recorders \ {r} : recorder'[s] = recorder[s]
        /\ recorder'[r].base = base
    BY <2>1, <2>4, HasReadAdvances DEF Advances
  <2>6. recorder'[r].sample = recorder[r].sample
    BY <2>1, <2>4 DEF HasRead, Shaped
  <2>7. history' = history /\ tick' = tick
    BY <1>4 DEF Read
  <2>. QED BY <2>3, <2>5, <2>6, <2>7 DEF ContentsInv
<1>5. ASSUME NEW r \in Recorders, Write(r) PROVE ContentsInv'
  <2>1. RecorderInv(r) /\ IsDocument(recorder[r].base) /\ recorder[r].key \in Keys
    BY DEF HistoryInv, RecorderInv
  <2>2. HasSeries(RecordProvider(recorder[r].base, recorder[r].key, recorder[r].sample))
    BY <2>1, RecordHasSeries DEF ContentsInv
  <2>3. HasSeries(history')
    BY <1>5, <2>2, WriteFacts DEF ContentsInv
  <2>4. ASSUME NEW s \in Recorders
        PROVE  HasSeries(recorder'[s].base) /\ recorder'[s].sample \in Entries
    <3>1. CASE s = r
      <4>1. recorder'[s] = Waiting(recorder[r].process)
        BY <1>5, <3>1, WriteFacts
      <4>2. recorder'[s].base = EmptyDocument /\ recorder'[s].sample = Entry(0, 0, NoReset)
        BY <4>1 DEF Waiting
      <4>. QED BY <4>2 DEF EmptyDocument, HasSeries, Entry, Entries, NoReset
    <3>2. CASE s # r
      <4>1. recorder'[s] \in {recorder[s], Overtaken(r)[s]}
        BY <1>5, <3>2, WriteFacts
      <4>2. Overtaken(r)[s].base = recorder[s].base
        BY OvertakenLoses DEF Loses
      <4>3. Overtaken(r)[s].sample = recorder[s].sample
        <5>1. PICK V : recorder \in [Recorders -> Shaped(V)]
          BY RecordersAreShaped
        <5>2. recorder[s] \in Shaped(V)
          BY <5>1
        <5>3. Overtaken(r)[s] \in {[recorder[s] EXCEPT !.lost = TRUE], recorder[s]}
          BY Zenon DEF Overtaken
        <5>. QED BY <5>2, <5>3 DEF Shaped
      <4>. QED BY <4>1, <4>2, <4>3 DEF ContentsInv
    <3>. QED BY <3>1, <3>2
  <2>5. tick' = tick
    BY <1>5 DEF Write
  <2>. QED BY <2>3, <2>4, <2>5 DEF ContentsInv
<1>. QED BY <1>1, <1>2, <1>3, <1>4, <1>5 DEF HistoryNext

\* and so both invariants hold in every reachable state.
LEMMA ContentsInvariance == HistorySpec => [](HistoryInv /\ ContentsInv)
<1>1. HistoryInit => HistoryInv /\ ContentsInv
  BY HistoryInitHolds, InitHasContents
<1>2. HistoryInv /\ ContentsInv /\ [HistoryNext]_historyVars => (HistoryInv /\ ContentsInv)'
  BY HistoryNextKeeps, NextKeepsContents
<1>. QED BY <1>1, <1>2, PTL DEF HistorySpec

\* A write that lost nothing loses no hour but beyond the limit, and no other window.
LEMMA WriteKeepsHours ==
  ASSUME HistoryInv, ContentsInv, [HistoryNext]_historyVars, NEW r \in Recorders,
         recorder[r].pc = "write", recorder'[r].pc = "idle", ~recorder[r].lost, NEW k \in Keys
  PROVE  /\ \/ Hours(SessionOf(history, k)) \subseteq Hours(SessionOf(history', k))
            \/ Len(SessionOf(history', k)) = MaxSamples
         /\ \A i \in DOMAIN history.buckets[k] : history.buckets[k][i].window = "week" =>
              Contains(history'.buckets[k], history.buckets[k][i])
<1>. DEFINE key == recorder[r].key
            sample == recorder[r].sample
            old == history.buckets[k]
            new == history'.buckets[k]
<1>1. key \in Keys /\ IsDocument(history)
  BY DEF HistoryInv, RecorderInv
<1>2. old \in Seq(SeriesOf) /\ sample \in Entries
  BY DEF ContentsInv, HasSeries
<1>3. new = old \/ new = Recorded(old, sample)
  <2>1. history' \in {history, RecordProvider(history, key, sample)}
    BY WritesExtend
  <2>2. k # key => new = old
    BY WritesExtend
  <2>3. RecordProvider(history, key, sample).buckets[key] = Recorded(history.buckets[key], sample)
    BY <1>1, RecordIsLocal
  <2>. QED BY <2>1, <2>2, <2>3
<1>4. SessionOf(history, k) = SeriesEntries(old) /\ SessionOf(history', k) = SeriesEntries(new)
  BY DEF SessionOf
<1>. HIDE DEF old, new, key, sample
<1>5. \A i \in DOMAIN old : old[i] \in Range(old)
  BY DEF Range
<1>6. CASE new = old
  <2>1. \A i \in DOMAIN old : Contains(old, old[i])
    <3>1. DOMAIN old = 1..Len(old)
      BY <1>2
    <3>. QED BY <3>1 DEF Contains
  <2>. QED BY <1>4, <1>6, <2>1 DEF old, new
<1>7. CASE new = Recorded(old, sample)
  <2>1. /\ new \in Seq(SeriesOf)
        /\ SeriesEntries(new) = ReplaceHourEntries(SeriesEntries(old), sample)
        /\ \A s \in Range(old) : s.window = "week" => s \in Range(new)
    BY <1>2, <1>7, RecordedFacts
  <2>2. SeriesEntries(old) \in Seq(Entries)
    BY <1>2, SeriesEntriesStay
  <2>3. \/ Hours(SeriesEntries(old)) \subseteq Hours(SeriesEntries(new))
        \/ Len(SeriesEntries(new)) = MaxSamples
    BY <1>2, <2>1, <2>2, ReplaceKeepsHours
  <2>4. \A s \in Range(new) : Contains(new, s)
    <3>1. DOMAIN new = 1..Len(new)
      BY <2>1
    <3>. QED BY <3>1 DEF Contains, Range
  <2>. QED BY <1>4, <1>5, <2>1, <2>3, <2>4 DEF old, new
<1>. QED BY <1>3, <1>6, <1>7

\* However many threads of however many processes record, and in whatever order the
\* clock and the times of reset move, a write that has lost nothing loses no hour of
\* any account but the oldest ones beyond the limit, and no window but the one it
\* extends.
THEOREM HistoryIsKept == HistorySpec => RecordKeepsHistory
<1>1. (HistoryInv /\ ContentsInv) /\ [HistoryNext]_historyVars =>
        [\A r \in Recorders :
           recorder[r].pc = "write" /\ recorder'[r].pc = "idle" /\ ~recorder[r].lost =>
             \A k \in Keys :
               /\ \/ Hours(SessionOf(history, k)) \subseteq Hours(SessionOf(history', k))
                  \/ Len(SessionOf(history', k)) = MaxSamples
               /\ \A i \in DOMAIN history.buckets[k] : history.buckets[k][i].window = "week" =>
                    Contains(history'.buckets[k], history.buckets[k][i])]_historyVars
  BY WriteKeepsHours
<1>. QED BY <1>1, ContentsInvariance, PTL DEF HistorySpec, RecordKeepsHistory

\* What is written has the peaks of the hour of its sample.
LEMMA WriteKeepsPeaks ==
  ASSUME HistoryInv, ContentsInv, [HistoryNext]_historyVars, NEW r \in Recorders,
         recorder[r].pc = "write", recorder'[r].pc = "idle", history' # history
  PROVE  KeepsPeaks(r)
<1>. DEFINE key == recorder[r].key
            base == recorder[r].base
            sample == recorder[r].sample
            before == SessionOf(base, key)
            entries == SessionOf(history', key)
<1>1. key \in Keys /\ IsDocument(base)
  BY DEF HistoryInv, RecorderInv
<1>2. base.buckets[key] \in Seq(SeriesOf) /\ sample \in Entries
  BY <1>1 DEF ContentsInv, HasSeries
<1>3. history' = RecordProvider(base, key, sample)
  BY WritesWhatWasRead
<1>4. history'.buckets[key] = Recorded(base.buckets[key], sample)
  BY <1>1, <1>3, RecordIsLocal
<1>5. before = SeriesEntries(base.buckets[key]) /\ entries = SeriesEntries(history'.buckets[key])
  BY DEF SessionOf
<1>. HIDE DEF key, base, sample, before, entries
<1>6. before \in Seq(Entries) /\ entries = ReplaceHourEntries(before, sample)
  BY <1>2, <1>4, <1>5, RecordedFacts, SeriesEntriesStay
<1>7. Len(entries) <= MaxSamples /\ Ordered(entries)
  BY <1>2, <1>6, ReplaceKeepsOrder
<1>8. Cardinality(HourPlaces(entries, HourOf(sample))) <= 2
  BY <1>2, <1>6, ReplaceKeepsTwoPeaks
<1>9. ASSUME \A i \in DOMAIN before : Earlier(before[i], sample)
      PROVE  \E peak \in HourPlaces(entries, HourOf(sample)) :
               /\ ~StartsResetSegment(entries[peak], sample)
               /\ entries[peak].used >= sample.used
               /\ \A i \in HourPlaces(before, HourOf(sample)) :
                    Active(before, HourOf(sample), i) /\ ~StartsResetSegment(before[i], sample) =>
                      entries[peak].used >= before[i].used
  <2>. DEFINE peaks == SamplePeaks(before, sample)
              last == peaks[Len(peaks)]
  <2>1. Len(entries) \in HourPlaces(entries, HourOf(sample)) /\ entries[Len(entries)] = last
    BY <1>2, <1>6, <1>9, LastPeakIsLast
  <2>2. /\ ~StartsResetSegment(last, sample) /\ last.used >= sample.used
        /\ \A i \in HourPlaces(before, HourOf(sample)) :
             Active(before, HourOf(sample), i) /\ ~StartsResetSegment(before[i], sample) =>
               last.used >= before[i].used
    BY <1>2, <1>6, <1>9, LastPeakIsHigh
  <2>. HIDE DEF last
  <2>. QED BY <2>1, <2>2
<1>. QED BY <1>7, <1>8, <1>9, Zenon DEF KeepsPeaks, Ordered, key, base, sample, before, entries

\* A series stays in order and within its limit, with two peaks at most for the hour
\* of a new sample, and the use that was measured is told until it resets: by an
\* entry of the sample's hour and segment that is as high as the sample and as the
\* active entry before it.
THEOREM PeaksStay == HistorySpec => PeaksAreKept
<1>1. (HistoryInv /\ ContentsInv) /\ [HistoryNext]_historyVars =>
        [\A r \in Recorders :
           recorder[r].pc = "write" /\ recorder'[r].pc = "idle" /\ history' # history =>
             KeepsPeaks(r)]_historyVars
  BY WriteKeepsPeaks
<1>. QED BY <1>1, ContentsInvariance, PTL DEF HistorySpec, PeaksAreKept
=============================================================================
