------------------------- MODULE AuctionHouseProofs -------------------------
(* Proofs about AuctionHouse, for any players, items, purses, prices and     *)
(* bounds: gold is neither made nor lost, an item is in one place, memory is *)
(* what a restart would load, and a bid is never forgotten.                  *)
EXTENDS AuctionHouse, SumTheorems

-----------------------------------------------------------------------------
(* What is in the database, n the last auction id generated.                 *)

Entries == [item : Guids, count : Nat, owner : Players, startbid : Nat,
            buyout : Nat, bid : Nat, bidder : Players \cup {None},
            deposit : Int, now : BOOLEAN]

AuctionMaps(n) == UNION {[A -> Entries] : A \in SUBSET (1..n)}

Letters(n) == [to : Players, auction : 1..n, money : Int, item : Guids \cup {None}]

Databases(n) ==
  [money : [Players -> Int], inventory : [Guids -> Players \cup {None}],
   count : [Guids -> Nat], auctions : AuctionMaps(n), mails : SUBSET Letters(n),
   house : Int]

\* A bid has a bidder, who is not the owner.
BidsSound(d) ==
  \A a \in DOMAIN d.auctions :
    /\ d.auctions[a].bidder # d.auctions[a].owner
    /\ d.auctions[a].bidder = None <=> d.auctions[a].bid = 0

\* A mail with an item has no gold.  What has been mailed of an auction that
\* still stands are the lower bids, to others than its owner.
MailsSound(d) ==
  /\ IsFiniteSet(d.mails)
  /\ \A m \in d.mails : m.item # None => m.money = 0
  /\ \A m \in d.mails : m.auction \in DOMAIN d.auctions =>
       /\ m.item = None
       /\ m.to # d.auctions[m.auction].owner
       /\ m.money < d.auctions[m.auction].bid

InAuction(d, g) == \E a \in DOMAIN d.auctions : d.auctions[a].item = g
InMail(d, g) == \E m \in d.mails : m.item = g

\* No item is in two places, and those that are in one are those that exist.
PlacesApart(d) ==
  /\ \A a, b \in DOMAIN d.auctions : d.auctions[a].item = d.auctions[b].item => a = b
  /\ \A m, k \in d.mails : m.item # None /\ m.item = k.item => m = k
  /\ \A a \in DOMAIN d.auctions : d.inventory[d.auctions[a].item] = None
  /\ \A a \in DOMAIN d.auctions : \A m \in d.mails : m.item # d.auctions[a].item
  /\ \A m \in d.mails : m.item # None => d.inventory[m.item] = None
  /\ \A g \in Guids : d.count[g] > 0 <=> d.inventory[g] # None \/ InAuction(d, g) \/ InMail(d, g)

MailGold(M) == SumOver([m \in M |-> m.money], M)
BidGold(A) == SumOver([a \in DOMAIN A |-> A[a].bid], DOMAIN A)
Gold(d) == SumOver(d.money, Players) + MailGold(d.mails) + BidGold(d.auctions) + d.house

\* Nothing is made, and gold is not lost either.
GoldSound(d) == Gold(d) = Total(InitialMoney)
UnitsSound(d) == SumOver(d.count, Guids) <= Total(InitialCount)

Sound(d, n) ==
  /\ d \in Databases(n)
  /\ BidsSound(d)
  /\ MailsSound(d)
  /\ PlacesApart(d)
  /\ GoldSound(d)
  /\ UnitsSound(d)

-----------------------------------------------------------------------------
(* The inductive invariant.                                                  *)

TypeCorrect ==
  /\ online \subseteq Players
  /\ loading \in [Players -> Nat \cup {None}]
  /\ money \in [Players -> Int]
  /\ owed \in [Players -> Int]
  /\ bag \in [Guids -> Players \cup {None}]
  /\ count \in [Guids -> Nat]
  /\ pending \in [Players -> Seq(1..lastId)]
  /\ loaded \subseteq online
  /\ mails \in [Players -> SUBSET Letters(lastId)]
  /\ lastId \in Nat
  /\ log \in Seq(Databases(lastId)) /\ log # <<>>

LogSound == \A i \in 1..Len(log) : Sound(log[i], lastId)

\* A player who is not in the world has nothing in memory.
Absent ==
  /\ \A g \in Guids : bag[g] \in online \cup {None}
  /\ \A p \in Players \ online : owed[p] = 0

\* From d to e the mails of p stay, and also his gold and his items do.
KeepsMails(d, e, p) == \A m \in d.mails : m.to = p => m \in e.mails

KeepsPlayer(d, e, p) ==
  /\ e.money[p] = d.money[p]
  /\ \A g \in Guids : e.inventory[g] = p <=> d.inventory[g] = p
  /\ \A g \in Guids : d.inventory[g] = p => e.count[g] = d.count[g]
  /\ KeepsMails(d, e, p)

\* Once the transactions ahead of a login query are written, nothing queued
\* touches the player.
Waiting ==
  \A p \in Players : loading[p] # None =>
    /\ p \notin online
    /\ loading[p] < Len(log)
    /\ \A i \in 1..Len(log) : i > loading[p] => KeepsPlayer(log[i], Database, p)

\* A mail that is listed is in the database until the player takes it, and so
\* is one that would be listed now.
Listed ==
  \A p \in Players :
    /\ p \notin loaded => mails[p] = {}
    /\ \A m \in mails[p] : m \in Database.mails /\ m.to = p
    /\ p \in online \ loaded => \A i \in 1..Len(log) : KeepsMails(log[i], Database, p)

\* The new auctions of a player are his.
PendingOwned ==
  \A p \in Players : \A i \in DOMAIN pending[p] :
    pending[p][i] \in DOMAIN auctions => auctions[pending[p][i]].owner = p

IInv ==
  /\ TypeCorrect
  /\ LogSound
  /\ Saved
  /\ Absent
  /\ Waiting
  /\ Listed
  /\ PendingOwned

-----------------------------------------------------------------------------
(* Sums of gold and of units.                                                *)

LEMMA TotalIsSum ==
  ASSUME NEW f
  PROVE  Total(f) = SumOver(f, DOMAIN f)
  BY Zenon DEF Total, SumOver

\* The value of a function at one place is replaced.
LEMMA PurseSum ==
  ASSUME NEW S, IsFiniteSet(S), NEW f \in [S -> Int], NEW g \in [S -> Int],
         NEW p \in S, \A x \in S \ {p} : f[x] = g[x]
  PROVE  /\ SumOver(f, S) \in Int
         /\ SumOver(g, S) = SumOver(f, S) - f[p] + g[p]
  <1>1. IntegerOn(f, S) /\ IntegerOn(g, S)
    BY DEF IntegerOn
  <1> QED
    BY <1>1, SumType, SumChange

\* Any function with the gold of the mails of M will do.
LEMMA MailGoldIs ==
  ASSUME NEW M, IsFiniteSet(M), \A m \in M : m.money \in Int,
         NEW N, M \subseteq N
  PROVE  /\ MailGold(M) \in Int
         /\ MailGold(M) = SumOver([m \in N |-> m.money], M)
         /\ IntegerOn([m \in N |-> m.money], M)
  <1> PICK f : f = [m \in M |-> m.money]
    OBVIOUS
  <1> PICK g : g = [m \in N |-> m.money]
    OBVIOUS
  <1>1. IntegerOn(f, M) /\ IntegerOn(g, M) /\ \A m \in M : f[m] = g[m]
    BY DEF IntegerOn
  <1>2. SumOver(f, M) = SumOver(g, M) /\ SumOver(f, M) \in Int
    BY <1>1, SumSame, SumType
  <1> QED
    BY <1>1, <1>2 DEF MailGold

LEMMA MailGoldAdd ==
  ASSUME NEW M, IsFiniteSet(M), NEW N, IsFiniteSet(N), M \cap N = {},
         \A m \in M \cup N : m.money \in Int
  PROVE  MailGold(M \cup N) = MailGold(M) + MailGold(N)
  <1> PICK L : L = M \cup N
    OBVIOUS
  <1> PICK f : f = [m \in L |-> m.money]
    OBVIOUS
  <1>1. IsFiniteSet(L) /\ M \subseteq L /\ N \subseteq L
    BY FS_Union
  <1>2. /\ MailGold(L) = SumOver(f, L)
        /\ MailGold(M) = SumOver(f, M) /\ IntegerOn(f, M)
        /\ MailGold(N) = SumOver(f, N) /\ IntegerOn(f, N)
    BY <1>1, MailGoldIs
  <1>3. SumOver(f, L) = SumOver(f, M) + SumOver(f, N)
    BY <1>2, SumUnion
  <1> QED
    BY <1>2, <1>3

LEMMA MailGoldNone == MailGold({}) = 0
  BY SumEmpty DEF MailGold

LEMMA MailGoldOne ==
  ASSUME NEW m, m.money \in Int
  PROVE  MailGold({m}) = m.money
  <1> PICK f : f = [x \in {m} |-> x.money]
    OBVIOUS
  <1>1. IntegerOn(f, {m}) /\ f[m] = m.money /\ {m} \ {m} = {}
    BY DEF IntegerOn
  <1>2. IsFiniteSet({m})
    BY FS_Singleton
  <1>3. SumOver(f, {m}) = f[m] + SumOver(f, {m} \ {m})
    BY <1>1, <1>2, SumRemove
  <1>4. SumOver(f, {m}) = m.money
    BY <1>1, <1>3, SumEmpty
  <1> QED
    BY <1>4 DEF MailGold

LEMMA MailGoldRemove ==
  ASSUME NEW M, IsFiniteSet(M), NEW m \in M, \A k \in M : k.money \in Int
  PROVE  MailGold(M \ {m}) = MailGold(M) - m.money
  <1> PICK N : N = M \ {m}
    OBVIOUS
  <1>1. IsFiniteSet(N) /\ IsFiniteSet({m}) /\ N \cap {m} = {} /\ M = N \cup {m}
    BY FS_Subset, FS_Singleton
  <1>2. MailGold(N \cup {m}) = MailGold(N) + MailGold({m})
    BY <1>1, MailGoldAdd
  <1>3. MailGold({m}) = m.money
    BY MailGoldOne
  <1>4. MailGold(N) \in Int /\ m.money \in Int
    BY <1>1, MailGoldIs
  <1>5. MailGold(M) = MailGold(N) + m.money
    BY <1>1, <1>2, <1>3
  <1> QED
    BY <1>4, <1>5

\* Mails without gold.
LEMMA MailGoldZero ==
  ASSUME NEW M, IsFiniteSet(M), \A m \in M : m.money = 0
  PROVE  MailGold(M) = 0
  BY SumZero DEF MailGold

LEMMA AuctionMap ==
  ASSUME NEW n \in Nat, NEW A \in AuctionMaps(n)
  PROVE  /\ IsFiniteSet(DOMAIN A) /\ DOMAIN A \subseteq 1..n
         /\ A = [a \in DOMAIN A |-> A[a]]
         /\ \A a \in DOMAIN A : A[a] \in Entries
  <1> PICK D \in SUBSET (1..n) : A \in [D -> Entries]
    BY DEF AuctionMaps
  <1>1. IsFiniteSet(1..n)
    BY FS_Interval
  <1>2. IsFiniteSet(D)
    BY <1>1, FS_Subset
  <1> QED
    BY <1>2

LEMMA IsAuctionMap ==
  ASSUME NEW n \in Nat, NEW D \in SUBSET (1..n), NEW A \in [D -> Entries]
  PROVE  A \in AuctionMaps(n)
  BY DEF AuctionMaps

LEMMA BidGoldIs ==
  ASSUME NEW n \in Nat, NEW A \in AuctionMaps(n), NEW S \in SUBSET DOMAIN A
  PROVE  /\ BidGold(A) \in Int
         /\ IsFiniteSet(S)
         /\ IntegerOn([a \in DOMAIN A |-> A[a].bid], S)
         /\ SumOver([a \in DOMAIN A |-> A[a].bid], S) \in Int
  <1> PICK f : f = [a \in DOMAIN A |-> A[a].bid]
    OBVIOUS
  <1>1. IsFiniteSet(DOMAIN A) /\ IsFiniteSet(S)
    BY AuctionMap, FS_Subset
  <1>2. IntegerOn(f, DOMAIN A) /\ IntegerOn(f, S)
    BY AuctionMap DEF IntegerOn, Entries
  <1>3. SumOver(f, DOMAIN A) \in Int /\ SumOver(f, S) \in Int
    BY <1>1, <1>2, SumType
  <1> QED
    BY <1>1, <1>2, <1>3 DEF BidGold

\* Auctions whose bids do not change.
LEMMA BidGoldSame ==
  ASSUME NEW n \in Nat, NEW A \in AuctionMaps(n), NEW B, DOMAIN B = DOMAIN A,
         \A a \in DOMAIN A : B[a].bid = A[a].bid
  PROVE  BidGold(B) = BidGold(A)
  <1>1. [a \in DOMAIN B |-> B[a].bid] = [a \in DOMAIN A |-> A[a].bid]
    OBVIOUS
  <1> QED
    BY <1>1 DEF BidGold

\* One of them changes.
LEMMA BidGoldChange ==
  ASSUME NEW n \in Nat, NEW A \in AuctionMaps(n), NEW B \in AuctionMaps(n),
         DOMAIN B = DOMAIN A, NEW a \in DOMAIN A,
         \A x \in DOMAIN A \ {a} : B[x].bid = A[x].bid
  PROVE  BidGold(B) = BidGold(A) - A[a].bid + B[a].bid
  <1> PICK S : S = DOMAIN A
    OBVIOUS
  <1> PICK f : f = [x \in S |-> A[x].bid]
    OBVIOUS
  <1> PICK g : g = [x \in S |-> B[x].bid]
    OBVIOUS
  <1>1. IsFiniteSet(S) /\ f \in [S -> Int] /\ g \in [S -> Int]
    BY AuctionMap DEF Entries
  <1>2. a \in S /\ \A x \in S \ {a} : f[x] = g[x]
    OBVIOUS
  <1>3. SumOver(g, S) = SumOver(f, S) - f[a] + g[a]
    BY <1>1, <1>2, PurseSum
  <1> QED
    BY <1>3 DEF BidGold

\* Those of C are removed.
LEMMA BidGoldRemove ==
  ASSUME NEW n \in Nat, NEW A \in AuctionMaps(n), NEW C \in SUBSET DOMAIN A, NEW B,
         DOMAIN B = DOMAIN A \ C, \A a \in DOMAIN B : B[a].bid = A[a].bid
  PROVE  BidGold(B) = BidGold(A) - SumOver([a \in C |-> A[a].bid], C)
  <1> PICK S : S = DOMAIN A \ C
    OBVIOUS
  <1> PICK f : f = [a \in DOMAIN A |-> A[a].bid]
    OBVIOUS
  <1> PICK g : g = [a \in C |-> A[a].bid]
    OBVIOUS
  <1> PICK h : h = [a \in S |-> B[a].bid]
    OBVIOUS
  <1>1. S \in SUBSET DOMAIN A /\ S \cap C = {} /\ S \cup C = DOMAIN A
    OBVIOUS
  <1>2. /\ IsFiniteSet(S) /\ IntegerOn(f, S) /\ SumOver(f, S) \in Int
        /\ IsFiniteSet(C) /\ IntegerOn(f, C) /\ SumOver(f, C) \in Int
    BY <1>1, BidGoldIs
  <1>3. SumOver(f, S \cup C) = SumOver(f, S) + SumOver(f, C)
    BY <1>1, <1>2, SumUnion
  <1>4. SumOver(f, DOMAIN A) = SumOver(f, S) + SumOver(f, C)
    BY <1>1, <1>3
  <1>5. (\A x \in S : f[x] = h[x]) /\ (\A x \in C : f[x] = g[x])
    OBVIOUS
  <1>6. SumOver(f, S) = SumOver(h, S) /\ SumOver(f, C) = SumOver(g, C)
    BY <1>2, <1>5, SumSame
  <1>7. BidGold(A) = SumOver(f, DOMAIN A) /\ BidGold(B) = SumOver(h, S)
    BY DEF BidGold
  <1> QED
    BY <1>2, <1>4, <1>6, <1>7

\* A new auction has no bid.
LEMMA BidGoldNew ==
  ASSUME NEW n \in Nat, NEW A \in AuctionMaps(n), NEW a, a \notin DOMAIN A,
         NEW r, r.bid = 0
  PROVE  BidGold(WithAuction(A, a, r)) = BidGold(A)
  <1> PICK B : B = WithAuction(A, a, r)
    OBVIOUS
  <1> PICK S : S = DOMAIN A
    OBVIOUS
  <1> PICK f : f = [x \in S |-> A[x].bid]
    OBVIOUS
  <1> PICK g : g = [x \in S \cup {a} |-> B[x].bid]
    OBVIOUS
  <1>1. DOMAIN B = S \cup {a} /\ B[a] = r /\ \A x \in S : B[x] = A[x]
    BY DEF WithAuction
  <1>2. IsFiniteSet(S) /\ IntegerOn(f, S)
    BY BidGoldIs
  <1>3. g[a] = 0 /\ \A x \in S : f[x] = g[x]
    BY <1>1
  <1>4. IsFiniteSet(S \cup {a}) /\ (S \cup {a}) \ {a} = S /\ a \in S \cup {a}
    BY <1>2, FS_AddElement
  <1>5. IntegerOn(g, S \cup {a})
    BY <1>2, <1>3 DEF IntegerOn
  <1>8. SumOver(g, S \cup {a}) = g[a] + SumOver(g, S)
    BY <1>4, <1>5, SumRemove
  <1>6. SumOver(f, S) = SumOver(g, S) /\ SumOver(f, S) \in Int
    BY <1>2, <1>3, SumSame, SumType
  <1>7. BidGold(A) = SumOver(f, S) /\ BidGold(B) = SumOver(g, S \cup {a})
    BY <1>1 DEF BidGold
  <1> QED
    BY <1>3, <1>6, <1>7, <1>8

-----------------------------------------------------------------------------
(* From one state of the database to the next: gold.                         *)

\* What leaves the purse of p is in the mails, in the bids or with the house.
LEMMA GoldKept ==
  ASSUME NEW n \in Nat, NEW d \in Databases(n), NEW e \in Databases(n),
         IsFiniteSet(d.mails), GoldSound(d),
         NEW p \in Players, \A q \in Players \ {p} : d.money[q] = e.money[q],
         NEW x \in Int, MailGold(e.mails) = MailGold(d.mails) + x,
         NEW y \in Int, BidGold(e.auctions) = BidGold(d.auctions) + y,
         e.house = d.house + (d.money[p] - e.money[p]) - x - y
  PROVE  GoldSound(e)
  <1>1. d.money \in [Players -> Int] /\ e.money \in [Players -> Int] /\ d.auctions \in AuctionMaps(n) /\ d.house \in Int
    BY DEF Databases
  <1>2. IsFiniteSet(Players)
    BY ConstantsAssumption
  <1>3. /\ SumOver(d.money, Players) \in Int
        /\ SumOver(e.money, Players) = SumOver(d.money, Players) - d.money[p] + e.money[p]
    BY <1>1, <1>2, PurseSum
  <1>4. MailGold(d.mails) \in Int
    <2>1. \A m \in d.mails : m.money \in Int
      BY DEF Databases, Letters
    <2> QED
      BY <2>1, MailGoldIs
  <1>5. BidGold(d.auctions) \in Int
    BY <1>1, BidGoldIs
  <1>6. d.money[p] \in Int /\ e.money[p] \in Int
    BY <1>1
  <1> PICK v \in Int : v = e.money[p]
    BY <1>6
  <1> PICK a \in Int : a = SumOver(d.money, Players)
    BY <1>3
  <1> PICK b \in Int : b = MailGold(d.mails)
    BY <1>4
  <1> PICK c \in Int : c = BidGold(d.auctions)
    BY <1>5
  <1> PICK m \in Int : m = d.money[p]
    BY <1>6
  <1> PICK h \in Int : h = d.house
    BY <1>1
  <1>7. (a - m + v) + (b + x) + (c + y) + (h + (m - v) - x - y) = a + b + c + h
    OBVIOUS
  <1> QED
    BY <1>3, <1>7 DEF GoldSound, Gold

\* A purse that is saved without a bid or a mail.
LEMMA GoldSaved ==
  ASSUME NEW n \in Nat, NEW d \in Databases(n), NEW e \in Databases(n),
         IsFiniteSet(d.mails), GoldSound(d),
         NEW p \in Players, \A q \in Players \ {p} : d.money[q] = e.money[q],
         MailGold(e.mails) = MailGold(d.mails), BidGold(e.auctions) = BidGold(d.auctions),
         e.house = d.house + (d.money[p] - e.money[p])
  PROVE  GoldSound(e)
  <1>1. MailGold(d.mails) \in Int
    <2>1. \A m \in d.mails : m.money \in Int
      BY DEF Databases, Letters
    <2> QED
      BY <2>1, MailGoldIs
  <1>2. BidGold(d.auctions) \in Int
    BY BidGoldIs DEF Databases
  <1>3. d.house \in Int /\ d.money[p] \in Int /\ e.money[p] \in Int
    BY DEF Databases
  <1> PICK x \in Int : x = 0
    OBVIOUS
  <1>4. /\ MailGold(e.mails) = MailGold(d.mails) + x
        /\ BidGold(e.auctions) = BidGold(d.auctions) + x
        /\ e.house = d.house + (d.money[p] - e.money[p]) - x - x
    BY <1>1, <1>2, <1>3
  <1> QED
    BY <1>4, GoldKept

-----------------------------------------------------------------------------
(* ... and items.                                                            *)

\* From d to e the items of the auctions C go into the mails S, and nothing
\* else is moved.
ItemsMailed(d, e, C, S) ==
  /\ C \subseteq DOMAIN d.auctions
  /\ e.inventory = d.inventory /\ e.count = d.count
  /\ DOMAIN e.auctions = DOMAIN d.auctions \ C
  /\ \A a \in DOMAIN e.auctions : e.auctions[a].item = d.auctions[a].item
  /\ e.mails = d.mails \cup S
  /\ \A m \in S : m.item = None \/ \E c \in C : m.item = d.auctions[c].item
  /\ \A c \in C : \E m \in S : m.item = d.auctions[c].item
  /\ \A m, k \in S : m.item # None /\ m.item = k.item => m = k

LEMMA PlacesMailed ==
  ASSUME NEW n \in Nat, NEW d \in Databases(n), NEW e, PlacesApart(d),
         NEW C, NEW S, ItemsMailed(d, e, C, S)
  PROVE  PlacesApart(e)
  <1> USE DEF ItemsMailed
  <1>0. \A a \in DOMAIN d.auctions : d.auctions[a].item \in Guids /\ d.auctions[a].item # None
    BY AuctionMap, ConstantsAssumption DEF Databases, Entries
  <1>1. \A a, b \in DOMAIN e.auctions : e.auctions[a].item = e.auctions[b].item => a = b
    BY DEF PlacesApart
  <1>2. ASSUME NEW m \in e.mails, NEW k \in e.mails, m.item # None, m.item = k.item
        PROVE  m = k
    <2>1. \A i \in d.mails, j \in S : i.item # None => i.item # j.item
      BY DEF PlacesApart
    <2> QED
      BY <1>2, <2>1 DEF PlacesApart
  <1>3. \A a \in DOMAIN e.auctions : e.inventory[e.auctions[a].item] = None
    BY DEF PlacesApart
  <1>4. ASSUME NEW a \in DOMAIN e.auctions, NEW m \in e.mails, m.item = e.auctions[a].item
        PROVE  FALSE
    <2>1. CASE m \in d.mails
      BY <1>4, <2>1 DEF PlacesApart
    <2>2. CASE m \in S
      BY <1>0, <1>4, <2>2 DEF PlacesApart
    <2> QED
      BY <2>1, <2>2
  <1>5. \A m \in e.mails : m.item # None => e.inventory[m.item] = None
    BY DEF PlacesApart
  <1>6. ASSUME NEW g \in Guids
        PROVE  InAuction(e, g) \/ InMail(e, g) <=> InAuction(d, g) \/ InMail(d, g)
    <2>1. ASSUME InAuction(d, g)
          PROVE  InAuction(e, g) \/ InMail(e, g)
      BY <2>1 DEF InAuction, InMail
    <2>2. InMail(d, g) => InMail(e, g)
      BY DEF InMail
    <2>3. InAuction(e, g) => InAuction(d, g)
      BY DEF InAuction
    <2>4. InMail(e, g) => InMail(d, g) \/ InAuction(d, g)
      BY ConstantsAssumption DEF InMail, InAuction
    <2> QED
      BY <2>1, <2>2, <2>3, <2>4
  <1>7. \A g \in Guids : e.count[g] > 0 <=> e.inventory[g] # None \/ InAuction(e, g) \/ InMail(e, g)
    BY <1>6 DEF PlacesApart
  <1> QED
    BY <1>1, <1>2, <1>3, <1>4, <1>5, <1>7 DEF PlacesApart

\* The stack g, or as many units of new items as there are in r, is put up.
LEMMA PlacesPutUp ==
  ASSUME NEW n \in Nat, NEW d \in Databases(n), NEW e, PlacesApart(d),
         NEW g \in Guids, NEW a, a \notin DOMAIN d.auctions, NEW r, r.item = g,
         ~ InAuction(d, g), ~ InMail(d, g),
         e.auctions = WithAuction(d.auctions, a, r), e.mails = d.mails,
         e.inventory[g] = None, e.count[g] > 0,
         \A h \in Guids \ {g} : e.inventory[h] = d.inventory[h] /\ e.count[h] = d.count[h]
  PROVE  PlacesApart(e)
  <1>0. \A b \in DOMAIN d.auctions : d.auctions[b].item \in Guids /\ d.auctions[b].item # g
    BY AuctionMap DEF Databases, Entries, InAuction
  <1>1. /\ DOMAIN e.auctions = DOMAIN d.auctions \cup {a}
        /\ e.auctions[a].item = g
        /\ \A b \in DOMAIN d.auctions : e.auctions[b] = d.auctions[b]
    BY DEF WithAuction
  <1>2. \A m \in d.mails : m.item # g /\ (m.item # None => m.item \in Guids)
    BY DEF InMail, Databases, Letters
  <1>3. \A b, c \in DOMAIN e.auctions : e.auctions[b].item = e.auctions[c].item => b = c
    BY <1>0, <1>1 DEF PlacesApart
  <1>4. \A b \in DOMAIN e.auctions : e.inventory[e.auctions[b].item] = None
    BY <1>0, <1>1 DEF PlacesApart
  <1>5. \A b \in DOMAIN e.auctions : \A m \in e.mails : m.item # e.auctions[b].item
    BY <1>0, <1>1, <1>2 DEF PlacesApart
  <1>6. \A m \in e.mails : m.item # None => e.inventory[m.item] = None
    BY <1>2 DEF PlacesApart
  <1>7. ASSUME NEW h \in Guids
        PROVE  e.count[h] > 0 <=> e.inventory[h] # None \/ InAuction(e, h) \/ InMail(e, h)
    <2>1. CASE h = g
      BY <1>1, <2>1 DEF InAuction
    <2>2. CASE h # g
      <3>1. InAuction(e, h) <=> InAuction(d, h)
        BY <1>1, <2>2 DEF InAuction
      <3>2. InMail(e, h) <=> InMail(d, h)
        BY DEF InMail
      <3> QED
        BY <2>2, <3>1, <3>2 DEF PlacesApart
    <2> QED
      BY <2>1, <2>2
  <1> QED
    BY <1>3, <1>4, <1>5, <1>6, <1>7 DEF PlacesApart

\* Some stacks get smaller or are used up.
LEMMA PlacesReduced ==
  ASSUME NEW n \in Nat, NEW d \in Databases(n), NEW e \in Databases(n), PlacesApart(d),
         e.auctions = d.auctions, e.mails = d.mails,
         \A g \in Guids :
           \/ e.count[g] = d.count[g] /\ e.inventory[g] = d.inventory[g]
           \/ /\ d.inventory[g] # None
              /\ e.count[g] > 0 => e.inventory[g] = d.inventory[g]
              /\ e.count[g] = 0 => e.inventory[g] = None
  PROVE  PlacesApart(e)
  <1>1. \A a \in DOMAIN d.auctions : d.auctions[a].item \in Guids
    BY AuctionMap DEF Databases, Entries
  <1>2. \A m \in d.mails : m.item # None => m.item \in Guids
    BY DEF Databases, Letters
  <1>3. \A a \in DOMAIN d.auctions : e.inventory[d.auctions[a].item] = None
    BY <1>1 DEF PlacesApart
  <1>4. \A m \in d.mails : m.item # None => e.inventory[m.item] = None
    BY <1>2 DEF PlacesApart
  <1>5. ASSUME NEW g \in Guids
        PROVE  e.count[g] > 0 <=> e.inventory[g] # None \/ InAuction(e, g) \/ InMail(e, g)
    <2>1. InAuction(e, g) <=> InAuction(d, g)
      BY DEF InAuction
    <2>2. InMail(e, g) <=> InMail(d, g)
      BY DEF InMail
    <2>3. d.inventory[g] # None => ~ InAuction(d, g) /\ ~ InMail(d, g)
      BY ConstantsAssumption DEF PlacesApart, InAuction, InMail
    <2>4. e.count[g] \in Nat
      BY DEF Databases
    <2> QED
      BY <2>1, <2>2, <2>3, <2>4 DEF PlacesApart
  <1> QED
    BY <1>3, <1>4, <1>5 DEF PlacesApart

\* A mail without an item is paid out.
LEMMA PlacesPaid ==
  ASSUME NEW d, NEW e, PlacesApart(d), NEW m, m.item = None,
         e.auctions = d.auctions, e.mails = d.mails \ {m},
         e.inventory = d.inventory, e.count = d.count
  PROVE  PlacesApart(e)
  <1>1. \A g \in Guids : InAuction(e, g) <=> InAuction(d, g)
    BY DEF InAuction
  <1>2. \A g \in Guids : InMail(e, g) <=> InMail(d, g)
    BY ConstantsAssumption DEF InMail
  <1> QED
    BY <1>1, <1>2 DEF PlacesApart

\* The item of a mail is put on the stack x of a bag, or becomes one.
LEMMA PlacesStored ==
  ASSUME NEW n \in Nat, NEW d \in Databases(n), NEW e, PlacesApart(d),
         NEW m \in d.mails, m.item # None, NEW p \in Players,
         NEW x \in Guids, x = m.item \/ d.inventory[x] # None,
         e.auctions = d.auctions, e.mails = d.mails \ {m},
         e.inventory = [d.inventory EXCEPT ![x] = p],
         e.count = Stored(d.count, m.item, x, d.count[m.item])
  PROVE  PlacesApart(e)
  <1> PICK g \in Guids : g = m.item
    BY DEF Databases, Letters
  <1>0. d.inventory \in [Guids -> Players \cup {None}] /\ d.count \in [Guids -> Nat]
    BY DEF Databases
  <1>1. d.inventory[g] = None /\ d.count[g] > 0
    BY DEF PlacesApart, InMail
  <1>2. \A k \in d.mails \ {m} : k.item # g
    BY ConstantsAssumption DEF PlacesApart
  <1>3. ~ InAuction(d, g) /\ ~ InMail(e, g)
    BY <1>2 DEF PlacesApart, InMail, InAuction
  <1>4. \A h \in Guids : InAuction(e, h) <=> InAuction(d, h)
    BY DEF InAuction
  <1>5. \A h \in Guids \ {g} : InMail(e, h) <=> InMail(d, h)
    BY DEF InMail
  <1>6. \A h \in Guids \ {x} : e.inventory[h] = d.inventory[h]
    BY <1>0
  <1>7. e.inventory[x] = p /\ p # None
    BY <1>0, ConstantsAssumption
  <1>8. \A h \in Guids : e.count[h] = IF h = x THEN (IF x = g THEN 0 ELSE d.count[x]) + d.count[g]
                                      ELSE IF h = g THEN 0 ELSE d.count[h]
    BY DEF Stored
  <1>9. ~ InAuction(d, x)
    BY <1>1, <1>3 DEF PlacesApart, InAuction
  <1>10. \A k \in e.mails : k.item # x
    BY <1>1, <1>2, ConstantsAssumption DEF PlacesApart
  <1>11. \A a \in DOMAIN d.auctions : d.auctions[a].item \in Guids
    BY AuctionMap DEF Databases, Entries
  <1>12. \A k \in e.mails : k.item # None => k.item \in Guids
    BY DEF Databases, Letters
  <1>13. \A a \in DOMAIN e.auctions : e.inventory[e.auctions[a].item] = None
    BY <1>6, <1>9, <1>11 DEF PlacesApart, InAuction
  <1>14. \A k \in e.mails : k.item # None => e.inventory[k.item] = None
    BY <1>6, <1>10, <1>12 DEF PlacesApart
  <1>15. ASSUME NEW h \in Guids
         PROVE  e.count[h] > 0 <=> e.inventory[h] # None \/ InAuction(e, h) \/ InMail(e, h)
    <2>1. CASE h = x
      <3>1. e.count[x] > 0
        BY <1>0, <1>1, <1>8
      <3> QED
        BY <1>7, <2>1, <3>1
    <2>2. CASE h # x /\ h = g
      <3>1. e.count[h] = 0
        BY <1>8, <2>2
      <3> QED
        BY <1>1, <1>3, <1>4, <1>6, <2>2, <3>1
    <2>3. CASE h # x /\ h # g
      <3>1. e.count[h] = d.count[h]
        BY <1>8, <2>3
      <3> QED
        BY <1>4, <1>5, <1>6, <2>3, <3>1 DEF PlacesApart
    <2> QED
      BY <2>1, <2>2, <2>3
  <1> QED
    BY <1>13, <1>14, <1>15 DEF PlacesApart

-----------------------------------------------------------------------------
(* ... and how many there are of them.                                       *)

LEMMA UnitsStored ==
  ASSUME NEW f \in [Guids -> Nat], NEW g \in Guids, NEW x \in Guids
  PROVE  SumOver(Stored(f, g, x, f[g]), Guids) = SumOver(f, Guids)
  <1> PICK k : k = Stored(f, g, x, f[g])
    OBVIOUS
  <1>0. IsFiniteSet(Guids)
    BY ConstantsAssumption
  <1>1. \A h \in Guids : k[h] = IF h = x THEN (IF x = g THEN 0 ELSE f[x]) + f[g]
                                ELSE IF h = g THEN 0 ELSE f[h]
    BY DEF Stored
  <1>2. CASE x = g
    <2>1. \A h \in Guids : f[h] = k[h]
      BY <1>1, <1>2
    <2>2. IntegerOn(f, Guids)
      BY DEF IntegerOn
    <2> QED
      BY <1>0, <2>1, <2>2, SumSame
  <1>3. CASE x # g
    <2> PICK j \in [Guids -> Int] : \A h \in Guids : j[h] = IF h = g THEN 0 ELSE f[h]
      <3>1. [h \in Guids |-> IF h = g THEN 0 ELSE f[h]] \in [Guids -> Int]
        OBVIOUS
      <3> QED
        BY <3>1
    <2>1. k \in [Guids -> Int]
      <3>1. \A h \in Guids : k[h] \in Int
        BY <1>1
      <3> QED
        BY <3>1 DEF Stored
    <2>2. f \in [Guids -> Int]
      OBVIOUS
    <2>3. (\A h \in Guids \ {g} : f[h] = j[h]) /\ (\A h \in Guids \ {x} : j[h] = k[h])
      BY <1>1
    <2>4. /\ SumOver(f, Guids) \in Int
          /\ SumOver(j, Guids) = SumOver(f, Guids) - f[g] + j[g]
      BY <1>0, <2>2, <2>3, PurseSum
    <2>5. SumOver(k, Guids) = SumOver(j, Guids) - j[x] + k[x]
      BY <1>0, <2>1, <2>3, PurseSum
    <2>6. j[g] = 0 /\ j[x] = f[x] /\ k[x] = f[x] + f[g] /\ f[x] \in Int /\ f[g] \in Int
      BY <1>1, <1>3
    <2> QED
      BY <2>4, <2>5, <2>6
  <1> QED
    BY <1>2, <1>3

\* The units of T are taken off the stacks.
LEMMA UnitsReduced ==
  ASSUME NEW f \in [Guids -> Nat], NEW T \in SUBSET Guids, NEW use \in [T -> Nat],
         NEW k \in [Guids -> Nat],
         \A g \in Guids : k[g] = IF g \in T THEN f[g] - use[g] ELSE f[g]
  PROVE  /\ SumOver(k, Guids) \in Int /\ SumOver(use, T) \in Nat
         /\ SumOver(k, Guids) = SumOver(f, Guids) - SumOver(use, T)
  <1> PICK u : u = [g \in Guids |-> IF g \in T THEN use[g] ELSE 0]
    OBVIOUS
  <1> PICK R : R = Guids \ T
    OBVIOUS
  <1>1. IsFiniteSet(Guids) /\ IsFiniteSet(T) /\ IsFiniteSet(R)
    BY ConstantsAssumption, FS_Subset
  <1>2. IntegerOn(u, Guids) /\ IntegerOn(u, T) /\ IntegerOn(u, R) /\ IntegerOn(k, Guids)
    BY DEF IntegerOn
  <1>3. (\A g \in T : u[g] = use[g]) /\ (\A g \in R : u[g] = 0)
    OBVIOUS
  <1>4. SumOver(u, T) = SumOver(use, T) /\ SumOver(u, R) = 0
    BY <1>1, <1>2, <1>3, SumSame, SumZero
  <1>5. T \cap R = {} /\ T \cup R = Guids
    OBVIOUS
  <1>6. SumOver(u, T \cup R) = SumOver(u, T) + SumOver(u, R)
    BY <1>1, <1>2, <1>5, SumUnion
  <1>7. SumOver(u, Guids) = SumOver(use, T) + 0
    BY <1>4, <1>5, <1>6
  <1>8. \A g \in Guids : f[g] = k[g] + u[g]
    OBVIOUS
  <1>9. SumOver(f, Guids) = SumOver(k, Guids) + SumOver(u, Guids)
    BY <1>1, <1>2, <1>8, SumPlus
  <1>10. SumOver(k, Guids) \in Int
    BY <1>1, <1>2, SumType
  <1>11. SumOver(use, T) \in Nat
    <2>1. \A x \in T : use[x] \in Nat
      OBVIOUS
    <2> QED
      BY <1>1, <2>1, SumNatural
  <1> QED
    BY <1>7, <1>9, <1>10, <1>11

-----------------------------------------------------------------------------
(* ... and mails.                                                            *)

\* The mails of S are sent.  The bids that stand have not become lower.
LEMMA MailsSent ==
  ASSUME NEW d, NEW e, MailsSound(d),
         NEW S, IsFiniteSet(S), e.mails = d.mails \cup S,
         \A m \in S : m.item # None => m.money = 0,
         \A m \in S : m.auction \in DOMAIN e.auctions =>
           /\ m.item = None
           /\ m.to # e.auctions[m.auction].owner
           /\ m.money < e.auctions[m.auction].bid,
         \A m \in d.mails : m.auction \in DOMAIN e.auctions =>
           /\ m.auction \in DOMAIN d.auctions
           /\ e.auctions[m.auction].owner = d.auctions[m.auction].owner
           /\ m.money < d.auctions[m.auction].bid => m.money < e.auctions[m.auction].bid
  PROVE  MailsSound(e)
  <1>1. IsFiniteSet(d.mails)
    BY DEF MailsSound
  <1>2. IsFiniteSet(d.mails \cup S)
    BY <1>1, FS_Union
  <1>3. IsFiniteSet(e.mails)
    BY <1>2
  <1> QED
    BY <1>3 DEF MailsSound

LEMMA MailsTaken ==
  ASSUME NEW d, NEW e, MailsSound(d), NEW m,
         e.mails = d.mails \ {m}, e.auctions = d.auctions
  PROVE  MailsSound(e)
  <1>1. IsFiniteSet(e.mails)
    BY FS_Subset DEF MailsSound
  <1> QED
    BY <1>1 DEF MailsSound

\* What is going to be mailed of an auction that stands is not there yet.
LEMMA MailsNew ==
  ASSUME NEW n \in Nat, NEW d \in Databases(n), MailsSound(d),
         NEW a \in DOMAIN d.auctions, NEW m, m.auction = a,
         \/ m.item # None
         \/ m.to = d.auctions[a].owner
         \/ m.money = d.auctions[a].bid
  PROVE  m \notin d.mails
  <1>1. d.auctions[a].bid \in Nat
    BY AuctionMap DEF Databases, Entries
  <1> QED
    BY <1>1 DEF MailsSound

-----------------------------------------------------------------------------
(* Later auction ids.                                                        *)

LEMMA IdsGrow ==
  ASSUME NEW n \in Nat, NEW k \in Nat, n <= k
  PROVE  /\ Letters(n) \subseteq Letters(k)
         /\ AuctionMaps(n) \subseteq AuctionMaps(k)
         /\ Databases(n) \subseteq Databases(k)
         /\ \A d : Sound(d, n) => Sound(d, k)
  <1>1. 1..n \subseteq 1..k
    OBVIOUS
  <1>2. Letters(n) \subseteq Letters(k)
    BY <1>1 DEF Letters
  <1>3. AuctionMaps(n) \subseteq AuctionMaps(k)
    BY <1>1 DEF AuctionMaps
  <1>4. Databases(n) \subseteq Databases(k)
    BY <1>2, <1>3 DEF Databases
  <1> QED
    BY <1>2, <1>3, <1>4 DEF Sound

-----------------------------------------------------------------------------
(* The log.                                                                  *)

LEMMA Current ==
  ASSUME TypeCorrect
  PROVE  /\ Database = log[Len(log)] /\ Len(log) \in 1..Len(log) /\ Len(log) \in Nat
         /\ Database \in Databases(lastId)
         /\ LogSound => Sound(Database, lastId)
  <1>1. Len(log) \in 1..Len(log) /\ Len(log) \in Nat /\ log[Len(log)] \in Databases(lastId)
    BY DEF TypeCorrect
  <1> QED
    BY <1>1 DEF Database, Last, LogSound

\* The transactions of s are queued; e is the state after the last of them.
Queued(s, e) ==
  /\ log' = log \o s
  /\ s \in Seq(Databases(lastId'))
  /\ s # <<>>
  /\ e = s[Len(s)]
  /\ lastId' \in Nat
  /\ lastId <= lastId'

LEMMA QueuedLog ==
  ASSUME TypeCorrect, NEW s, NEW e, Queued(s, e)
  PROVE  /\ log' \in Seq(Databases(lastId')) /\ log' # <<>>
         /\ Database' = e
         /\ Len(log') = Len(log) + Len(s)
         /\ \A i \in 1..Len(log') :
              \/ i \in 1..Len(log) /\ log'[i] = log[i]
              \/ i > Len(log) /\ \E j \in 1..Len(s) : log'[i] = s[j]
  <1> PICK D : D = Databases(lastId')
    OBVIOUS
  <1>1. log \in Seq(D) /\ log # <<>>
    <2>1. Databases(lastId) \subseteq D
      BY IdsGrow DEF Queued, TypeCorrect
    <2> QED
      BY <2>1 DEF TypeCorrect
  <1>2. s \in Seq(D) /\ s # <<>> /\ log' = log \o s
    BY DEF Queued
  <1> PICK l : l = log'
    OBVIOUS
  <1>3. /\ l \in Seq(D) /\ Len(l) = Len(log) + Len(s) /\ l # <<>>
        /\ Len(s) \in Nat /\ Len(log) \in Nat /\ Len(s) > 0
    BY <1>1, <1>2
  <1>4. \A i \in 1..Len(l) :
          l[i] = IF i <= Len(log) THEN log[i] ELSE s[i - Len(log)]
    BY <1>1, <1>2
  <1>5. ASSUME NEW i \in 1..Len(l)
        PROVE  \/ i \in 1..Len(log) /\ l[i] = log[i]
               \/ i > Len(log) /\ \E j \in 1..Len(s) : l[i] = s[j]
    <2>1. CASE i <= Len(log)
      BY <1>4, <2>1
    <2>2. CASE i > Len(log)
      <3>1. i - Len(log) \in 1..Len(s)
        BY <1>3, <2>2
      <3> QED
        BY <1>3, <1>4, <2>2, <3>1
    <2> QED
      BY <1>3, <2>1, <2>2
  <1>6. l[Len(l)] = s[Len(s)]
    <2>1. Len(l) \in 1..Len(l) /\ ~(Len(l) <= Len(log)) /\ Len(l) - Len(log) = Len(s)
      BY <1>3
    <2> QED
      BY <1>4, <2>1
  <1>7. Database' = l[Len(l)]
    BY DEF Database, Last
  <1> QED
    BY <1>3, <1>5, <1>6, <1>7 DEF Queued

LEMMA LogSoundQueued ==
  ASSUME TypeCorrect, LogSound, NEW s, NEW e, Queued(s, e),
         \A j \in 1..Len(s) : Sound(s[j], lastId')
  PROVE  LogSound'
  <1>1. \A d : Sound(d, lastId) => Sound(d, lastId')
    BY IdsGrow DEF Queued, TypeCorrect
  <1>2. \A i \in 1..Len(log') : Sound(log'[i], lastId')
    BY <1>1, QueuedLog DEF LogSound
  <1> QED
    BY <1>2 DEF LogSound

\* Who waits for his login query is left alone.
LEMMA WaitingQueued ==
  ASSUME TypeCorrect, Waiting, NEW s, NEW e, Queued(s, e),
         UNCHANGED loading, online' \subseteq online,
         \A p \in Players : p \notin online =>
           /\ KeepsPlayer(Database, e, p)
           /\ \A j \in 1..Len(s) : KeepsPlayer(s[j], e, p)
  PROVE  Waiting'
  <1> SUFFICES ASSUME NEW p \in Players, loading[p] # None
               PROVE  /\ p \notin online'
                      /\ loading[p] < Len(log')
                      /\ \A i \in 1..Len(log') : i > loading[p] => KeepsPlayer(log'[i], Database', p)
    BY DEF Waiting
  <1>1. /\ p \notin online /\ loading[p] < Len(log) /\ loading[p] \in Nat
        /\ \A i \in 1..Len(log) : i > loading[p] => KeepsPlayer(log[i], Database, p)
    BY DEF Waiting, TypeCorrect
  <1>2. Len(log') = Len(log) + Len(s) /\ Len(log) \in Nat /\ Len(s) \in Nat
    <2>1. Len(s) \in Nat
      BY DEF Queued
    <2> QED
      BY <2>1, QueuedLog, Current
  <1>3. ASSUME NEW i \in 1..Len(log'), i > loading[p]
        PROVE  KeepsPlayer(log'[i], e, p)
    <2>1. CASE i \in 1..Len(log) /\ log'[i] = log[i]
      <3>1. KeepsPlayer(log[i], Database, p) /\ KeepsPlayer(Database, e, p)
        BY <1>1, <1>3, <2>1
      <3> QED
        BY <2>1, <3>1 DEF KeepsPlayer, KeepsMails
    <2>2. CASE \E j \in 1..Len(s) : log'[i] = s[j]
      BY <1>1, <2>2
    <2> QED
      BY <2>1, <2>2, QueuedLog
  <1> QED
    BY <1>1, <1>2, <1>3, QueuedLog

\* Who has not asked for his mails misses none.
LEMMA ListedQueued ==
  ASSUME TypeCorrect, Listed, NEW s, NEW e, Queued(s, e),
         NEW p \in online \ loaded, KeepsMails(Database, e, p),
         \A j \in 1..Len(s) : KeepsMails(s[j], e, p)
  PROVE  \A i \in 1..Len(log') : KeepsMails(log'[i], Database', p)
  <1>1. \A i \in 1..Len(log) : KeepsMails(log[i], Database, p)
    BY DEF Listed, TypeCorrect
  <1>2. \A i \in 1..Len(log) : KeepsMails(log[i], e, p)
    BY <1>1 DEF KeepsMails
  <1> QED
    BY <1>2, QueuedLog

-----------------------------------------------------------------------------
(* The initial state.                                                        *)

LEMMA InitInv ==
  ASSUME Init
  PROVE  IInv
  <1> PICK d : d = [money |-> money, inventory |-> bag, count |-> count,
                    auctions |-> <<>>, mails |-> {}, house |-> 0]
    OBVIOUS
  <1>1. /\ d.money = money /\ d.inventory = bag /\ d.count = count
        /\ d.auctions = <<>> /\ d.mails = {} /\ d.house = 0
    OBVIOUS
  <1>2. log = <<d>> /\ Len(log) = 1 /\ log[1] = d /\ Database = d
    BY DEF Init, Database, Last
  <1>3. /\ money \in [Players -> Nat] /\ count \in [Guids -> Nat]
        /\ bag \in [Guids -> Players \cup {None}]
        /\ \A g \in Guids : bag[g] = IF count[g] > 0 THEN Holder ELSE None
        /\ None \notin Players /\ Holder \in Players
    BY ConstantsAssumption DEF Init
  <1>4. DOMAIN d.auctions = {} /\ d.auctions \in [{} -> Entries]
    BY <1>1
  <1>5. d.auctions \in AuctionMaps(0)
    BY <1>4, IsAuctionMap
  <1>6. d \in Databases(0)
    <2>1. money \in [Players -> Int]
      BY <1>3
    <2> QED
      BY <1>1, <1>3, <1>5, <2>1 DEF Databases
  <1>7. GoldSound(d)
    <2>1. DOMAIN InitialMoney = Players /\ money = InitialMoney
      BY ConstantsAssumption DEF Init
    <2>2. Total(InitialMoney) = SumOver(d.money, Players)
      BY <1>1, <2>1, TotalIsSum
    <2>3. SumOver(d.money, Players) \in Int
      <3>1. IntegerOn(money, Players) /\ IsFiniteSet(Players)
        BY <1>3, ConstantsAssumption DEF IntegerOn
      <3> QED
        BY <1>1, <3>1, SumType
    <2>4. MailGold(d.mails) = 0
      BY <1>1, MailGoldNone
    <2>5. BidGold(d.auctions) = 0
      BY <1>4, SumEmpty DEF BidGold
    <2> QED
      BY <1>1, <2>2, <2>3, <2>4, <2>5 DEF GoldSound, Gold
  <1>8. UnitsSound(d)
    <2>1. DOMAIN InitialCount = Guids /\ count = InitialCount
      BY ConstantsAssumption DEF Init
    <2>2. Total(InitialCount) = SumOver(d.count, Guids)
      BY <1>1, <2>1, TotalIsSum
    <2>3. SumOver(d.count, Guids) \in Int
      <3>1. IntegerOn(count, Guids) /\ IsFiniteSet(Guids)
        BY <1>3, ConstantsAssumption DEF IntegerOn
      <3> QED
        BY <1>1, <3>1, SumType
    <2> QED
      BY <2>2, <2>3 DEF UnitsSound
  <1>9. BidsSound(d) /\ MailsSound(d) /\ PlacesApart(d)
    <2>1. BidsSound(d)
      BY <1>4 DEF BidsSound
    <2>2. MailsSound(d)
      BY <1>1, FS_EmptySet DEF MailsSound
    <2>3. PlacesApart(d)
      BY <1>1, <1>3, <1>4 DEF PlacesApart, InAuction, InMail
    <2> QED
      BY <2>1, <2>2, <2>3
  <1>10. TypeCorrect
    <2>1. /\ online = Players /\ loaded = {} /\ lastId = 0 /\ mails = [p \in Players |-> {}]
          /\ loading = [p \in Players |-> None] /\ pending = [p \in Players |-> <<>>]
          /\ owed = [p \in Players |-> 0]
      BY DEF Init
    <2>2. log \in Seq(Databases(0)) /\ log # <<>>
      BY <1>2, <1>6
    <2>3. money \in [Players -> Int]
      BY <1>3
    <2> QED
      BY <1>3, <2>1, <2>2, <2>3 DEF TypeCorrect
  <1>11. LogSound
    <2>1. lastId = 0 /\ Sound(d, 0)
      BY <1>6, <1>7, <1>8, <1>9 DEF Sound, Init
    <2>2. \A i \in 1..1 : i = 1
      OBVIOUS
    <2> QED
      BY <1>2, <2>1, <2>2 DEF LogSound
  <1>12. Saved
    BY <1>1, <1>2, <1>3 DEF Saved, Init
  <1>13. Absent
    BY <1>3 DEF Absent, Init
  <1>14. Waiting
    BY DEF Waiting, Init
  <1>15. Listed
    BY <1>2 DEF Listed, KeepsMails, Init
  <1>16. PendingOwned
    BY DEF PendingOwned, Init
  <1> QED
    BY <1>10, <1>11, <1>12, <1>13, <1>14, <1>15, <1>16 DEF IInv

-----------------------------------------------------------------------------
(* The steps that write nothing.                                             *)

\* The state that the parts of the invariant but for the clock and the bounds
\* speak of.
checked == <<sessionVars, money, itemVars, houseVars, pending, loaded, mails, log,
             lastId, owed>>

LEMMA Unchanged ==
  ASSUME IInv, UNCHANGED checked
  PROVE  IInv'
  BY DEF IInv, checked, TypeCorrect, LogSound, Saved, Absent, Waiting, Listed,
         PendingOwned, Database, sessionVars, itemVars, houseVars

LEMMA ElapseStep ==
  ASSUME IInv, NEW a, Elapse(a)
  PROVE  IInv'
  BY Unchanged DEF Elapse, checked, pendingVars

\* The mails that are listed are still in the database when the queue is
\* written, because nobody else takes them.
LEMMA GetMailListStep ==
  ASSUME IInv, NEW p \in Players, GetMailList(p)
  PROVE  IInv'
  <1>1. TypeCorrect /\ LogSound /\ Saved /\ Absent /\ Waiting /\ Listed /\ PendingOwned
    BY DEF IInv
  <1>2. /\ p \in online /\ p \notin loaded
        /\ loaded' = loaded \cup {p}
        /\ mails' = [mails EXCEPT ![p] = {m \in log[1].mails : m.to = p}]
        /\ UNCHANGED <<online, loading, money, bag, count, auctions, aitems, pending, log,
                       lastId, owed>>
    BY DEF GetMailList, sessionVars, itemVars, houseVars, pendingVars
  <1>3. 1 \in 1..Len(log) /\ log[1] \in Databases(lastId)
    BY <1>1 DEF TypeCorrect
  <1>4. {m \in log[1].mails : m.to = p} \subseteq Letters(lastId)
    BY <1>3 DEF Databases
  <1>5. TypeCorrect'
    BY <1>1, <1>2, <1>4 DEF TypeCorrect
  <1>6. Database' = Database
    BY <1>2 DEF Database
  <1>7. Listed'
    <2> SUFFICES ASSUME NEW q \in Players
                 PROVE  /\ q \notin loaded' => mails'[q] = {}
                        /\ \A m \in mails'[q] : m \in Database.mails /\ m.to = q
                        /\ q \in online \ loaded' => \A i \in 1..Len(log) : KeepsMails(log[i], Database, q)
      BY <1>2, <1>6 DEF Listed
    <2>1. CASE q = p
      <3>1. mails'[p] = {m \in log[1].mails : m.to = p}
        BY <1>1, <1>2 DEF TypeCorrect
      <3>2. KeepsMails(log[1], Database, p)
        BY <1>1, <1>2, <1>3 DEF Listed
      <3> QED
        BY <1>2, <2>1, <3>1, <3>2 DEF KeepsMails
    <2>2. CASE q # p
      <3>1. mails'[q] = mails[q]
        BY <1>1, <1>2, <2>2 DEF TypeCorrect
      <3> QED
        BY <1>1, <1>2, <2>2, <3>1 DEF Listed
    <2> QED
      BY <2>1, <2>2
  <1>8. LogSound' /\ Saved' /\ Absent' /\ Waiting' /\ PendingOwned'
    BY <1>1, <1>2, <1>6 DEF LogSound, Saved, Absent, Waiting, PendingOwned
  <1> QED
    BY <1>5, <1>7, <1>8 DEF IInv

LEMMA HandlePlayerLoginOpcodeStep ==
  ASSUME IInv, NEW p \in Players, HandlePlayerLoginOpcode(p)
  PROVE  IInv'
  <1>1. TypeCorrect /\ LogSound /\ Saved /\ Absent /\ Waiting /\ Listed /\ PendingOwned
    BY DEF IInv
  <1>2. /\ p \notin online
        /\ loading' = [loading EXCEPT ![p] = Len(log) - 1]
        /\ UNCHANGED <<online, money, bag, count, auctions, aitems, pending, loaded, mails, log,
                       lastId, owed>>
    BY DEF HandlePlayerLoginOpcode, itemVars, houseVars, pendingVars
  <1>3. Len(log) \in Nat /\ Len(log) > 0 /\ Len(log) - 1 \in Nat
    BY <1>1 DEF TypeCorrect
  <1>4. TypeCorrect'
    BY <1>1, <1>2, <1>3 DEF TypeCorrect
  <1>5. Database' = Database
    BY <1>2 DEF Database
  <1>6. Waiting'
    <2> SUFFICES ASSUME NEW q \in Players, loading'[q] # None
                 PROVE  /\ q \notin online
                        /\ loading'[q] < Len(log)
                        /\ \A i \in 1..Len(log) : i > loading'[q] => KeepsPlayer(log[i], Database, q)
      BY <1>2, <1>5 DEF Waiting
    <2>1. CASE q = p
      <3>1. loading'[p] = Len(log) - 1
        BY <1>1, <1>2 DEF TypeCorrect
      <3>2. \A i \in 1..Len(log) : i > Len(log) - 1 => log[i] = Database
        BY <1>1, <1>3, Current
      <3>3. KeepsPlayer(Database, Database, p)
        BY DEF KeepsPlayer, KeepsMails
      <3> QED
        BY <1>2, <1>3, <2>1, <3>1, <3>2, <3>3
    <2>2. CASE q # p
      <3>1. loading'[q] = loading[q]
        BY <1>1, <1>2, <2>2 DEF TypeCorrect
      <3> QED
        BY <1>1, <3>1 DEF Waiting
    <2> QED
      BY <2>1, <2>2
  <1>7. LogSound' /\ Saved' /\ Absent' /\ Listed' /\ PendingOwned'
    BY <1>1, <1>2, <1>5 DEF LogSound, Saved, Absent, Listed, PendingOwned
  <1> QED
    BY <1>4, <1>6, <1>7 DEF IInv

\* The player's gold and items are read when nothing that changes them is
\* queued, so that he gets what the database will have.
LEMMA HandlePlayerLoginStep ==
  ASSUME IInv, NEW p \in Players, HandlePlayerLogin(p)
  PROVE  IInv'
  <1>1. TypeCorrect /\ LogSound /\ Saved /\ Absent /\ Waiting /\ Listed /\ PendingOwned
    BY DEF IInv
  <1> PICK d : d = log[1]
    OBVIOUS
  <1>2. /\ loading[p] = 0
        /\ loading' = [loading EXCEPT ![p] = None]
        /\ online' = online \cup {p}
        /\ money' = [money EXCEPT ![p] = d.money[p]]
        /\ bag' = [g \in Guids |-> IF d.inventory[g] = p THEN p ELSE bag[g]]
        /\ count' = [g \in Guids |-> IF d.inventory[g] = p THEN d.count[g] ELSE count[g]]
        /\ UNCHANGED <<auctions, aitems, pending, loaded, mails, log, lastId, owed>>
    BY DEF HandlePlayerLogin, houseVars, pendingVars
  <1>3. None \notin Nat /\ None \notin Players
    BY ConstantsAssumption
  <1>4. /\ p \notin online
        /\ \A i \in 1..Len(log) : KeepsPlayer(log[i], Database, p)
    <2>1. \A i \in 1..Len(log) : i > 0
      OBVIOUS
    <2> QED
      BY <1>1, <1>2, <1>3, <2>1 DEF Waiting
  <1>5. d \in Databases(lastId) /\ KeepsPlayer(d, Database, p)
    <2>1. 1 \in 1..Len(log)
      BY <1>1 DEF TypeCorrect
    <2> QED
      BY <1>1, <1>4, <2>1 DEF TypeCorrect
  <1>6. /\ Database.money[p] = d.money[p]
        /\ \A g \in Guids : Database.inventory[g] = p <=> d.inventory[g] = p
        /\ \A g \in Guids : d.inventory[g] = p => Database.count[g] = d.count[g]
    BY <1>5 DEF KeepsPlayer
  <1>7. d.money[p] \in Int /\ d.count \in [Guids -> Nat]
    BY <1>5 DEF Databases
  <1>8. TypeCorrect'
    <2>1. loading' \in [Players -> Nat \cup {None}] /\ money' \in [Players -> Int]
      BY <1>1, <1>2, <1>7 DEF TypeCorrect
    <2>2. bag' \in [Guids -> Players \cup {None}] /\ count' \in [Guids -> Nat]
      BY <1>1, <1>2, <1>7 DEF TypeCorrect
    <2> QED
      BY <1>1, <1>2, <2>1, <2>2 DEF TypeCorrect
  <1>9. Database' = Database
    BY <1>2 DEF Database
  <1>10. \A g \in Guids : bag[g] \in online \cup {None} /\ bag[g] # p
    BY <1>1, <1>3, <1>4 DEF Absent
  <1>11. Saved'
    <2>1. \A g \in aitems : g \in Guids /\ d.inventory[g] # p
      <3>1. PlacesApart(Database) /\ Database \in Databases(lastId) /\ lastId \in Nat
        BY <1>1, Current DEF Sound, TypeCorrect
      <3>2. \A a \in DOMAIN Database.auctions :
              /\ Database.auctions[a].item \in Guids
              /\ Database.inventory[Database.auctions[a].item] # p
        BY <1>3, <3>1, AuctionMap DEF PlacesApart, Databases, Entries
      <3> QED
        BY <1>1, <1>6, <3>2 DEF Saved
    <2>2. \A g \in aitems : count'[g] = count[g]
      BY <1>2, <2>1
    <2>3. ASSUME NEW q \in online'
          PROVE  /\ money'[q] + owed[q] = Database.money[q]
                 /\ \A g \in Guids : bag'[g] = q <=> Database.inventory[g] = q
                 /\ \A g \in Guids : bag'[g] = q => count'[g] = Database.count[g]
      <3>1. CASE q = p
        <4>1. money'[p] = d.money[p] /\ owed[p] = 0
          BY <1>1, <1>2, <1>4 DEF TypeCorrect, Absent
        <4>2. \A g \in Guids : bag'[g] = p <=> d.inventory[g] = p
          BY <1>2, <1>10
        <4>3. \A g \in Guids : d.inventory[g] = p => count'[g] = d.count[g]
          BY <1>2
        <4> QED
          BY <1>6, <1>7, <3>1, <4>1, <4>2, <4>3
      <3>2. CASE q # p
        <4>1. q \in online /\ q \in Players
          BY <1>1, <1>2, <3>2 DEF TypeCorrect
        <4>2. /\ money[q] + owed[q] = Database.money[q]
              /\ \A g \in Guids : bag[g] = q <=> Database.inventory[g] = q
              /\ \A g \in Guids : bag[g] = q => count[g] = Database.count[g]
          BY <1>1, <4>1 DEF Saved
        <4>3. money'[q] = money[q]
          BY <1>1, <1>2, <3>2, <4>1 DEF TypeCorrect
        <4>4. \A g \in Guids : d.inventory[g] = p => Database.inventory[g] # q
          BY <1>6, <3>2
        <4>5. \A g \in Guids : bag'[g] = q <=> bag[g] = q
          BY <1>2, <3>2, <4>2, <4>4
        <4>6. \A g \in Guids : bag[g] = q => count'[g] = count[g]
          BY <1>2, <4>2, <4>4
        <4> QED
          BY <4>2, <4>3, <4>5, <4>6
      <3> QED
        BY <3>1, <3>2
    <2> QED
      BY <1>1, <1>2, <1>9, <2>2, <2>3 DEF Saved
  <1>12. Absent'
    BY <1>1, <1>2, <1>10 DEF Absent
  <1>13. Waiting'
    <2> SUFFICES ASSUME NEW q \in Players, loading'[q] # None
                 PROVE  /\ q \notin online'
                        /\ loading'[q] < Len(log)
                        /\ \A i \in 1..Len(log) : i > loading'[q] => KeepsPlayer(log[i], Database, q)
      BY <1>2, <1>9 DEF Waiting
    <2>1. q # p /\ loading'[q] = loading[q]
      BY <1>1, <1>2 DEF TypeCorrect
    <2> QED
      BY <1>1, <1>2, <2>1 DEF Waiting
  <1>14. Listed'
    <2>1. p \notin loaded
      BY <1>1, <1>4 DEF TypeCorrect
    <2>2. \A i \in 1..Len(log) : KeepsMails(log[i], Database, p)
      BY <1>4 DEF KeepsPlayer
    <2> QED
      BY <1>1, <1>2, <1>9, <2>1, <2>2 DEF Listed
  <1>15. LogSound' /\ PendingOwned'
    BY <1>1, <1>2 DEF LogSound, PendingOwned
  <1> QED
    BY <1>8, <1>11, <1>12, <1>13, <1>14, <1>15 DEF IInv

LEMMA ApplyStep ==
  ASSUME IInv, Apply
  PROVE  IInv'
  <1>1. TypeCorrect /\ LogSound /\ Saved /\ Absent /\ Waiting /\ Listed /\ PendingOwned
    BY DEF IInv
  <1>2. /\ Len(log) > 1
        /\ log' = Tail(log)
        /\ loading' = [p \in Players |-> IF loading[p] \in {None, 0} THEN loading[p]
                                         ELSE loading[p] - 1]
        /\ UNCHANGED <<online, money, bag, count, auctions, aitems, pending, loaded, mails,
                       lastId, owed>>
    BY DEF Apply, itemVars, houseVars, pendingVars
  <1>3. /\ log' \in Seq(Databases(lastId)) /\ log' # <<>>
        /\ Len(log) \in Nat /\ Len(log') = Len(log) - 1
        /\ \A i \in 1..Len(log') : log'[i] = log[i + 1] /\ i + 1 \in 1..Len(log)
    <2> PICK D : D = Databases(lastId)
      OBVIOUS
    <2>1. log \in Seq(D) /\ log # <<>>
      BY <1>1 DEF TypeCorrect
    <2> QED
      BY <1>2, <2>1
  <1>4. Database' = Database
    <2>1. Len(log') \in 1..Len(log') /\ Len(log') + 1 = Len(log)
      BY <1>2, <1>3
    <2>2. log'[Len(log')] = log[Len(log)]
      BY <1>3, <2>1
    <2> QED
      BY <2>2 DEF Database, Last
  <1>5. loading' \in [Players -> Nat \cup {None}]
    <2>1. \A p \in Players : loading[p] \in Nat \cup {None}
      BY <1>1 DEF TypeCorrect
    <2>2. \A p \in Players : loading'[p] \in Nat \cup {None}
      BY <1>2, <2>1
    <2> QED
      BY <1>2, <2>2
  <1>6. TypeCorrect'
    BY <1>1, <1>2, <1>3, <1>5 DEF TypeCorrect
  <1>7. LogSound'
    BY <1>1, <1>2, <1>3 DEF LogSound
  <1>8. Waiting'
    <2> SUFFICES ASSUME NEW p \in Players, loading'[p] # None
                 PROVE  /\ p \notin online
                        /\ loading'[p] < Len(log')
                        /\ \A i \in 1..Len(log') : i > loading'[p] => KeepsPlayer(log'[i], Database, p)
      BY <1>2, <1>4 DEF Waiting
    <2>1. loading[p] # None /\ loading[p] \in Nat
      BY <1>1, <1>2 DEF TypeCorrect
    <2>2. /\ p \notin online /\ loading[p] < Len(log)
          /\ \A i \in 1..Len(log) : i > loading[p] => KeepsPlayer(log[i], Database, p)
      BY <1>1, <2>1 DEF Waiting
    <2>3. loading'[p] = IF loading[p] = 0 THEN 0 ELSE loading[p] - 1
      BY <1>2, <2>1
    <2>4. loading'[p] < Len(log')
      BY <1>2, <1>3, <2>1, <2>2, <2>3
    <2>5. ASSUME NEW i \in 1..Len(log'), i > loading'[p]
          PROVE  i + 1 > loading[p]
      BY <2>1, <2>3, <2>5
    <2> QED
      BY <1>3, <2>2, <2>4, <2>5
  <1>9. Listed'
    BY <1>1, <1>2, <1>3, <1>4 DEF Listed
  <1>10. Saved' /\ Absent' /\ PendingOwned'
    BY <1>1, <1>2, <1>4 DEF Saved, Absent, PendingOwned
  <1> QED
    BY <1>6, <1>7, <1>8, <1>9, <1>10 DEF IInv

\* Every auction that is loaded finds its item.
LEMMA CrashStep ==
  ASSUME IInv, Crash
  PROVE  IInv'
  <1>1. TypeCorrect /\ LogSound /\ Saved /\ Absent /\ Waiting /\ Listed /\ PendingOwned
    BY DEF IInv
  <1> PICK d : d = log[1]
    OBVIOUS
  <1>2. d \in Databases(lastId) /\ Sound(d, lastId) /\ lastId \in Nat
    <2>1. 1 \in 1..Len(log)
      BY <1>1 DEF TypeCorrect
    <2> QED
      BY <1>1, <2>1 DEF TypeCorrect, LogSound
  <1> PICK ids : ids = {a \in DOMAIN d.auctions : d.count[d.auctions[a].item] > 0}
    OBVIOUS
  <1>3. /\ log' = <<d>>
        /\ online' = {}
        /\ loading' = [p \in Players |-> None]
        /\ money' = [p \in Players |-> IF p \in Players THEN 0 ELSE money[p]]
        /\ owed' = [p \in Players |-> IF p \in Players THEN 0 ELSE owed[p]]
        /\ bag' = [g \in Guids |-> IF bag[g] \in Players THEN None ELSE bag[g]]
        /\ loaded' = loaded \ Players
        /\ mails' = [p \in Players |-> IF p \in Players THEN {} ELSE mails[p]]
        /\ auctions' = Restrict(d.auctions, ids)
        /\ aitems' = {d.auctions[a].item : a \in ids}
        /\ count' = [g \in Guids |-> IF g \in aitems' THEN d.count[g] ELSE 0]
        /\ pending' = [p \in Players |-> <<>>]
        /\ lastId' = lastId
    BY DEF Crash, Forget
  <1>4. /\ d.auctions = [a \in DOMAIN d.auctions |-> d.auctions[a]]
        /\ \A a \in DOMAIN d.auctions : d.auctions[a].item \in Guids
        /\ d.count \in [Guids -> Nat]
    BY <1>2, AuctionMap DEF Databases, Entries
  <1>5. ids = DOMAIN d.auctions
    BY <1>2, <1>4 DEF Sound, PlacesApart, InAuction
  <1>6. auctions' = d.auctions
    BY <1>3, <1>4, <1>5 DEF Restrict
  <1>7. Database' = d /\ Len(log') = 1 /\ log'[1] = d
    BY <1>3 DEF Database, Last
  <1>8. /\ money' = [p \in Players |-> 0] /\ owed' = [p \in Players |-> 0]
        /\ bag' = [g \in Guids |-> None] /\ loaded' = {}
        /\ mails' = [p \in Players |-> {}]
    <2>1. \A g \in Guids : bag'[g] = None
      BY <1>1, <1>3 DEF TypeCorrect
    <2>2. loaded' = {}
      BY <1>1, <1>3 DEF TypeCorrect
    <2> QED
      BY <1>3, <2>1, <2>2
  <1>9. TypeCorrect'
    <2>1. count' \in [Guids -> Nat]
      BY <1>3, <1>4
    <2>2. log' \in Seq(Databases(lastId)) /\ log' # <<>>
      BY <1>2, <1>3
    <2>3. pending' \in [Players -> Seq(1..lastId)]
      BY <1>3
    <2> QED
      BY <1>2, <1>3, <1>8, <2>1, <2>2, <2>3 DEF TypeCorrect
  <1>10. LogSound'
    BY <1>2, <1>3, <1>7 DEF LogSound
  <1>11. Saved'
    <2>1. aitems' = {auctions'[a].item : a \in DOMAIN auctions'}
      BY <1>3, <1>5, <1>6
    <2>2. \A g \in aitems' : count'[g] = d.count[g]
      BY <1>3, <1>4, <1>5
    <2> QED
      BY <1>3, <1>6, <1>7, <2>1, <2>2 DEF Saved
  <1>12. Absent' /\ Waiting' /\ Listed' /\ PendingOwned'
    BY <1>3, <1>8 DEF Absent, Waiting, Listed, PendingOwned
  <1> QED
    BY <1>9, <1>10, <1>11, <1>12 DEF IInv

-----------------------------------------------------------------------------
(* What the steps that commit a transaction have in common.                  *)

\* The invariant at the state that memory stands for.
LEMMA Memory ==
  ASSUME IInv
  PROVE  /\ Database \in Databases(lastId) /\ lastId \in Nat
         /\ BidsSound(Database) /\ MailsSound(Database) /\ PlacesApart(Database)
         /\ GoldSound(Database) /\ UnitsSound(Database)
         /\ auctions = Database.auctions /\ auctions \in AuctionMaps(lastId)
         /\ \A a \in DOMAIN auctions : auctions[a] \in Entries /\ a \in 1..lastId
         /\ \A p \in online :
              /\ p \in Players
              /\ money[p] \in Int /\ owed[p] \in Int
              /\ Database.money[p] = money[p] + owed[p]
              /\ \A g \in Guids : bag[g] = p <=> Database.inventory[g] = p
              /\ \A g \in Guids : bag[g] = p => count[g] = Database.count[g]
         /\ \A g \in aitems :
              /\ g \in Guids /\ bag[g] = None /\ InAuction(Database, g)
              /\ count[g] = Database.count[g]
         /\ \A g \in Guids : InAuction(Database, g) => g \in aitems
  <1>1. TypeCorrect /\ LogSound /\ Saved /\ Absent
    BY DEF IInv
  <1> PICK d : d = Database
    OBVIOUS
  <1>2. d \in Databases(lastId) /\ lastId \in Nat /\ Sound(d, lastId)
    BY <1>1, Current DEF TypeCorrect
  <1>3. auctions = d.auctions /\ d.auctions \in AuctionMaps(lastId)
    BY <1>1, <1>2 DEF Saved, Databases
  <1>4. \A a \in DOMAIN auctions : auctions[a] \in Entries /\ a \in 1..lastId
    BY <1>2, <1>3, AuctionMap
  <1>5. \A p \in online :
          /\ p \in Players
          /\ money[p] \in Int /\ owed[p] \in Int
          /\ d.money[p] = money[p] + owed[p]
          /\ \A g \in Guids : bag[g] = p <=> d.inventory[g] = p
          /\ \A g \in Guids : bag[g] = p => count[g] = d.count[g]
    BY <1>1 DEF TypeCorrect, Saved
  <1>6. \A g \in aitems : g \in Guids /\ InAuction(d, g) /\ count[g] = d.count[g]
    BY <1>1, <1>3, <1>4 DEF Saved, InAuction, Entries
  <1>7. \A g \in aitems : bag[g] = None
    <2> SUFFICES ASSUME NEW g \in aitems, bag[g] # None
                 PROVE  FALSE
      OBVIOUS
    <2>1. bag[g] \in online
      BY <1>1, <1>6 DEF Absent
    <2>2. d.inventory[g] = bag[g]
      BY <1>5, <1>6, <2>1
    <2>3. d.inventory[g] = None
      BY <1>2, <1>6 DEF Sound, PlacesApart, InAuction
    <2> QED
      BY <2>2, <2>3
  <1>8. \A g \in Guids : InAuction(d, g) => g \in aitems
    BY <1>1, <1>3 DEF Saved, InAuction
  <1> QED
    BY <1>2, <1>3, <1>4, <1>5, <1>6, <1>7, <1>8 DEF Sound

LEMMA Committed ==
  ASSUME IInv, NEW e, Commit(e), Sound(e, lastId'), lastId' \in Nat, lastId <= lastId',
         UNCHANGED loading, online' \subseteq online,
         \A p \in Players \ online : KeepsPlayer(Database, e, p)
  PROVE  /\ log' \in Seq(Databases(lastId')) /\ log' # <<>> /\ Database' = e
         /\ LogSound' /\ Waiting'
         /\ \A p \in online \ loaded : KeepsMails(Database, e, p) =>
              \A i \in 1..Len(log') : KeepsMails(log'[i], e, p)
  <1>1. TypeCorrect /\ LogSound /\ Waiting /\ Listed
    BY DEF IInv
  <1> PICK s : s = <<e>>
    OBVIOUS
  <1>2. /\ s \in Seq(Databases(lastId')) /\ s # <<>> /\ Len(s) = 1 /\ s[1] = e
        /\ \A j \in 1..Len(s) : s[j] = e
    BY DEF Sound
  <1>3. Queued(s, e)
    BY <1>2 DEF Queued, Commit, CommitAll
  <1>4. log' \in Seq(Databases(lastId')) /\ log' # <<>> /\ Database' = e
    BY <1>1, <1>3, QueuedLog
  <1>5. LogSound'
    BY <1>1, <1>2, <1>3, LogSoundQueued
  <1>6. \A p : KeepsPlayer(e, e, p) /\ KeepsMails(e, e, p)
    BY DEF KeepsPlayer, KeepsMails
  <1>7. Waiting'
    BY <1>1, <1>2, <1>3, <1>6, WaitingQueued
  <1>8. ASSUME NEW p \in online \ loaded, KeepsMails(Database, e, p)
        PROVE  \A i \in 1..Len(log') : KeepsMails(log'[i], Database', p)
    BY <1>1, <1>2, <1>3, <1>6, <1>8, ListedQueued
  <1> QED
    BY <1>4, <1>5, <1>7, <1>8

LEMMA SaveShape ==
  ASSUME NEW n \in Nat, NEW d \in Databases(n), NEW p \in Players, NEW v \in Int,
         NEW fee \in Int, owed[p] \in Int
  PROVE  LET e == SaveGoldToDB(d, p, v, fee) IN
         /\ e \in Databases(n)
         /\ e.money = [d.money EXCEPT ![p] = v] /\ e.house = d.house + owed[p] + fee
         /\ e.inventory = d.inventory /\ e.count = d.count
         /\ e.auctions = d.auctions /\ e.mails = d.mails
  <1> PICK e : e = SaveGoldToDB(d, p, v, fee)
    OBVIOUS
  <1>1. d.money \in [Players -> Int] /\ d.house \in Int
    BY DEF Databases
  <1>2. /\ e.money = [d.money EXCEPT ![p] = v] /\ e.house = d.house + owed[p] + fee
        /\ e.inventory = d.inventory /\ e.count = d.count
        /\ e.auctions = d.auctions /\ e.mails = d.mails
    BY DEF SaveGoldToDB, Databases
  <1>3. e.money \in [Players -> Int] /\ e.house \in Int
    BY <1>1, <1>2
  <1>4. e \in Databases(n)
    BY <1>3 DEF SaveGoldToDB, Databases
  <1> QED
    BY <1>2, <1>4

\* What a transaction of p leaves to the others.
LEMMA OthersKept ==
  ASSUME NEW n \in Nat, NEW d \in Databases(n), NEW e, NEW p, NEW v,
         e.money = [d.money EXCEPT ![p] = v],
         e.inventory = d.inventory, e.count = d.count, d.mails \subseteq e.mails
  PROVE  /\ \A q \in Players \ {p} : KeepsPlayer(d, e, q)
         /\ \A q \in Players : KeepsMails(d, e, q)
  <1>1. \A q \in Players \ {p} : e.money[q] = d.money[q]
    BY DEF Databases
  <1>2. \A q \in Players : KeepsMails(d, e, q)
    BY DEF KeepsMails
  <1> QED
    BY <1>1, <1>2 DEF KeepsPlayer

-----------------------------------------------------------------------------
(* Logout.                                                                   *)

LEMMA LogoutPlayerStep ==
  ASSUME IInv, NEW p \in Players, LogoutPlayer(p)
  PROVE  IInv'
  <1>1. TypeCorrect /\ LogSound /\ Saved /\ Absent /\ Waiting /\ Listed /\ PendingOwned
    BY DEF IInv
  <1> PICK d : d = Database
    OBVIOUS
  <1> PICK e : e = SaveGoldToDB(d, p, money[p], 0)
    OBVIOUS
  <1>2. /\ p \in online
        /\ online' = online \ {p}
        /\ money' = [q \in Players |-> IF q \in {p} THEN 0 ELSE money[q]]
        /\ owed' = [q \in Players |-> IF q \in {p} THEN 0 ELSE owed[q]]
        /\ bag' = [g \in Guids |-> IF bag[g] \in {p} THEN None ELSE bag[g]]
        /\ loaded' = loaded \ {p}
        /\ mails' = [q \in Players |-> IF q \in {p} THEN {} ELSE mails[q]]
        /\ count' = [g \in Guids |-> IF bag[g] = p THEN 0 ELSE count[g]]
        /\ Commit(e)
        /\ UNCHANGED <<loading, auctions, aitems, pending, lastId>>
    BY DEF LogoutPlayer, Forget, houseVars, pendingVars
  <1>3. /\ d \in Databases(lastId) /\ lastId \in Nat
        /\ money[p] \in Int /\ owed[p] \in Int /\ d.money[p] = money[p] + owed[p]
    BY <1>2, Memory
  <1>4. /\ e \in Databases(lastId)
        /\ e.money = [d.money EXCEPT ![p] = money[p]] /\ e.house = d.house + owed[p] + 0
        /\ e.inventory = d.inventory /\ e.count = d.count
        /\ e.auctions = d.auctions /\ e.mails = d.mails
    BY <1>3, SaveShape
  <1>5. Sound(e, lastId)
    <2>1. BidsSound(e) /\ MailsSound(e) /\ PlacesApart(e) /\ UnitsSound(e)
      BY <1>4, Memory DEF BidsSound, MailsSound, PlacesApart, InAuction, InMail, UnitsSound
    <2>2. d.money \in [Players -> Int] /\ d.house \in Int
      BY <1>3 DEF Databases
    <2>3. /\ \A q \in Players \ {p} : d.money[q] = e.money[q]
          /\ MailGold(e.mails) = MailGold(d.mails) /\ BidGold(e.auctions) = BidGold(d.auctions)
          /\ e.house = d.house + (d.money[p] - e.money[p])
      BY <1>3, <1>4, <2>2
    <2>4. /\ IsFiniteSet(d.mails) /\ GoldSound(d)
          /\ d \in Databases(lastId) /\ e \in Databases(lastId) /\ lastId \in Nat
      BY <1>4, Memory DEF MailsSound
    <2>5. GoldSound(e)
      BY <2>3, <2>4, GoldSaved
    <2> QED
      BY <1>4, <2>1, <2>5 DEF Sound
  <1>6. /\ \A q \in Players \ {p} : KeepsPlayer(d, e, q)
        /\ \A q \in Players : KeepsMails(d, e, q)
    BY <1>3, <1>4, OthersKept
  <1>7. /\ log' \in Seq(Databases(lastId')) /\ log' # <<>> /\ Database' = e
        /\ LogSound' /\ Waiting'
        /\ \A q \in online \ loaded : KeepsMails(d, e, q) =>
             \A i \in 1..Len(log') : KeepsMails(log'[i], e, q)
    <2>1. lastId' = lastId /\ Sound(e, lastId') /\ lastId <= lastId'
      BY <1>2, <1>3, <1>5
    <2> QED
      BY <1>2, <1>3, <1>6, <2>1, Committed
  <1>8. TypeCorrect'
    BY <1>1, <1>2, <1>7 DEF TypeCorrect
  <1>9. Saved'
    <2>1. \A g \in aitems : count'[g] = count[g] /\ count[g] = d.count[g]
      BY <1>2, Memory, ConstantsAssumption
    <2>2. ASSUME NEW q \in online'
          PROVE  /\ money'[q] + owed'[q] = e.money[q]
                 /\ \A g \in Guids : bag'[g] = q <=> e.inventory[g] = q
                 /\ \A g \in Guids : bag'[g] = q => count'[g] = e.count[g]
      <3>1. q \in online /\ q # p /\ q \in Players /\ q # None
        BY <1>2, Memory, ConstantsAssumption
      <3>2. money'[q] = money[q] /\ owed'[q] = owed[q]
        BY <1>2, <3>1
      <3>3. \A g \in Guids : bag'[g] = q <=> bag[g] = q
        BY <1>2, <3>1
      <3>4. \A g \in Guids : bag[g] = q => count'[g] = count[g]
        BY <1>2, <3>1
      <3>5. e.money[q] = d.money[q]
        BY <1>3, <1>4, <3>1 DEF Databases
      <3> QED
        BY <1>4, <3>1, <3>2, <3>3, <3>4, <3>5, Memory
    <2>3. auctions' = e.auctions /\ aitems' = {auctions'[a].item : a \in DOMAIN auctions'}
      BY <1>1, <1>2, <1>4 DEF Saved
    <2>4. aitems' = aitems /\ Database' = e /\ e.count = d.count
      BY <1>2, <1>4, <1>7
    <2> QED
      BY <2>1, <2>2, <2>3, <2>4 DEF Saved
  <1>10. Absent'
    BY <1>1, <1>2 DEF Absent, TypeCorrect
  <1>11. Listed'
    <2>1. \A q \in Players : \A m \in mails'[q] : m \in e.mails /\ m.to = q
      BY <1>1, <1>2, <1>4 DEF Listed
    <2>2. \A q \in Players : q \notin loaded' => mails'[q] = {}
      BY <1>1, <1>2 DEF Listed
    <2>3. \A q \in online' \ loaded' : q \in online \ loaded /\ q \in Players
      BY <1>2, Memory
    <2> QED
      BY <1>6, <1>7, <2>1, <2>2, <2>3 DEF Listed
  <1>12. PendingOwned'
    BY <1>1, <1>2 DEF PendingOwned
  <1> QED
    BY <1>7, <1>8, <1>9, <1>10, <1>11, <1>12 DEF IInv

-----------------------------------------------------------------------------
(* Auctions are created.                                                     *)

LEMMA EntryTyped ==
  ASSUME NEW p \in Players, NEW g \in Guids, NEW units \in Nat,
         NEW start \in StartBids, NEW buyout \in Buyouts
  PROVE  LET r == Entry(p, g, units, start, buyout) IN
         /\ r \in Entries
         /\ r.item = g /\ r.owner = p /\ r.count = units /\ r.bid = 0 /\ r.bidder = None
  <1>1. start \in Nat /\ buyout \in Nat /\ UnitDeposit \in Nat
    BY ConstantsAssumption
  <1>2. GetAuctionDeposit(units) \in Int
    BY <1>1 DEF GetAuctionDeposit
  <1> QED
    BY <1>1, <1>2 DEF Entry, Entries

LEMMA ElementOf ==
  ASSUME NEW S, NEW s \in Seq(S), NEW i \in DOMAIN s
  PROVE  s[i] \in S
  OBVIOUS

LEMMA AddAuctionShape ==
  ASSUME IInv, NEW p \in online, NEW r \in Entries, r.owner = p, AddAuction(p, r)
  PROVE  /\ lastId' = lastId + 1 /\ lastId' \in Nat /\ lastId <= lastId'
         /\ lastId' \notin DOMAIN auctions
         /\ auctions' = WithAuction(auctions, lastId', r)
         /\ auctions' \in AuctionMaps(lastId')
         /\ aitems' = {auctions'[a].item : a \in DOMAIN auctions'}
         /\ owed' = [owed EXCEPT ![p] = 0]
         /\ UNCHANGED <<online, loading, money, loaded, mails>>
         /\ pending' \in [Players -> Seq(1..lastId')]
         /\ mails' \in [Players -> SUBSET Letters(lastId')]
         /\ PendingOwned'
  <1>1. TypeCorrect /\ Saved /\ PendingOwned
    BY DEF IInv
  <1>2. /\ lastId' = lastId + 1
        /\ aitems' = aitems \cup {r.item}
        /\ auctions' = WithAuction(auctions, lastId + 1, r)
        /\ pending' = [pending EXCEPT ![p] = Append(@, lastId + 1)]
        /\ owed' = [owed EXCEPT ![p] = 0]
        /\ UNCHANGED <<online, loading, money, loaded, mails>>
    BY DEF AddAuction, sessionVars
  <1> PICK k : k = lastId + 1
    OBVIOUS
  <1>3. /\ lastId \in Nat /\ k \in Nat /\ lastId <= k /\ k \in 1..k /\ 1..lastId \subseteq 1..k
        /\ k \notin 1..lastId /\ p \in Players
    BY <1>1 DEF TypeCorrect
  <1>4. DOMAIN auctions \subseteq 1..lastId /\ \A a \in DOMAIN auctions : auctions[a] \in Entries
    BY Memory
  <1>5. /\ DOMAIN auctions' = DOMAIN auctions \cup {k}
        /\ auctions'[k] = r
        /\ \A a \in DOMAIN auctions : auctions'[a] = auctions[a]
    BY <1>2, <1>3, <1>4 DEF WithAuction
  <1>6. auctions' \in [DOMAIN auctions \cup {k} -> Entries]
    BY <1>2, <1>3, <1>4 DEF WithAuction
  <1>7. auctions' \in AuctionMaps(k)
    <2>1. DOMAIN auctions \cup {k} \in SUBSET (1..k)
      BY <1>3, <1>4
    <2> QED
      BY <1>3, <1>6, <2>1, IsAuctionMap
  <1>8. aitems' = {auctions'[a].item : a \in DOMAIN auctions'}
    BY <1>1, <1>2, <1>5 DEF Saved
  <1>9. /\ \A q \in Players \ {p} : pending'[q] = pending[q]
        /\ pending'[p] = Append(pending[p], k)
        /\ DOMAIN pending' = Players
    BY <1>1, <1>2, <1>3 DEF TypeCorrect
  <1>10. \A q \in Players : pending[q] \in Seq(1..lastId) /\ pending[q] \in Seq(1..k)
    BY <1>1, <1>3 DEF TypeCorrect
  <1>11. pending' \in [Players -> Seq(1..k)]
    <2>1. pending'[p] \in Seq(1..k)
      BY <1>3, <1>9, <1>10
    <2>2. \A q \in Players : pending'[q] \in Seq(1..k)
      BY <1>9, <1>10, <2>1
    <2> QED
      BY <1>2, <1>9, <2>2
  <1>12. mails' \in [Players -> SUBSET Letters(k)]
    BY <1>1, <1>2, <1>3, IdsGrow DEF TypeCorrect
  <1>13. PendingOwned'
    <2>1. \A q \in Players : \A i \in DOMAIN pending[q] :
            /\ pending[q][i] # k
            /\ pending[q][i] \in DOMAIN auctions => auctions[pending[q][i]].owner = q
      <3> PICK S : S = 1..lastId
        OBVIOUS
      <3>1. ASSUME NEW q \in Players, NEW i \in DOMAIN pending[q]
            PROVE  pending[q][i] \in S
        <4>1. pending[q] \in Seq(S)
          BY <1>10
        <4> QED
          BY <4>1, ElementOf
      <3> QED
        BY <1>1, <1>3, <3>1 DEF PendingOwned
    <2>2. \A i \in DOMAIN pending'[p] :
            \/ i \in DOMAIN pending[p] /\ pending'[p][i] = pending[p][i]
            \/ pending'[p][i] = k
      <3>s. PICK s \in Seq(1..lastId) : s = pending[p]
        BY <1>3, <1>10
      <3>1. \A i \in DOMAIN Append(s, k) :
              \/ i \in DOMAIN s /\ Append(s, k)[i] = s[i]
              \/ Append(s, k)[i] = k
        OBVIOUS
      <3> QED
        BY <1>9, <3>1, <3>s
    <2>3. ASSUME NEW q \in Players, NEW i \in DOMAIN pending'[q], pending'[q][i] \in DOMAIN auctions'
          PROVE  auctions'[pending'[q][i]].owner = q
      <3>1. CASE q = p
        BY <1>5, <2>1, <2>2, <2>3, <3>1
      <3>2. CASE q # p
        BY <1>5, <1>9, <2>1, <2>3, <3>2
      <3> QED
        BY <3>1, <3>2
    <2> QED
      BY <2>3 DEF PendingOwned
  <1> QED
    BY <1>2, <1>3, <1>4, <1>7, <1>8, <1>11, <1>12, <1>13

WithoutStack(d, g, A) == [d EXCEPT !.inventory[g] = None, !.auctions = A]

LEMMA SellStackShape ==
  ASSUME NEW n \in Nat, NEW f \in Databases(n), NEW g \in Guids,
         NEW k \in Nat, n <= k, NEW A \in AuctionMaps(k)
  PROVE  LET e == WithoutStack(f, g, A) IN
         /\ e \in Databases(k)
         /\ e.money = f.money /\ e.house = f.house /\ e.count = f.count /\ e.mails = f.mails
         /\ e.inventory = [f.inventory EXCEPT ![g] = None] /\ e.auctions = A
  <1> PICK e : e = WithoutStack(f, g, A)
    OBVIOUS
  <1>1. /\ e.money = f.money /\ e.house = f.house /\ e.count = f.count /\ e.mails = f.mails
        /\ e.inventory = [f.inventory EXCEPT ![g] = None] /\ e.auctions = A
    BY DEF Databases, WithoutStack
  <1>2. f.inventory \in [Guids -> Players \cup {None}]
    BY DEF Databases
  <1>3. e.inventory \in [Guids -> Players \cup {None}]
    BY <1>1, <1>2
  <1>4. Letters(n) \subseteq Letters(k)
    BY IdsGrow
  <1>5. e \in Databases(k)
    BY <1>3, <1>4 DEF Databases, WithoutStack
  <1> QED
    BY <1>1, <1>5

\* A whole stack moves from the bag to the auction house.
LEMMA SellStackStep ==
  ASSUME IInv, NEW p \in Players, NEW g \in Guids, NEW start \in StartBids,
         NEW buyout \in Buyouts, SellStack(p, g, start, buyout)
  PROVE  IInv'
  <1>1. TypeCorrect /\ Saved /\ Absent /\ Listed
    BY DEF IInv
  <1> PICK d : d = Database
    OBVIOUS
  <1> PICK r : r = Entry(p, g, count[g], start, buyout)
    OBVIOUS
  <1> PICK f : f = SaveGoldToDB(d, p, money[p], 0)
    OBVIOUS
  <1> PICK k : k = lastId + 1
    OBVIOUS
  <1> PICK e : e = WithoutStack(f, g, WithAuction(f.auctions, k, r))
    OBVIOUS
  <1>2. /\ p \in online /\ bag[g] = p /\ AddAuction(p, r)
        /\ bag' = [bag EXCEPT ![g] = None]
        /\ Commit(e)
        /\ UNCHANGED count
    BY DEF SellStack, WithoutStack
  <1>3. /\ d \in Databases(lastId) /\ lastId \in Nat /\ k \in Nat /\ lastId <= k
        /\ money[p] \in Int /\ owed[p] \in Int /\ d.money[p] = money[p] + owed[p]
        /\ d.inventory[g] = p /\ count[g] = d.count[g] /\ auctions = d.auctions
        /\ d.money \in [Players -> Int] /\ d.inventory \in [Guids -> Players \cup {None}]
        /\ d.count \in [Guids -> Nat] /\ d.house \in Int
        /\ d.mails \subseteq Letters(lastId)
    BY <1>2, Memory DEF Databases
  <1>4. /\ r \in Entries /\ r.item = g /\ r.owner = p /\ r.bid = 0 /\ r.bidder = None
    BY <1>3, EntryTyped
  <1>5. /\ lastId' = k /\ k = lastId + 1 /\ k \notin DOMAIN auctions
        /\ auctions' = WithAuction(auctions, k, r)
        /\ auctions' \in AuctionMaps(k)
        /\ aitems' = {auctions'[a].item : a \in DOMAIN auctions'}
        /\ owed' = [owed EXCEPT ![p] = 0]
        /\ UNCHANGED <<online, loading, money, loaded, mails>>
        /\ pending' \in [Players -> Seq(1..lastId')]
        /\ mails' \in [Players -> SUBSET Letters(lastId')]
        /\ PendingOwned'
    BY <1>2, <1>4, AddAuctionShape
  <1>6. /\ f \in Databases(lastId) /\ f.money = [d.money EXCEPT ![p] = money[p]]
        /\ f.house = d.house + owed[p] + 0
        /\ f.inventory = d.inventory /\ f.count = d.count /\ f.auctions = d.auctions
        /\ f.mails = d.mails
    <2>1. /\ d \in Databases(lastId) /\ lastId \in Nat
          /\ money[p] \in Int /\ owed[p] \in Int /\ 0 \in Int
      BY <1>3
    <2> QED
      BY <2>1, SaveShape
  <1>7. /\ e.money = f.money /\ e.house = f.house /\ e.count = d.count /\ e.mails = d.mails
        /\ e.inventory = [d.inventory EXCEPT ![g] = None]
        /\ e.auctions = auctions'
        /\ e \in Databases(k)
    <2> PICK A : A = auctions'
      OBVIOUS
    <2>1. f.auctions = auctions
      BY <1>3, <1>6
    <2>2. e = WithoutStack(f, g, A)
      BY <1>5, <2>1
    <2>3. A \in AuctionMaps(k) /\ f \in Databases(lastId) /\ lastId \in Nat /\ k \in Nat /\ lastId <= k
      BY <1>3, <1>5, <1>6
    <2>4. /\ e \in Databases(k)
          /\ e.money = f.money /\ e.house = f.house /\ e.count = f.count /\ e.mails = f.mails
          /\ e.inventory = [f.inventory EXCEPT ![g] = None] /\ e.auctions = A
      BY <2>2, <2>3, SellStackShape
    <2> QED
      BY <1>6, <2>4
  <1>8. /\ e.money[p] = money[p] /\ \A q \in Players \ {p} : d.money[q] = e.money[q]
        /\ e.house = d.house + (d.money[p] - e.money[p])
    BY <1>3, <1>6, <1>7
  <1>9. e \in Databases(k) /\ d \in Databases(k)
    BY <1>3, <1>7, IdsGrow
  <1>10. /\ DOMAIN e.auctions = DOMAIN d.auctions \cup {k}
         /\ e.auctions[k] = r
         /\ \A a \in DOMAIN d.auctions : e.auctions[a] = d.auctions[a]
    <2>1. e.auctions = WithAuction(d.auctions, k, r) /\ k \notin DOMAIN d.auctions
      BY <1>3, <1>5, <1>7
    <2> QED
      BY <2>1 DEF WithAuction
  <1>11. Sound(e, k)
    <2>1. BidsSound(e)
      BY <1>4, <1>10, Memory, ConstantsAssumption DEF BidsSound
    <2>2. MailsSound(e)
      <3>1. \A m \in d.mails : m.auction # k
        BY <1>3 DEF Letters
      <3> QED
        BY <1>7, <1>10, <3>1, Memory DEF MailsSound
    <2>3. PlacesApart(e)
      <3>1. PlacesApart(d) /\ d.inventory[g] # None
        BY <1>3, Memory, ConstantsAssumption
      <3>2. ~ InAuction(d, g) /\ ~ InMail(d, g) /\ d.count[g] > 0
        BY <3>1, ConstantsAssumption DEF PlacesApart, InAuction, InMail
      <3>3. /\ e.inventory[g] = None /\ e.count[g] > 0
            /\ \A h \in Guids \ {g} : e.inventory[h] = d.inventory[h] /\ e.count[h] = d.count[h]
        BY <1>3, <1>7, <3>2
      <3>4. e.auctions = WithAuction(d.auctions, k, r) /\ k \notin DOMAIN d.auctions
        BY <1>3, <1>5, <1>7
      <3>5. e.mails = d.mails /\ r.item = g /\ d \in Databases(lastId) /\ lastId \in Nat
        BY <1>3, <1>4, <1>7
      <3> QED
        BY <3>1, <3>2, <3>3, <3>4, <3>5, PlacesPutUp
    <2>4. GoldSound(e)
      <3>1. BidGold(e.auctions) = BidGold(d.auctions)
        <4>1. d.auctions \in AuctionMaps(lastId)
          BY <1>3 DEF Databases
        <4> QED
          BY <1>3, <1>4, <1>5, <1>7, <4>1, BidGoldNew
      <3>2. MailGold(e.mails) = MailGold(d.mails)
        BY <1>7
      <3>3. IsFiniteSet(d.mails) /\ GoldSound(d) /\ k \in Nat
        BY <1>3, Memory DEF MailsSound
      <3> QED
        BY <1>8, <1>9, <3>1, <3>2, <3>3, GoldSaved
    <2>5. UnitsSound(e)
      BY <1>7, Memory DEF UnitsSound
    <2> QED
      BY <1>9, <2>1, <2>2, <2>3, <2>4, <2>5 DEF Sound
  <1>12. \A q \in Players : KeepsMails(d, e, q)
    BY <1>7 DEF KeepsMails
  <1>13. \A q \in Players \ {p} : KeepsPlayer(d, e, q)
    <2>1. \A q \in Players \ {p} : \A h \in Guids : e.inventory[h] = q <=> d.inventory[h] = q
      BY <1>3, <1>7, ConstantsAssumption
    <2> QED
      BY <1>7, <1>8, <1>12, <2>1 DEF KeepsPlayer
  <1>14. /\ log' \in Seq(Databases(lastId')) /\ log' # <<>> /\ Database' = e
         /\ LogSound' /\ Waiting'
         /\ \A q \in online \ loaded : KeepsMails(d, e, q) =>
              \A i \in 1..Len(log') : KeepsMails(log'[i], e, q)
    <2>1. \A q \in Players \ online : KeepsPlayer(d, e, q)
      BY <1>2, <1>13
    <2>2. Sound(e, lastId') /\ lastId' \in Nat /\ lastId <= lastId' /\ online' \subseteq online
      BY <1>3, <1>5, <1>11
    <2> QED
      BY <1>2, <1>5, <2>1, <2>2, Committed
  <1>15. TypeCorrect'
    <2>1. /\ bag' \in [Guids -> Players \cup {None}] /\ owed' \in [Players -> Int]
      BY <1>1, <1>2, <1>5 DEF TypeCorrect
    <2> QED
      BY <1>1, <1>2, <1>3, <1>5, <1>14, <2>1 DEF TypeCorrect
  <1>16. Saved'
    <2>1. \A h \in aitems' : count[h] = d.count[h]
      <3>1. aitems' = aitems \cup {g}
        BY <1>2, <1>4 DEF AddAuction
      <3> QED
        BY <1>3, <3>1, Memory
    <2>2. ASSUME NEW q \in online
          PROVE  /\ money[q] + owed'[q] = e.money[q]
                 /\ \A h \in Guids : bag'[h] = q <=> e.inventory[h] = q
                 /\ \A h \in Guids : bag'[h] = q => count[h] = e.count[h]
      <3>1. q \in Players /\ q # None
        BY Memory, ConstantsAssumption
      <3>2. money[q] + owed'[q] = e.money[q]
        <4>1. owed'[q] = IF q = p THEN 0 ELSE owed[q]
          BY <1>1, <1>5, <3>1 DEF TypeCorrect
        <4> QED
          BY <1>3, <1>8, <3>1, <4>1, Memory
      <3>3. \A h \in Guids : bag'[h] = IF h = g THEN None ELSE bag[h]
        BY <1>1, <1>2 DEF TypeCorrect
      <3>4. \A h \in Guids : e.inventory[h] = IF h = g THEN None ELSE d.inventory[h]
        BY <1>3, <1>7
      <3> QED
        BY <1>7, <3>1, <3>2, <3>3, <3>4, Memory
    <2>3. /\ Database' = e /\ online' = online /\ money' = money /\ count' = count
          /\ auctions' = e.auctions /\ aitems' = {auctions'[a].item : a \in DOMAIN auctions'}
          /\ e.count = d.count
      BY <1>2, <1>5, <1>7, <1>14
    <2> QED
      BY <2>1, <2>2, <2>3 DEF Saved
  <1>17. Absent'
    BY <1>1, <1>2, <1>5 DEF Absent, TypeCorrect
  <1>18. Listed'
    <2>1. \A q \in Players : \A m \in mails[q] : m \in e.mails /\ m.to = q
      BY <1>1, <1>7 DEF Listed
    <2> QED
      BY <1>1, <1>5, <1>12, <1>14, <2>1 DEF Listed, TypeCorrect
  <1> QED
    BY <1>5, <1>14, <1>15, <1>16, <1>17, <1>18 DEF IInv

-----------------------------------------------------------------------------
(* A sale of parts of stacks.                                                *)

\* Nothing but parts of the stacks in bags is taken away.
Takes(d, use) ==
  /\ use = [x \in DOMAIN use |-> use[x]]
  /\ DOMAIN use \subseteq Guids
  /\ \A x \in DOMAIN use : use[x] \in Nat /\ 0 < use[x] /\ use[x] <= d.count[x]
  /\ \A x \in DOMAIN use : d.inventory[x] # None

LEMMA ReducedShape ==
  ASSUME NEW n \in Nat, NEW d \in Databases(n), NEW use, Takes(d, use),
         NEW T \in SUBSET DOMAIN use
  PROVE  LET e == Reduced(d, use, T) IN
         /\ e \in Databases(n)
         /\ e.money = d.money /\ e.house = d.house /\ e.auctions = d.auctions /\ e.mails = d.mails
         /\ \A g \in Guids : e.count[g] = IF g \in T THEN d.count[g] - use[g] ELSE d.count[g]
         /\ \A g \in Guids : e.inventory[g] = IF g \in T /\ d.count[g] = use[g] THEN None
                                              ELSE d.inventory[g]
  <1> PICK e : e = Reduced(d, use, T)
    OBVIOUS
  <1>1. /\ e.money = d.money /\ e.house = d.house /\ e.auctions = d.auctions /\ e.mails = d.mails
        /\ e.count = [g \in Guids |-> IF g \in T THEN d.count[g] - use[g] ELSE d.count[g]]
        /\ e.inventory = [g \in Guids |-> IF g \in T /\ d.count[g] = use[g] THEN None
                                          ELSE d.inventory[g]]
    BY DEF Reduced, Databases
  <1>2. d.count \in [Guids -> Nat] /\ d.inventory \in [Guids -> Players \cup {None}]
    BY DEF Databases
  <1>3. \A g \in T : g \in Guids /\ d.count[g] \in Nat /\ use[g] \in Nat /\ use[g] <= d.count[g]
    BY <1>2 DEF Takes
  <1>4. \A g \in T : d.count[g] - use[g] \in Nat
    BY <1>3
  <1>5. e.count \in [Guids -> Nat]
    BY <1>1, <1>2, <1>4
  <1>6. e.inventory \in [Guids -> Players \cup {None}]
    BY <1>1, <1>2
  <1>7. e \in Databases(n)
    <2>1. PICK c \in [Guids -> Nat] : c = e.count
      BY <1>5
    <2>2. PICK v \in [Guids -> Players \cup {None}] : v = e.inventory
      BY <1>6
    <2>3. e = [d EXCEPT !.count = c, !.inventory = v]
      BY <1>1, <2>1, <2>2 DEF Reduced
    <2> QED
      BY <2>3 DEF Databases
  <1> QED
    BY <1>1, <1>7

LEMMA ReducedSound ==
  ASSUME NEW n \in Nat, NEW d, Sound(d, n), NEW use, Takes(d, use),
         NEW T \in SUBSET DOMAIN use
  PROVE  LET e == Reduced(d, use, T) IN
         /\ Sound(e, n)
         /\ SumOver(use, T) \in Nat /\ SumOver(e.count, Guids) \in Int
         /\ SumOver(e.count, Guids) = SumOver(d.count, Guids) - SumOver(use, T)
  <1> PICK e : e = Reduced(d, use, T)
    OBVIOUS
  <1>0. d \in Databases(n)
    BY DEF Sound
  <1>1. /\ e \in Databases(n)
        /\ e.money = d.money /\ e.house = d.house /\ e.auctions = d.auctions /\ e.mails = d.mails
        /\ \A g \in Guids : e.count[g] = IF g \in T THEN d.count[g] - use[g] ELSE d.count[g]
        /\ \A g \in Guids : e.inventory[g] = IF g \in T /\ d.count[g] = use[g] THEN None
                                             ELSE d.inventory[g]
    BY <1>0, ReducedShape
  <1>2. d.count \in [Guids -> Nat] /\ e.count \in [Guids -> Nat]
    BY <1>0, <1>1 DEF Databases
  <1>3. T \in SUBSET Guids /\ \A x \in T : use[x] \in Nat /\ 0 < use[x] /\ use[x] <= d.count[x]
    BY DEF Takes
  <1>4. BidsSound(e) /\ MailsSound(e) /\ GoldSound(e)
    BY <1>1 DEF Sound, BidsSound, MailsSound, GoldSound, Gold
  <1>5. PlacesApart(e)
    <2>1. \A g \in Guids :
            \/ e.count[g] = d.count[g] /\ e.inventory[g] = d.inventory[g]
            \/ /\ d.inventory[g] # None
               /\ e.count[g] > 0 => e.inventory[g] = d.inventory[g]
               /\ e.count[g] = 0 => e.inventory[g] = None
      <3> SUFFICES ASSUME NEW g \in T
                   PROVE  /\ d.inventory[g] # None
                          /\ e.count[g] > 0 => e.inventory[g] = d.inventory[g]
                          /\ e.count[g] = 0 => e.inventory[g] = None
        BY <1>1
      <3>1. e.count[g] = d.count[g] - use[g] /\ d.count[g] \in Nat /\ use[g] \in Nat
        BY <1>1, <1>2, <1>3
      <3>2. e.count[g] = 0 <=> d.count[g] = use[g]
        BY <3>1
      <3> QED
        BY <1>1, <1>3, <3>2 DEF Takes
    <2>2. PlacesApart(d) /\ e.auctions = d.auctions /\ e.mails = d.mails
      BY <1>1 DEF Sound
    <2> QED
      BY <1>0, <1>1, <2>1, <2>2, PlacesReduced
  <1>6. /\ SumOver(use, T) \in Nat /\ SumOver(e.count, Guids) \in Int
        /\ SumOver(e.count, Guids) = SumOver(d.count, Guids) - SumOver(use, T)
    <2> PICK u \in [T -> Nat] : \A x \in T : u[x] = use[x]
      <3>1. [x \in T |-> use[x]] \in [T -> Nat]
        BY <1>3
      <3> QED
        BY <3>1
    <2>1. /\ SumOver(e.count, Guids) \in Int /\ SumOver(u, T) \in Nat
          /\ SumOver(e.count, Guids) = SumOver(d.count, Guids) - SumOver(u, T)
      <3>1. \A g \in Guids : e.count[g] = IF g \in T THEN d.count[g] - u[g] ELSE d.count[g]
        BY <1>1
      <3> QED
        BY <1>2, <1>3, <3>1, UnitsReduced
    <2>2. SumOver(u, T) = SumOver(use, T)
      <3>1. IntegerOn(u, T)
        BY DEF IntegerOn
      <3>2. IsFiniteSet(T)
        BY <1>3, ConstantsAssumption, FS_Subset
      <3> QED
        BY <3>1, <3>2, SumSame
    <2> QED
      BY <2>1, <2>2
  <1>7. UnitsSound(e)
    <2>1. DOMAIN InitialCount = Guids /\ InitialCount \in [Guids -> Nat]
      BY ConstantsAssumption
    <2>2. Total(InitialCount) \in Int
      <3>1. IntegerOn(InitialCount, Guids) /\ IsFiniteSet(Guids)
        BY <2>1, ConstantsAssumption DEF IntegerOn
      <3>2. SumOver(InitialCount, Guids) \in Int
        BY <3>1, SumType
      <3> QED
        BY <2>1, <3>2, TotalIsSum
    <2>3. SumOver(d.count, Guids) \in Int /\ SumOver(d.count, Guids) <= Total(InitialCount)
      <3>1. IntegerOn(d.count, Guids) /\ IsFiniteSet(Guids)
        BY <1>2, ConstantsAssumption DEF IntegerOn
      <3> QED
        BY <3>1, SumType DEF Sound, UnitsSound
    <2> QED
      BY <1>6, <2>2, <2>3 DEF UnitsSound
  <1> QED
    BY <1>1, <1>4, <1>5, <1>6, <1>7 DEF Sound

\* The units of a sale are not none.
LEMMA UnitsTaken ==
  ASSUME NEW d, NEW use, Takes(d, use), DOMAIN use # {}
  PROVE  Total(use) \in Nat /\ Total(use) > 0 /\ Total(use) = SumOver(use, DOMAIN use)
  <1> PICK T : T = DOMAIN use
    OBVIOUS
  <1>1. T \subseteq Guids /\ \A x \in T : use[x] \in Nat /\ use[x] > 0
    BY DEF Takes
  <1>2. IsFiniteSet(T) /\ IntegerOn(use, T)
    BY <1>1, ConstantsAssumption, FS_Subset DEF IntegerOn
  <1> PICK x \in T : TRUE
    OBVIOUS
  <1>3. SumOver(use, T) = use[x] + SumOver(use, T \ {x})
    BY <1>2, SumRemove
  <1>4. SumOver(use, T \ {x}) \in Nat
    <2>1. IsFiniteSet(T \ {x})
      BY <1>2, FS_Subset
    <2> QED
      BY <1>1, <2>1, SumNatural
  <1>5. use[x] \in Nat /\ use[x] > 0
    BY <1>1
  <1>6. Total(use) = SumOver(use, T)
    BY TotalIsSum
  <1> QED
    BY <1>3, <1>4, <1>5, <1>6

LEMMA OrderOf ==
  ASSUME NEW S, IsFiniteSet(S)
  PROVE  /\ SetToSeq(S) \in Seq(S) /\ Len(SetToSeq(S)) \in Nat
         /\ \A i \in 1..Len(SetToSeq(S)) : SetToSeq(S)[i] \in S
         /\ \A x \in S : \E i \in 1..Len(SetToSeq(S)) : SetToSeq(S)[i] = x
  <1> PICK N : N = Cardinality(S)
    OBVIOUS
  <1> PICK f : f = SetToSeq(S)
    OBVIOUS
  <1>1. N \in Nat /\ ExistsBijection(1..N, S)
    BY FS_CardinalityType
  <1>2. \E h \in [1..N -> S] : IsInjective(h)
    BY <1>1 DEF ExistsBijection, Bijection, Injection, IsInjective
  <1>3. f \in [1..N -> S] /\ IsInjective(f)
    BY <1>2 DEF SetToSeq
  <1>4. f \in Seq(S) /\ Len(f) = N
    BY <1>1, <1>3
  <1>5. \A x \in S : \E i \in 1..N : f[i] = x
    <2>1. IsFiniteSet(1..N) /\ Cardinality(1..N) = N
      <3>1. IsFiniteSet(1..N) /\ Cardinality(1..N) = IF 1 > N THEN 0 ELSE N - 1 + 1
        <4>1. 1 \in Int /\ N \in Int
          BY <1>1
        <4> QED
          BY <4>1, FS_Interval, Zenon
      <3>2. (IF 1 > N THEN 0 ELSE N - 1 + 1) = N
        BY <1>1
      <3> QED
        BY <3>1, <3>2
    <2>2. f \in Injection(1..N, S)
      BY <1>3 DEF Injection, IsInjective
    <2>3. f \in Surjection(1..N, S)
      BY <2>1, <2>2, FS_Injection
    <2> QED
      BY <2>3 DEF Surjection
  <1> QED
    BY <1>1, <1>3, <1>4, <1>5

\* The last transaction of such a sale.
WithParts(d, p, g, r, A) ==
  [SaveGoldToDB(d, p, money[p], 0) EXCEPT !.count[g] = r.count, !.auctions = A]

LEMMA WithPartsShape ==
  ASSUME NEW n \in Nat, NEW k \in Nat, n <= k, NEW d \in Databases(n), NEW p \in Players,
         money[p] \in Int, owed[p] \in Int, NEW g \in Guids, NEW r \in Entries,
         NEW A \in AuctionMaps(k)
  PROVE  LET e == WithParts(d, p, g, r, A) IN
         /\ e \in Databases(k)
         /\ e.money[p] = money[p] /\ \A q \in Players \ {p} : e.money[q] = d.money[q]
         /\ e.house = d.house + owed[p]
         /\ e.inventory = d.inventory /\ e.mails = d.mails /\ e.auctions = A
         /\ e.count[g] = r.count /\ \A h \in Guids \ {g} : e.count[h] = d.count[h]
  <1> PICK f : f = SaveGoldToDB(d, p, money[p], 0)
    OBVIOUS
  <1> PICK e : e = WithParts(d, p, g, r, A)
    OBVIOUS
  <1>1. /\ f \in Databases(n)
        /\ f.money = [d.money EXCEPT ![p] = money[p]] /\ f.house = d.house + owed[p] + 0
        /\ f.inventory = d.inventory /\ f.count = d.count
        /\ f.auctions = d.auctions /\ f.mails = d.mails
    BY SaveShape
  <1>2. r.count \in Nat
    BY DEF Entries
  <1>3. /\ e.money = f.money /\ e.house = f.house /\ e.inventory = f.inventory
        /\ e.mails = f.mails /\ e.count = [f.count EXCEPT ![g] = r.count] /\ e.auctions = A
    BY <1>1 DEF Databases, WithParts
  <1>4. /\ d.money \in [Players -> Int] /\ d.house \in Int
        /\ f.count \in [Guids -> Nat]
    BY <1>1 DEF Databases
  <1>5. e.count \in [Guids -> Nat]
    BY <1>2, <1>3, <1>4
  <1>6. Letters(n) \subseteq Letters(k)
    BY IdsGrow
  <1>7. e \in Databases(k)
    BY <1>1, <1>5, <1>6 DEF Databases, WithParts
  <1>8. e.money[p] = money[p] /\ \A q \in Players \ {p} : e.money[q] = d.money[q]
    BY <1>1, <1>3, <1>4
  <1>9. e.count[g] = r.count /\ \A h \in Guids \ {g} : e.count[h] = d.count[h]
    BY <1>1, <1>3, <1>4
  <1>10. e.house = d.house + owed[p]
    BY <1>1, <1>3, <1>4
  <1> QED
    BY <1>1, <1>3, <1>7, <1>8, <1>9, <1>10

\* The transactions of a sale: smaller stacks, then the new item in its auction.
LEMMA PartsQueue ==
  ASSUME NEW p, NEW use, IsFiniteSet(DOMAIN use), NEW g, NEW r
  PROVE  LET h == Reduced(Database, use, DOMAIN use)
             A == WithAuction(SaveGoldToDB(h, p, money[p], 0).auctions, lastId + 1, r) IN
         \E front \in Seq({Reduced(Database, use, T) : T \in SUBSET DOMAIN use}) :
           PartsTransactions(p, use, g, r) = front \o <<WithParts(h, p, g, r, A)>>
  <1> DEFINE h == Reduced(Database, use, DOMAIN use)
             A == WithAuction(SaveGoldToDB(h, p, money[p], 0).auctions, lastId + 1, r)
  <1> DEFINE order == SetToSeq(DOMAIN use)
             N == Len(order)
  <1>1. N \in Nat /\ \A i \in 1..N : order[i] \in DOMAIN use
    BY OrderOf
  <1> DEFINE X == {Reduced(Database, use, T) : T \in SUBSET DOMAIN use}
             firsts(i) == {order[j] : j \in 1..i}
             front == [i \in 1..N |-> Reduced(Database, use, firsts(i))]
  <1>2. \A i \in 1..N : firsts(i) \in SUBSET DOMAIN use
    BY <1>1
  <1>3. \A i \in 1..N : front[i] \in X
    BY <1>2
  <1>4. front \in Seq(X)
    <2>1. front \in [1..N -> X]
      BY <1>3
    <2> HIDE DEF front, X, N
    <2> QED
      BY <1>1, <2>1
  <1>5. PartsTransactions(p, use, g, r) = front \o <<WithParts(h, p, g, r, A)>>
    BY Zenon DEF PartsTransactions, WithParts
  <1> HIDE DEF front
  <1> QED
    BY <1>4, <1>5

LEMMA AppendedTo ==
  ASSUME NEW D, NEW X, X \subseteq D, NEW front \in Seq(X), NEW e \in D,
         NEW s, s = front \o <<e>>
  PROVE  /\ s \in Seq(D) /\ s # <<>> /\ Len(s) \in Nat /\ e = s[Len(s)]
         /\ \A j \in 1..Len(s) : s[j] = e \/ s[j] \in X
  <1>1. front \in Seq(D) /\ Len(front) \in Nat /\ \A j \in 1..Len(front) : front[j] \in X
    OBVIOUS
  <1>2. s \in Seq(D) /\ Len(s) = Len(front) + 1
    BY <1>1
  <1>3. s[Len(front) + 1] = e /\ \A j \in 1..Len(front) : s[j] = front[j]
    BY <1>1
  <1>4. \A j \in 1..Len(s) : j = Len(front) + 1 \/ j \in 1..Len(front)
    BY <1>1, <1>2
  <1> QED
    BY <1>1, <1>2, <1>3, <1>4

\* The state after such a sale.
LEMMA PartsShape ==
  ASSUME NEW n \in Nat, NEW k \in Nat, n <= k, NEW d, Sound(d, n), NEW use, Takes(d, use),
         NEW T, T = DOMAIN use, NEW p \in Players, money[p] \in Int, owed[p] \in Int,
         NEW g \in Guids, NEW r \in Entries, NEW A \in AuctionMaps(k),
         NEW h, h = Reduced(d, use, T), NEW e, e = WithParts(h, p, g, r, A)
  PROVE  /\ e \in Databases(k)
         /\ e.money[p] = money[p] /\ \A q \in Players \ {p} : d.money[q] = e.money[q]
         /\ e.house = d.house + owed[p]
         /\ e.mails = d.mails /\ e.auctions = A
         /\ \A x \in Guids : e.inventory[x] = IF x \in T /\ d.count[x] = use[x] THEN None
                                              ELSE d.inventory[x]
         /\ \A x \in Guids : e.count[x] = IF x = g THEN r.count
                                          ELSE IF x \in T THEN d.count[x] - use[x] ELSE d.count[x]
         /\ e.inventory = h.inventory /\ e.mails = h.mails
         /\ e.count[g] = r.count /\ \A x \in Guids \ {g} : e.count[x] = h.count[x]
  <1>1. d \in Databases(n) /\ T \in SUBSET DOMAIN use
    BY DEF Sound
  <1>2. /\ h \in Databases(n)
        /\ h.money = d.money /\ h.house = d.house /\ h.auctions = d.auctions /\ h.mails = d.mails
        /\ \A x \in Guids : h.count[x] = IF x \in T THEN d.count[x] - use[x] ELSE d.count[x]
        /\ \A x \in Guids : h.inventory[x] = IF x \in T /\ d.count[x] = use[x] THEN None
                                             ELSE d.inventory[x]
    BY <1>1, ReducedShape
  <1>3. /\ e \in Databases(k)
        /\ e.money[p] = money[p] /\ \A q \in Players \ {p} : e.money[q] = h.money[q]
        /\ e.house = h.house + owed[p]
        /\ e.inventory = h.inventory /\ e.mails = h.mails /\ e.auctions = A
        /\ e.count[g] = r.count /\ \A x \in Guids \ {g} : e.count[x] = h.count[x]
    BY <1>2, WithPartsShape
  <1> QED
    BY <1>2, <1>3

LEMMA PartsSound ==
  ASSUME NEW n \in Nat, NEW k \in Nat, n <= k, k \notin 1..n, NEW d, Sound(d, n),
         NEW use, Takes(d, use), NEW T, T = DOMAIN use, T # {},
         NEW p \in Players, money[p] \in Int, owed[p] \in Int, d.money[p] = money[p] + owed[p],
         NEW g \in Guids, d.count[g] = 0,
         NEW r \in Entries, r.item = g, r.owner = p, r.bid = 0, r.bidder = None,
         r.count = Total(use),
         NEW A \in AuctionMaps(k), A = WithAuction(d.auctions, k, r),
         NEW h, h = Reduced(d, use, T), NEW e, e = WithParts(h, p, g, r, A)
  PROVE  Sound(e, k)
  <1>1. /\ e \in Databases(k)
        /\ e.money[p] = money[p] /\ \A q \in Players \ {p} : d.money[q] = e.money[q]
        /\ e.house = d.house + owed[p]
        /\ e.mails = d.mails /\ e.auctions = A
        /\ e.inventory = h.inventory /\ e.mails = h.mails
        /\ e.count[g] = r.count /\ \A x \in Guids \ {g} : e.count[x] = h.count[x]
    BY PartsShape
  <1>2. d \in Databases(n) /\ T \in SUBSET DOMAIN use /\ d \in Databases(k)
    BY IdsGrow DEF Sound
  <1>3. /\ h \in Databases(n) /\ h.auctions = d.auctions /\ h.mails = d.mails
        /\ \A x \in Guids : h.count[x] = IF x \in T THEN d.count[x] - use[x] ELSE d.count[x]
        /\ \A x \in Guids : h.inventory[x] = IF x \in T /\ d.count[x] = use[x] THEN None
                                             ELSE d.inventory[x]
    BY <1>2, ReducedShape
  <1>4. /\ Sound(h, n) /\ SumOver(use, T) \in Nat /\ SumOver(h.count, Guids) \in Int
        /\ SumOver(h.count, Guids) = SumOver(d.count, Guids) - SumOver(use, T)
    BY <1>2, ReducedSound
  <1>5. r.count \in Nat /\ r.count > 0 /\ r.count = SumOver(use, T)
    BY UnitsTaken
  <1>6. g \notin T /\ h.count[g] = 0 /\ h.inventory[g] = d.inventory[g]
    <2>1. g \notin T
      BY DEF Takes
    <2> QED
      BY <1>3, <2>1
  <1>7. d.inventory[g] = None /\ ~ InAuction(d, g) /\ ~ InMail(d, g)
    BY DEF Sound, PlacesApart
  <1>8. k \notin DOMAIN d.auctions /\ d.auctions \in AuctionMaps(n)
    BY <1>2, AuctionMap DEF Databases
  <1>9. /\ DOMAIN A = DOMAIN d.auctions \cup {k} /\ A[k] = r
        /\ \A a \in DOMAIN d.auctions : A[a] = d.auctions[a]
    BY <1>8 DEF WithAuction
  <1>10. BidsSound(e)
    <2>1. BidsSound(d) /\ None # p
      BY ConstantsAssumption DEF Sound
    <2> QED
      BY <1>1, <1>9, <2>1 DEF BidsSound
  <1>11. MailsSound(e)
    <2>1. \A m \in d.mails : m.auction # k
      BY <1>2 DEF Databases, Letters
    <2>2. MailsSound(d)
      BY DEF Sound
    <2> QED
      BY <1>1, <1>9, <2>1, <2>2 DEF MailsSound
  <1>12. PlacesApart(e)
    <2>1. PlacesApart(h) /\ ~ InAuction(h, g) /\ ~ InMail(h, g) /\ k \notin DOMAIN h.auctions
      BY <1>3, <1>4, <1>7, <1>8 DEF Sound, InAuction, InMail
    <2>2. /\ e.inventory[g] = None /\ e.count[g] > 0
          /\ \A x \in Guids \ {g} : e.inventory[x] = h.inventory[x] /\ e.count[x] = h.count[x]
      BY <1>1, <1>5, <1>6, <1>7
    <2>3. e.auctions = WithAuction(h.auctions, k, r) /\ e.mails = h.mails
      BY <1>1, <1>3
    <2> QED
      BY <1>3, <2>1, <2>2, <2>3, PlacesPutUp
  <1>13. GoldSound(e)
    <2>1. BidGold(e.auctions) = BidGold(d.auctions)
      BY <1>1, <1>8, BidGoldNew
    <2>2. MailGold(e.mails) = MailGold(d.mails)
      BY <1>1
    <2>3. IsFiniteSet(d.mails) /\ GoldSound(d)
      BY DEF MailsSound, Sound
    <2>4. d.house \in Int
      BY <1>2 DEF Databases
    <2>5. e.house = d.house + (d.money[p] - e.money[p])
      BY <1>1, <2>4
    <2>6. /\ d \in Databases(k) /\ e \in Databases(k)
          /\ \A q \in Players \ {p} : d.money[q] = e.money[q]
      BY <1>1, <1>2
    <2> QED
      BY <2>1, <2>2, <2>3, <2>5, <2>6, GoldSaved
  <1>14. UnitsSound(e)
    <2>1. /\ d.count \in [Guids -> Nat] /\ h.count \in [Guids -> Int] /\ e.count \in [Guids -> Int]
          /\ IsFiniteSet(Guids) /\ \A x \in Guids \ {g} : h.count[x] = e.count[x]
      BY <1>1, <1>2, <1>3, ConstantsAssumption DEF Databases
    <2>2. SumOver(e.count, Guids) = SumOver(h.count, Guids) - h.count[g] + e.count[g]
      BY <2>1, PurseSum
    <2>3. SumOver(d.count, Guids) \in Int
      <3>1. IntegerOn(d.count, Guids)
        BY <2>1 DEF IntegerOn
      <3> QED
        BY <2>1, <3>1, SumType
    <2>4. SumOver(e.count, Guids) = SumOver(d.count, Guids)
      BY <1>1, <1>4, <1>5, <1>6, <2>2, <2>3
    <2> QED
      BY <2>4 DEF UnitsSound, Sound
  <1> QED
    BY <1>1, <1>10, <1>11, <1>12, <1>13, <1>14 DEF Sound

\* The other players do not notice, whichever stacks are written already.
LEMMA PartsKeep ==
  ASSUME NEW n \in Nat, NEW k \in Nat, n <= k, NEW d, Sound(d, n),
         NEW use, Takes(d, use), NEW T, T = DOMAIN use,
         NEW p \in Players, money[p] \in Int, owed[p] \in Int,
         \A x \in T : d.inventory[x] = p, NEW g \in Guids, d.inventory[g] = None,
         NEW r \in Entries, NEW A \in AuctionMaps(k),
         NEW h, h = Reduced(d, use, T), NEW e, e = WithParts(h, p, g, r, A),
         NEW U \in SUBSET T, NEW x, x = Reduced(d, use, U)
  PROVE  /\ \A q \in Players \ {p} : KeepsPlayer(d, e, q) /\ KeepsPlayer(x, e, q)
         /\ \A q \in Players : KeepsMails(d, e, q) /\ KeepsMails(x, e, q)
  <1>1. /\ \A q \in Players \ {p} : d.money[q] = e.money[q]
        /\ e.mails = d.mails
        /\ \A y \in Guids : e.inventory[y] = IF y \in T /\ d.count[y] = use[y] THEN None
                                             ELSE d.inventory[y]
        /\ \A y \in Guids : e.count[y] = IF y = g THEN r.count
                                         ELSE IF y \in T THEN d.count[y] - use[y] ELSE d.count[y]
    BY PartsShape
  <1>2. /\ x.money = d.money /\ x.mails = d.mails
        /\ \A y \in Guids : x.count[y] = IF y \in U THEN d.count[y] - use[y] ELSE d.count[y]
        /\ \A y \in Guids : x.inventory[y] = IF y \in U /\ d.count[y] = use[y] THEN None
                                             ELSE d.inventory[y]
    BY ReducedShape DEF Sound
  <1>3. \A q \in Players : KeepsMails(d, e, q) /\ KeepsMails(x, e, q)
    BY <1>1, <1>2 DEF KeepsMails
  <1>4. ASSUME NEW q \in Players \ {p}
        PROVE  KeepsPlayer(d, e, q) /\ KeepsPlayer(x, e, q)
    <2>1. q # p /\ q # None
      BY ConstantsAssumption
    <2>2. \A y \in Guids : d.inventory[y] = q => y \notin T /\ y \notin U /\ y # g
      BY <2>1
    <2>3. \A y \in Guids : e.inventory[y] = q <=> d.inventory[y] = q
      BY <1>1, <2>1, <2>2
    <2>4. \A y \in Guids : x.inventory[y] = q <=> d.inventory[y] = q
      BY <1>2, <2>1, <2>2
    <2>5. \A y \in Guids : d.inventory[y] = q => e.count[y] = d.count[y] /\ x.count[y] = d.count[y]
      BY <1>1, <1>2, <2>2
    <2>6. e.money[q] = d.money[q] /\ x.money[q] = d.money[q]
      BY <1>1, <1>2
    <2> QED
      BY <1>3, <2>3, <2>4, <2>5, <2>6 DEF KeepsPlayer
  <1> QED
    BY <1>3, <1>4

LEMMA SellPartsStep ==
  ASSUME IInv, NEW p \in Players, NEW use, use \in Uses(p), NEW start \in StartBids,
         NEW buyout \in Buyouts, SellParts(p, use, start, buyout)
  PROVE  IInv'
  <1>1. TypeCorrect /\ LogSound /\ Saved /\ Absent /\ Waiting /\ Listed
    BY DEF IInv
  <1>d. PICK d : d = Database
    OBVIOUS
  <1>T. PICK T : T = DOMAIN use
    OBVIOUS
  <1>fresh. PICK fresh : fresh = {g \in Guids : \A x \in Range(log) : x.count[g] = 0}
    OBVIOUS
  <1>g. PICK g : g = CHOOSE x \in fresh : TRUE
    OBVIOUS
  <1>r. PICK r : r = Entry(p, g, Total(use), start, buyout)
    OBVIOUS
  <1>k. PICK k : k = lastId + 1
    OBVIOUS
  <1>s. PICK s : s = PartsTransactions(p, use, g, r)
    OBVIOUS
  <1>2. /\ p \in online
        /\ \A x \in T : bag[x] = p /\ use[x] \in 1..count[x]
        /\ fresh # {}
        /\ AddAuction(p, r)
        /\ bag' = [x \in Guids |-> IF x \in T /\ use[x] = count[x] THEN None ELSE bag[x]]
        /\ count' = [x \in Guids |-> CASE x = g -> Total(use)
                                       [] x \in T -> count[x] - use[x]
                                       [] OTHER -> count[x]]
        /\ log' = log \o s
    BY <1>T, <1>fresh, <1>g, <1>r, <1>s DEF SellParts, CommitAll
  <1>3. /\ d \in Databases(lastId) /\ lastId \in Nat /\ k \in Nat /\ lastId <= k /\ k \notin 1..lastId
        /\ money[p] \in Int /\ owed[p] \in Int /\ d.money[p] = money[p] + owed[p]
        /\ auctions = d.auctions /\ Sound(d, lastId)
    BY <1>1, <1>2, <1>d, <1>k, Memory, Current
  <1>4. d.inventory \in [Guids -> Players \cup {None}] /\ d.count \in [Guids -> Nat]
    BY <1>3 DEF Databases
  <1>5. T \subseteq Guids /\ T # {} /\ use = [x \in T |-> use[x]]
    <2>1. PICK S \in (SUBSET {x \in Guids : bag[x] = p}) \ {{}} :
            use \in [S -> 1..Max({count[x] : x \in Guids})]
      BY DEF Uses
    <2>2. S = T /\ use = [x \in T |-> use[x]]
      BY <1>T, <2>1
    <2>3. S \subseteq Guids /\ S # {}
      BY <2>1
    <2> QED
      BY <2>2, <2>3
  <1>6. /\ \A x \in T : d.inventory[x] = p /\ count[x] = d.count[x] /\ count[x] \in Nat
        /\ \A x \in T : use[x] \in Nat /\ 0 < use[x] /\ use[x] <= d.count[x]
    <2>1. \A x \in T : d.inventory[x] = p /\ count[x] = d.count[x] /\ count[x] \in Nat
      BY <1>2, <1>4, <1>5, <1>d, Memory
    <2> QED
      BY <1>2, <2>1
  <1>7. Takes(d, use)
    BY <1>5, <1>6, <1>T, ConstantsAssumption DEF Takes
  <1>8. Total(use) \in Nat
    BY <1>5, <1>7, <1>T, UnitsTaken
  <1>9. g \in Guids /\ d.count[g] = 0 /\ g \notin T
    <2>1. g \in fresh
      BY <1>2, <1>g
    <2>2. d \in Range(log)
      <3>1. d = log[Len(log)] /\ Len(log) \in DOMAIN log
        BY <1>1, <1>d, Current DEF TypeCorrect
      <3> QED
        BY <3>1 DEF Range
    <2>3. g \in Guids /\ d.count[g] = 0
      BY <1>fresh, <2>1, <2>2
    <2> QED
      BY <1>6, <2>3
  <1>10. d.inventory[g] = None /\ ~ InAuction(d, g)
    BY <1>3, <1>9 DEF Sound, PlacesApart
  <1>11. /\ r \in Entries /\ r.item = g /\ r.owner = p /\ r.bid = 0 /\ r.bidder = None
         /\ r.count = Total(use)
    BY <1>8, <1>9, <1>r, EntryTyped
  <1>12. /\ lastId' = k
         /\ auctions' = WithAuction(auctions, k, r)
         /\ auctions' \in AuctionMaps(k)
         /\ aitems' = {auctions'[a].item : a \in DOMAIN auctions'}
         /\ owed' = [owed EXCEPT ![p] = 0]
         /\ UNCHANGED <<online, loading, money, loaded, mails>>
         /\ pending' \in [Players -> Seq(1..lastId')]
         /\ mails' \in [Players -> SUBSET Letters(lastId')]
         /\ PendingOwned'
    BY <1>2, <1>11, <1>k, AddAuctionShape
  <1>h. PICK h : h = Reduced(d, use, T)
    OBVIOUS
  <1>A. PICK A : A = WithAuction(SaveGoldToDB(h, p, money[p], 0).auctions, lastId + 1, r)
    OBVIOUS
  <1>13. A = auctions' /\ A = WithAuction(d.auctions, k, r) /\ A \in AuctionMaps(k)
    <2>1. h \in Databases(lastId) /\ h.auctions = d.auctions
      BY <1>3, <1>7, <1>h, <1>T, ReducedShape
    <2>2. SaveGoldToDB(h, p, money[p], 0).auctions = h.auctions
      BY <2>1 DEF SaveGoldToDB, Databases
    <2> QED
      BY <1>3, <1>12, <1>A, <1>k, <2>1, <2>2
  <1>e. PICK e : e = WithParts(h, p, g, r, A)
    OBVIOUS
  <1>14. /\ e \in Databases(k)
         /\ e.money[p] = money[p] /\ \A q \in Players \ {p} : d.money[q] = e.money[q]
         /\ e.mails = d.mails /\ e.auctions = A
         /\ \A x \in Guids : e.inventory[x] = IF x \in T /\ d.count[x] = use[x] THEN None
                                              ELSE d.inventory[x]
         /\ \A x \in Guids : e.count[x] = IF x = g THEN r.count
                                          ELSE IF x \in T THEN d.count[x] - use[x] ELSE d.count[x]
    BY <1>3, <1>7, <1>9, <1>11, <1>13, <1>e, <1>h, <1>T, PartsShape
  <1>15. Sound(e, k)
    BY <1>3, <1>5, <1>7, <1>9, <1>11, <1>13, <1>e, <1>h, <1>T, PartsSound
  <1>X. PICK X : X = {Reduced(d, use, U) : U \in SUBSET T}
    OBVIOUS
  <1>16. /\ s \in Seq(Databases(k)) /\ s # <<>> /\ e = s[Len(s)]
         /\ \A j \in 1..Len(s) : s[j] = e \/ s[j] \in X
    <2>1. X \subseteq Databases(k)
      <3>1. X \subseteq Databases(lastId)
        BY <1>3, <1>7, <1>T, <1>X, ReducedShape
      <3> QED
        BY <1>3, <3>1, IdsGrow
    <2>2. IsFiniteSet(T)
      BY <1>5, ConstantsAssumption, FS_Subset
    <2>3. PICK front \in Seq(X) : s = front \o <<e>>
      BY <1>A, <1>d, <1>e, <1>h, <1>s, <1>T, <1>X, <2>2, PartsQueue
    <2> QED
      BY <1>14, <2>1, <2>3, AppendedTo
  <1>17. Queued(s, e)
    BY <1>2, <1>3, <1>12, <1>16 DEF Queued
  <1>18. \A x \in X : Sound(x, k)
    <2>1. \A x \in X : Sound(x, lastId)
      BY <1>3, <1>7, <1>T, <1>X, ReducedSound
    <2> QED
      BY <1>3, <2>1, IdsGrow
  <1>19. /\ \A q \in Players \ {p} : KeepsPlayer(d, e, q) /\ \A x \in X : KeepsPlayer(x, e, q)
         /\ \A q \in Players : KeepsMails(d, e, q) /\ \A x \in X : KeepsMails(x, e, q)
    <2>1. ASSUME NEW U \in SUBSET T, NEW x, x = Reduced(d, use, U)
          PROVE  /\ \A q \in Players \ {p} : KeepsPlayer(d, e, q) /\ KeepsPlayer(x, e, q)
                 /\ \A q \in Players : KeepsMails(d, e, q) /\ KeepsMails(x, e, q)
      BY <1>3, <1>6, <1>7, <1>9, <1>10, <1>11, <1>13, <1>e, <1>h, <1>T, <2>1, PartsKeep
    <2>2. {} \in SUBSET T
      OBVIOUS
    <2> QED
      BY <1>X, <2>1, <2>2
  <1>20. log' \in Seq(Databases(lastId')) /\ log' # <<>> /\ Database' = e
    BY <1>1, <1>17, QueuedLog
  <1>21. LogSound'
    <2>1. \A j \in 1..Len(s) : Sound(s[j], lastId')
      BY <1>12, <1>15, <1>16, <1>18
    <2> QED
      BY <1>1, <1>17, <2>1, LogSoundQueued
  <1>22. Waiting'
    <2>1. \A q \in Players : q \notin online =>
            /\ KeepsPlayer(Database, e, q)
            /\ \A j \in 1..Len(s) : KeepsPlayer(s[j], e, q)
      <3>1. \A q : KeepsPlayer(e, e, q)
        BY DEF KeepsPlayer, KeepsMails
      <3> QED
        BY <1>2, <1>16, <1>19, <1>d, <3>1
    <2>2. UNCHANGED loading /\ online' \subseteq online
      BY <1>12
    <2> QED
      BY <1>1, <1>17, <2>1, <2>2, WaitingQueued
  <1>23. Listed'
    <2>1. \A q \in Players : \A m \in mails[q] : m \in e.mails /\ m.to = q
      BY <1>1, <1>14, <1>d DEF Listed
    <2>2. ASSUME NEW q \in online \ loaded
          PROVE  \A i \in 1..Len(log') : KeepsMails(log'[i], Database', q)
      <3>1. q \in Players /\ KeepsMails(e, e, q)
        BY <1>1 DEF TypeCorrect, KeepsMails
      <3>2. KeepsMails(Database, e, q) /\ \A j \in 1..Len(s) : KeepsMails(s[j], e, q)
        BY <1>16, <1>19, <1>d, <3>1
      <3> QED
        BY <1>1, <1>17, <3>2, ListedQueued
    <2>3. UNCHANGED <<mails, loaded, online>> /\ Database' = e
      BY <1>12, <1>20
    <2> QED
      BY <1>1, <2>1, <2>2, <2>3 DEF Listed
  <1>24. \A x \in Guids : count'[x] = IF x = g THEN r.count
                                      ELSE IF x \in T THEN count[x] - use[x] ELSE count[x]
    BY <1>2, <1>9, <1>11
  <1>25. TypeCorrect'
    <2>1. owed' \in [Players -> Int]
      BY <1>1, <1>12 DEF TypeCorrect
    <2>2. bag' \in [Guids -> Players \cup {None}]
      BY <1>1, <1>2 DEF TypeCorrect
    <2>3. count' \in [Guids -> Nat]
      <3>1. \A x \in T : count[x] - use[x] \in Nat
        BY <1>6
      <3>2. \A x \in Guids : count'[x] \in Nat
        BY <1>1, <1>8, <1>11, <1>24, <3>1 DEF TypeCorrect
      <3> QED
        BY <1>2, <3>2
    <2> QED
      BY <1>1, <1>3, <1>12, <1>20, <2>1, <2>2, <2>3 DEF TypeCorrect
  <1>26. Saved'
    <2>1. \A x \in aitems' : count'[x] = e.count[x]
      <3>1. aitems' = aitems \cup {g}
        BY <1>2, <1>11 DEF AddAuction
      <3>2. ASSUME NEW x \in aitems
            PROVE  count'[x] = e.count[x]
        <4>1. x \in Guids /\ bag[x] = None /\ InAuction(d, x) /\ count[x] = d.count[x]
          BY <1>d, Memory
        <4>2. x # g /\ x \notin T
          BY <1>2, <1>10, <4>1, ConstantsAssumption
        <4> QED
          BY <1>14, <1>24, <4>1, <4>2
      <3>3. count'[g] = e.count[g]
        BY <1>9, <1>14, <1>24
      <3> QED
        BY <3>1, <3>2, <3>3
    <2>2. ASSUME NEW q \in online
          PROVE  /\ money[q] + owed'[q] = e.money[q]
                 /\ \A x \in Guids : bag'[x] = q <=> e.inventory[x] = q
                 /\ \A x \in Guids : bag'[x] = q => count'[x] = e.count[x]
      <3>1. /\ q \in Players /\ q # None
            /\ money[q] \in Int /\ owed[q] \in Int /\ d.money[q] = money[q] + owed[q]
            /\ \A x \in Guids : bag[x] = q <=> d.inventory[x] = q
            /\ \A x \in Guids : bag[x] = q => count[x] = d.count[x]
        BY <1>d, Memory, ConstantsAssumption
      <3>2. money[q] + owed'[q] = e.money[q]
        <4>1. owed'[q] = IF q = p THEN 0 ELSE owed[q]
          BY <1>1, <1>12, <3>1 DEF TypeCorrect
        <4> QED
          BY <1>3, <1>14, <3>1, <4>1
      <3>3. \A x \in Guids : bag'[x] = IF x \in T /\ use[x] = d.count[x] THEN None ELSE bag[x]
        BY <1>2, <1>6
      <3>4. \A x \in Guids : bag'[x] = q <=> e.inventory[x] = q
        BY <1>14, <3>1, <3>3
      <3>5. \A x \in Guids : bag[x] = q => x # g /\ count[x] = d.count[x]
        BY <1>10, <3>1
      <3>6. \A x \in Guids : bag'[x] = q => count'[x] = e.count[x]
        BY <1>14, <1>24, <3>1, <3>3, <3>5
      <3> QED
        BY <3>2, <3>4, <3>6
    <2>3. /\ Database' = e /\ online' = online /\ money' = money
          /\ auctions' = e.auctions /\ aitems' = {auctions'[a].item : a \in DOMAIN auctions'}
      BY <1>12, <1>13, <1>14, <1>20
    <2> QED
      BY <2>1, <2>2, <2>3 DEF Saved
  <1>27. Absent'
    <2>1. \A x \in Guids : bag'[x] \in online \cup {None}
      BY <1>1, <1>2 DEF Absent
    <2>2. \A q \in Players \ online : owed'[q] = 0
      BY <1>1, <1>2, <1>12 DEF Absent, TypeCorrect
    <2> QED
      BY <1>12, <2>1, <2>2 DEF Absent
  <1> QED
    BY <1>12, <1>21, <1>22, <1>23, <1>25, <1>26, <1>27 DEF IInv

-----------------------------------------------------------------------------
(* Auctions get bids and end.                                                *)

\* A transaction e that sends mails and leaves the items of the players and
\* the owners of the auctions alone.
LEMMA MailingStep ==
  ASSUME IInv, NEW d, d = Database, NEW e, Commit(e), Sound(e, lastId),
         NEW sent, SendMailTo(sent), e.mails = d.mails \cup sent,
         e.inventory = d.inventory, e.count = d.count,
         auctions' = e.auctions, aitems' = {auctions'[a].item : a \in DOMAIN auctions'},
         count' \in [Guids -> Nat], aitems' \subseteq aitems,
         \A g \in aitems' : count'[g] = count[g],
         \A g \in Guids : bag[g] # None => count'[g] = count[g],
         money' \in [Players -> Int], owed' \in [Players -> Int],
         \A q \in online : money'[q] + owed'[q] = e.money[q],
         \A q \in Players \ online : owed'[q] = 0 /\ e.money[q] = d.money[q],
         \A a \in DOMAIN auctions' : a \in DOMAIN auctions /\ auctions'[a].owner = auctions[a].owner,
         UNCHANGED <<online, loading, bag, pending, loaded, lastId>>
  PROVE  IInv'
  <1>1. TypeCorrect /\ Saved /\ Absent /\ Listed /\ PendingOwned
    BY DEF IInv
  <1>2. lastId \in Nat /\ d \in Databases(lastId) /\ e \in Databases(lastId)
    BY Memory DEF Sound
  <1>3. \A q \in Players : KeepsMails(d, e, q)
    BY DEF KeepsMails
  <1>4. /\ log' \in Seq(Databases(lastId')) /\ log' # <<>> /\ Database' = e
        /\ LogSound' /\ Waiting'
        /\ \A q \in online \ loaded : KeepsMails(d, e, q) =>
             \A i \in 1..Len(log') : KeepsMails(log'[i], e, q)
    <2>1. \A q \in Players \ online : KeepsPlayer(d, e, q)
      BY <1>3 DEF KeepsPlayer
    <2>2. /\ Sound(e, lastId') /\ lastId' \in Nat /\ lastId <= lastId'
          /\ UNCHANGED loading /\ online' \subseteq online
      BY <1>2
    <2> QED
      BY <2>1, <2>2, Committed
  <1>5. \A q \in Players : mails'[q] = mails[q] \cup {m \in sent : m.to = q /\ q \in loaded}
    BY DEF SendMailTo
  <1>6. TypeCorrect'
    <2>1. sent \subseteq Letters(lastId)
      BY <1>2 DEF Databases
    <2>2. \A q \in Players : mails'[q] \subseteq Letters(lastId)
      BY <1>1, <1>5, <2>1 DEF TypeCorrect
    <2>3. mails' \in [Players -> SUBSET Letters(lastId)]
      BY <2>2 DEF SendMailTo
    <2> QED
      BY <1>1, <1>4, <2>3 DEF TypeCorrect
  <1>7. Saved'
    <2>1. \A g \in aitems' : count'[g] = e.count[g]
      BY Memory
    <2>2. ASSUME NEW q \in online
          PROVE  /\ \A g \in Guids : bag[g] = q <=> e.inventory[g] = q
                 /\ \A g \in Guids : bag[g] = q => count'[g] = e.count[g]
      BY Memory, ConstantsAssumption
    <2>3. /\ Database' = e /\ online' = online /\ bag' = bag /\ auctions' = e.auctions
      BY <1>4
    <2> QED
      BY <2>1, <2>2, <2>3 DEF Saved
  <1>8. Absent'
    BY <1>1 DEF Absent
  <1>9. Listed'
    <2>1. \A q \in Players : \A m \in mails'[q] : m \in e.mails /\ m.to = q
      <3>1. \A q \in Players : \A m \in mails[q] : m \in d.mails /\ m.to = q
        BY <1>1 DEF Listed
      <3> QED
        BY <1>5, <3>1
    <2>2. \A q \in Players : q \notin loaded => mails'[q] = {}
      BY <1>1, <1>5 DEF Listed
    <2>3. \A q \in online \ loaded : q \in Players
      BY Memory
    <2>4. UNCHANGED <<online, loaded>> /\ Database' = e
      BY <1>4
    <2> QED
      BY <1>3, <1>4, <2>1, <2>2, <2>3, <2>4 DEF Listed
  <1>10. PendingOwned'
    BY <1>1 DEF PendingOwned
  <1> QED
    BY <1>4, <1>6, <1>7, <1>8, <1>9, <1>10 DEF IInv

\* The auctions of C leave memory with their items.
LEMMA RemoveAuctionsShape ==
  ASSUME IInv, NEW C \in SUBSET DOMAIN auctions, RemoveAuctions(C)
  PROVE  /\ auctions' = Restrict(auctions, DOMAIN auctions \ C)
         /\ DOMAIN auctions' = DOMAIN auctions \ C
         /\ \A a \in DOMAIN auctions' : auctions'[a] = auctions[a]
         /\ auctions' \in AuctionMaps(lastId)
         /\ aitems' = {auctions'[a].item : a \in DOMAIN auctions'}
         /\ aitems' \subseteq aitems
         /\ count' \in [Guids -> Nat]
         /\ \A g \in aitems' : count'[g] = count[g]
         /\ \A g \in Guids : bag[g] # None => count'[g] = count[g]
  <1>1. /\ aitems = {auctions[a].item : a \in DOMAIN auctions} /\ count \in [Guids -> Nat]
        /\ auctions = Database.auctions /\ PlacesApart(Database)
    BY Memory DEF IInv, Saved, TypeCorrect
  <1>2. \A a, b \in DOMAIN auctions : auctions[a].item = auctions[b].item => a = b
    BY <1>1 DEF PlacesApart
  <1>gone. PICK gone : gone = {auctions[a].item : a \in C}
    OBVIOUS
  <1>3. /\ auctions' = Restrict(auctions, DOMAIN auctions \ C)
        /\ aitems' = aitems \ gone
        /\ count' = [g \in Guids |-> IF g \in gone THEN 0 ELSE count[g]]
    BY <1>gone DEF RemoveAuctions
  <1>4. /\ DOMAIN auctions' = DOMAIN auctions \ C
        /\ \A a \in DOMAIN auctions' : auctions'[a] = auctions[a]
    BY <1>3 DEF Restrict
  <1>5. auctions' \in AuctionMaps(lastId)
    <2>1. lastId \in Nat /\ auctions \in AuctionMaps(lastId)
      BY Memory
    <2>2. DOMAIN auctions \subseteq 1..lastId /\ \A a \in DOMAIN auctions : auctions[a] \in Entries
      BY <2>1, AuctionMap
    <2>D. PICK D : D = DOMAIN auctions \ C
      OBVIOUS
    <2>3. D \in SUBSET (1..lastId) /\ auctions' \in [D -> Entries]
      BY <1>3, <2>2, <2>D DEF Restrict
    <2> QED
      BY <2>1, <2>3, IsAuctionMap
  <1>6. aitems' = {auctions'[a].item : a \in DOMAIN auctions'}
    <2>1. ASSUME NEW a \in DOMAIN auctions'
          PROVE  auctions'[a].item \in aitems'
      <3>1. a \in DOMAIN auctions /\ a \notin C /\ auctions'[a] = auctions[a]
        BY <1>4
      <3>2. auctions[a].item \notin gone
        BY <1>2, <1>gone, <3>1
      <3>3. auctions[a].item \in aitems
        BY <1>1, <3>1
      <3> QED
        BY <1>3, <3>1, <3>2, <3>3
    <2>2. ASSUME NEW g \in aitems'
          PROVE  \E a \in DOMAIN auctions' : g = auctions'[a].item
      <3>1. g \in aitems /\ g \notin gone
        BY <1>3
      <3>2. PICK a \in DOMAIN auctions : g = auctions[a].item
        BY <1>1, <3>1
      <3>3. a \notin C
        BY <1>gone, <3>1, <3>2
      <3> QED
        BY <1>4, <3>2, <3>3
    <2> QED
      BY <2>1, <2>2
  <1>7. gone \subseteq aitems /\ \A g \in aitems : g \in Guids /\ bag[g] = None
    BY <1>1, <1>gone, Memory
  <1>8. count' \in [Guids -> Nat]
    BY <1>1, <1>3
  <1>9. /\ \A g \in aitems' : count'[g] = count[g]
        /\ \A g \in Guids : bag[g] # None => count'[g] = count[g]
    BY <1>3, <1>7
  <1> QED
    BY <1>3, <1>4, <1>5, <1>6, <1>8, <1>9

\* ... and the database, with the mails S sent.
Deletes(f, C, S, n) ==
  f \in Databases(n) /\ C \subseteq DOMAIN f.auctions /\ S \subseteq Letters(n)

Deleted(e, f, C, S, n) ==
  /\ e \in Databases(n)
  /\ e.money = f.money /\ e.house = f.house /\ e.inventory = f.inventory
  /\ e.count = f.count /\ e.mails = f.mails \cup S
  /\ e.auctions = Restrict(f.auctions, DOMAIN f.auctions \ C)

LEMMA DeleteShape ==
  ASSUME NEW n \in Nat, NEW f, NEW C, NEW S, Deletes(f, C, S, n),
         NEW e, e = DeleteFromDB(f, C, S)
  PROVE  Deleted(e, f, C, S, n)
  <1> USE DEF Deletes, Deleted
  <1>A. PICK A : A = Restrict(f.auctions, DOMAIN f.auctions \ C)
    OBVIOUS
  <1>1. A \in AuctionMaps(n)
    <2>1. f.auctions \in AuctionMaps(n)
      BY DEF Databases
    <2>2. DOMAIN f.auctions \subseteq 1..n /\ \A a \in DOMAIN f.auctions : f.auctions[a] \in Entries
      BY <2>1, AuctionMap
    <2>D. PICK D : D = DOMAIN f.auctions \ C
      OBVIOUS
    <2>3. D \in SUBSET (1..n) /\ A \in [D -> Entries]
      BY <1>A, <2>2, <2>D DEF Restrict
    <2> QED
      BY <2>3, IsAuctionMap
  <1>2. /\ e.money = f.money /\ e.house = f.house /\ e.inventory = f.inventory
        /\ e.count = f.count /\ e.mails = f.mails \cup S /\ e.auctions = A
    BY <1>A DEF DeleteFromDB, Databases
  <1>3. e.mails \subseteq Letters(n)
    BY <1>2 DEF Databases
  <1>4. e = [f EXCEPT !.auctions = A, !.mails = f.mails \cup S]
    BY <1>A DEF DeleteFromDB
  <1>5. e \in Databases(n)
    BY <1>1, <1>3, <1>4 DEF Databases
  <1> QED
    BY <1>2, <1>5, <1>A

\* From d to e the auctions C end with the mails S, in which the items are.
Closes(d, e, C, S) ==
  /\ C \subseteq DOMAIN d.auctions
  /\ IsFiniteSet(S)
  /\ e.inventory = d.inventory /\ e.count = d.count
  /\ DOMAIN e.auctions = DOMAIN d.auctions \ C
  /\ \A a \in DOMAIN e.auctions : e.auctions[a] = d.auctions[a]
  /\ e.mails = d.mails \cup S
  /\ \A m \in S : m.auction \in C
  /\ \A m \in S : m.item # None => m.money = 0 /\ m.item = d.auctions[m.auction].item
  /\ \A c \in C : \E m \in S : m.item = d.auctions[c].item
  /\ \A m, k \in S : m.item # None /\ m.item = k.item => m = k

LEMMA ClosedSound ==
  ASSUME NEW n \in Nat, NEW d, Sound(d, n), NEW e \in Databases(n), GoldSound(e),
         NEW C, NEW S, Closes(d, e, C, S)
  PROVE  Sound(e, n)
  <1>1. /\ d \in Databases(n) /\ BidsSound(d) /\ MailsSound(d) /\ PlacesApart(d) /\ UnitsSound(d)
    BY DEF Sound
  <1>2. BidsSound(e)
    BY <1>1 DEF BidsSound, Closes
  <1>3. MailsSound(e)
    <2>1. \A m \in S : m.auction \notin DOMAIN e.auctions
      BY DEF Closes
    <2>2. \A m \in d.mails : m.auction \in DOMAIN e.auctions =>
           /\ m.auction \in DOMAIN d.auctions
           /\ e.auctions[m.auction].owner = d.auctions[m.auction].owner
           /\ m.money < d.auctions[m.auction].bid => m.money < e.auctions[m.auction].bid
      BY DEF Closes
    <2>3. /\ IsFiniteSet(S) /\ e.mails = d.mails \cup S
          /\ \A m \in S : m.item # None => m.money = 0
      BY DEF Closes
    <2> QED
      BY <1>1, <2>1, <2>2, <2>3, MailsSent
  <1>4. PlacesApart(e)
    <2>1. ItemsMailed(d, e, C, S)
      BY DEF Closes, ItemsMailed
    <2> QED
      BY <1>1, <2>1, PlacesMailed
  <1>5. UnitsSound(e)
    BY <1>1 DEF UnitsSound, Closes
  <1> QED
    BY <1>2, <1>3, <1>4, <1>5 DEF Sound

\* The bid of an auction that is removed.
LEMMA BidGoldClose ==
  ASSUME NEW n \in Nat, NEW A \in AuctionMaps(n), NEW c \in DOMAIN A, NEW B,
         DOMAIN B = DOMAIN A \ {c}, \A a \in DOMAIN B : B[a] = A[a]
  PROVE  BidGold(B) = BidGold(A) - A[c].bid
  <1>f. PICK f : f = [a \in {c} |-> A[a].bid]
    OBVIOUS
  <1>1. BidGold(B) = BidGold(A) - SumOver(f, {c})
    BY <1>f, BidGoldRemove
  <1>2. A[c].bid \in Int
    BY AuctionMap DEF Entries
  <1>3. IsFiniteSet({c}) /\ IntegerOn(f, {c}) /\ f[c] = A[c].bid /\ {c} \ {c} = {}
    BY <1>2, <1>f, FS_Singleton DEF IntegerOn
  <1>4. SumOver(f, {c}) = f[c] + SumOver(f, {c} \ {c})
    BY <1>3, SumRemove
  <1>5. SumOver(f, {c}) = A[c].bid
    BY <1>2, <1>3, <1>4, SumEmpty
  <1> QED
    BY <1>1, <1>5

\* The mails of an auction that ends have not been sent before.
LEMMA MailGoldSent ==
  ASSUME NEW n \in Nat, NEW d, Sound(d, n), NEW S \in SUBSET Letters(n), IsFiniteSet(S),
         \A m \in S : /\ m.auction \in DOMAIN d.auctions
                      /\ \/ m.item # None
                         \/ m.to = d.auctions[m.auction].owner
                         \/ m.money = d.auctions[m.auction].bid
  PROVE  /\ S \cap d.mails = {}
         /\ MailGold(S) \in Int
         /\ MailGold(d.mails \cup S) = MailGold(d.mails) + MailGold(S)
  <1>1. d \in Databases(n) /\ MailsSound(d) /\ IsFiniteSet(d.mails)
    BY DEF Sound, MailsSound
  <1>2. \A m \in S : m \notin d.mails
    BY <1>1, MailsNew
  <1>3. \A m \in d.mails \cup S : m.money \in Int
    BY <1>1 DEF Databases, Letters
  <1>4. d.mails \cap S = {}
    BY <1>2
  <1>5. MailGold(d.mails \cup S) = MailGold(d.mails) + MailGold(S)
    BY <1>1, <1>3, <1>4, MailGoldAdd
  <1>6. MailGold(S) \in Int
    BY <1>3, MailGoldIs
  <1> QED
    BY <1>4, <1>5, <1>6

\* The mails S with which the auction a ends, whose entry is r.
Answers(S, a, r) ==
  /\ S \subseteq Letters(lastId) /\ IsFiniteSet(S)
  /\ \A m \in S : m.auction = a
  /\ \A m \in S : m.item # None => m.money = 0 /\ m.item = r.item
  /\ \E m \in S : m.item = r.item
  /\ \A m, k \in S : m.item # None /\ m.item = k.item => m = k
  /\ \A m \in S : m.item # None \/ m.to = r.owner \/ m.money = r.bid

\* p ends the auction a at a price, of which the house keeps a fee.
LEMMA ClosedStep ==
  ASSUME IInv, NEW p \in online, NEW a \in DOMAIN auctions, NEW price \in Int, NEW fee \in Int,
         NEW r, r = auctions[a],
         NEW S, Answers(S, a, r), MailGold(S) = r.bid + price - fee,
         Pay(p, price), SendMailTo(S), RemoveAuctions({a}),
         Commit(DeleteFromDB(SaveGoldToDB(Database, p, money[p] - price, fee), {a}, S)),
         UNCHANGED <<online, loading, bag, pending, loaded, lastId>>
  PROVE  IInv'
  <1>d. PICK d : d = Database
    OBVIOUS
  <1>v. PICK v : v = money[p] - price
    OBVIOUS
  <1>f. PICK f : f = SaveGoldToDB(d, p, v, fee)
    OBVIOUS
  <1>C. PICK C : C = {a}
    OBVIOUS
  <1>e. PICK e : e = DeleteFromDB(f, C, S)
    OBVIOUS
  <1>1. /\ d \in Databases(lastId) /\ lastId \in Nat /\ Sound(d, lastId)
        /\ p \in Players /\ money[p] \in Int /\ owed[p] \in Int /\ v \in Int
        /\ d.money[p] = money[p] + owed[p]
        /\ auctions = d.auctions /\ auctions \in AuctionMaps(lastId)
    BY <1>d, <1>v, Memory, Current DEF IInv
  <1>2. /\ f \in Databases(lastId) /\ f.money = [d.money EXCEPT ![p] = v]
        /\ f.house = d.house + owed[p] + fee
        /\ f.inventory = d.inventory /\ f.count = d.count /\ f.auctions = d.auctions
        /\ f.mails = d.mails
    BY <1>1, <1>f, SaveShape
  <1>3. /\ e \in Databases(lastId)
        /\ e.money = f.money /\ e.house = f.house /\ e.inventory = f.inventory
        /\ e.count = f.count /\ e.mails = f.mails \cup S
        /\ e.auctions = Restrict(f.auctions, DOMAIN f.auctions \ C)
    <2>1. Deletes(f, C, S, lastId)
      BY <1>1, <1>2, <1>C DEF Answers, Deletes
    <2> QED
      <3>1. lastId \in Nat
        BY <1>1
      <3>2. Deleted(e, f, C, S, lastId)
        BY <1>e, <2>1, <3>1, DeleteShape
      <3> QED
        BY <3>2 DEF Deleted
  <1>4. /\ auctions' = Restrict(auctions, DOMAIN auctions \ C)
        /\ DOMAIN auctions' = DOMAIN auctions \ C
        /\ \A x \in DOMAIN auctions' : auctions'[x] = auctions[x]
        /\ aitems' = {auctions'[x].item : x \in DOMAIN auctions'}
        /\ aitems' \subseteq aitems
        /\ count' \in [Guids -> Nat]
        /\ \A g \in aitems' : count'[g] = count[g]
        /\ \A g \in Guids : bag[g] # None => count'[g] = count[g]
    <2>1. C \in SUBSET DOMAIN auctions /\ RemoveAuctions(C)
      BY <1>C
    <2> QED
      BY <2>1, RemoveAuctionsShape
  <1>5. /\ e.auctions = auctions' /\ e.mails = d.mails \cup S
        /\ e.inventory = d.inventory /\ e.count = d.count
        /\ DOMAIN e.auctions = DOMAIN d.auctions \ C
        /\ \A x \in DOMAIN e.auctions : e.auctions[x] = d.auctions[x]
    <2>1. e.auctions = auctions'
      BY <1>1, <1>2, <1>3, <1>4
    <2> QED
      BY <1>1, <1>2, <1>3, <1>4, <2>1
  <1>6. /\ e.money[p] = v /\ \A q \in Players \ {p} : d.money[q] = e.money[q]
        /\ e.house = d.house + owed[p] + fee /\ d.house \in Int
    BY <1>1, <1>2, <1>3 DEF Databases
  <1>7. r.bid \in Int
    BY <1>1, AuctionMap DEF Entries
  <1>8. GoldSound(e)
    <2>1. BidGold(e.auctions) = BidGold(d.auctions) - r.bid
      <3>1. /\ d.auctions \in AuctionMaps(lastId) /\ lastId \in Nat /\ a \in DOMAIN d.auctions
            /\ DOMAIN e.auctions = DOMAIN d.auctions \ {a}
            /\ \A x \in DOMAIN e.auctions : e.auctions[x] = d.auctions[x]
        BY <1>1, <1>5, <1>C
      <3>2. BidGold(e.auctions) = BidGold(d.auctions) - d.auctions[a].bid
        BY <3>1, BidGoldClose, Zenon
      <3> QED
        BY <1>1, <3>2
    <2>2. MailGold(e.mails) = MailGold(d.mails) + MailGold(S)
      <3>1. \A m \in S : /\ m.auction \in DOMAIN d.auctions
                         /\ \/ m.item # None
                            \/ m.to = d.auctions[m.auction].owner
                            \/ m.money = d.auctions[m.auction].bid
        BY <1>1 DEF Answers
      <3>2. S \in SUBSET Letters(lastId) /\ IsFiniteSet(S)
        BY DEF Answers
      <3>3. MailGold(d.mails \cup S) = MailGold(d.mails) + MailGold(S)
        BY <1>1, <3>1, <3>2, MailGoldSent
      <3> QED
        BY <1>5, <3>3
    <2>3. IsFiniteSet(d.mails) /\ GoldSound(d)
      BY <1>1 DEF Sound, MailsSound
    <2>x. PICK x \in Int : x = r.bid + price - fee
      BY <1>7
    <2>y. PICK y \in Int : y = 0 - r.bid
      BY <1>7
    <2>4. BidGold(d.auctions) \in Int
      BY <1>1, BidGoldIs
    <2>5. BidGold(e.auctions) = BidGold(d.auctions) + y /\ MailGold(e.mails) = MailGold(d.mails) + x
      BY <1>7, <2>1, <2>2, <2>4, <2>x, <2>y
    <2>6. e.house = d.house + (d.money[p] - e.money[p]) - x - y
      <3>h. PICK h \in Int : h = d.house
        BY <1>6
      <3>m. PICK m \in Int : m = money[p]
        BY <1>1
      <3>o. PICK o \in Int : o = owed[p]
        BY <1>1
      <3>b. PICK b \in Int : b = r.bid
        BY <1>7
      <3>1. /\ e.house = h + o + fee /\ d.house = h
            /\ d.money[p] = m + o /\ e.money[p] = m - price
            /\ x = b + price - fee /\ y = 0 - b
        BY <1>1, <1>6, <1>v, <2>x, <2>y, <3>h, <3>m, <3>o, <3>b
      <3>2. h + o + fee = h + ((m + o) - (m - price)) - (b + price - fee) - (0 - b)
        OBVIOUS
      <3> QED
        BY <3>1, <3>2
    <2>7. d \in Databases(lastId) /\ e \in Databases(lastId) /\ lastId \in Nat /\ p \in Players
      BY <1>1, <1>3
    <2>8. \A q \in Players \ {p} : d.money[q] = e.money[q]
      BY <1>6
    <2> QED
      BY <2>3, <2>5, <2>6, <2>7, <2>8, GoldKept
  <1>9. Sound(e, lastId)
    <2>1. C \in SUBSET DOMAIN d.auctions /\ \A m \in S : m.auction \in C
      BY <1>1, <1>C DEF Answers
    <2>2. \A m \in S : m.item # None => m.money = 0 /\ m.item = d.auctions[m.auction].item
      BY <1>1 DEF Answers
    <2>3. \A c \in C : \E m \in S : m.item = d.auctions[c].item
      BY <1>1, <1>C DEF Answers
    <2>4. Closes(d, e, C, S)
      BY <1>5, <2>1, <2>2, <2>3 DEF Closes, Answers
    <2> QED
      BY <1>1, <1>3, <1>8, <2>4, ClosedSound
  <1>10. /\ money' = [money EXCEPT ![p] = v]
         /\ owed' = [owed EXCEPT ![p] = 0]
    BY <1>v DEF Pay
  <1>11. /\ money \in [Players -> Int] /\ owed \in [Players -> Int] /\ online \subseteq Players
         /\ \A q \in Players \ online : owed[q] = 0
         /\ \A q \in online : money[q] + owed[q] = d.money[q]
    BY <1>d, Memory DEF IInv, TypeCorrect, Absent
  <1>12. money' \in [Players -> Int] /\ owed' \in [Players -> Int]
    BY <1>1, <1>10, <1>11
  <1>13. \A q \in online : money'[q] + owed'[q] = e.money[q]
    BY <1>1, <1>6, <1>10, <1>11
  <1>14. \A q \in Players \ online : owed'[q] = 0 /\ e.money[q] = d.money[q]
    BY <1>6, <1>10, <1>11
  <1>15. Commit(e) /\ d = Database
    BY <1>d, <1>v, <1>f, <1>C, <1>e
  <1>16. \A x \in DOMAIN auctions' : x \in DOMAIN auctions /\ auctions'[x].owner = auctions[x].owner
    BY <1>4
  <1>17. /\ auctions' = e.auctions /\ aitems' = {auctions'[x].item : x \in DOMAIN auctions'}
         /\ count' \in [Guids -> Nat] /\ aitems' \subseteq aitems
         /\ \A g \in aitems' : count'[g] = count[g]
         /\ \A g \in Guids : bag[g] # None => count'[g] = count[g]
         /\ e.mails = d.mails \cup S /\ e.inventory = d.inventory /\ e.count = d.count
    BY <1>4, <1>5
  <1> QED
    BY <1>9, <1>12, <1>13, <1>14, <1>15, <1>16, <1>17, MailingStep

LEMMA CutTyped ==
  ASSUME NEW r, r.bid \in Nat
  PROVE  GetAuctionCut(r) \in Int
  <1>1. CutRate \in Nat
    BY ConstantsAssumption
  <1>2. r.bid * CutRate \in Int
    BY <1>1
  <1> QED
    BY <1>2 DEF GetAuctionCut

LEMMA MailTyped ==
  ASSUME NEW n, NEW to \in Players, NEW a \in 1..n, NEW gold \in Int,
         NEW item \in Guids \cup {None}
  PROVE  /\ Mail(to, a, gold, item) \in Letters(n)
         /\ Mail(to, a, gold, item).to = to /\ Mail(to, a, gold, item).auction = a
         /\ Mail(to, a, gold, item).money = gold /\ Mail(to, a, gold, item).item = item
  BY DEF Mail, Letters

\* The entry of an auction.
LEMMA EntryOf ==
  ASSUME IInv, NEW a \in DOMAIN auctions, NEW r, r = auctions[a]
  PROVE  /\ a \in 1..lastId /\ lastId \in Nat
         /\ r.item \in Guids /\ r.item \in aitems /\ r.item # None
         /\ r.owner \in Players /\ r.owner # None
         /\ r.bidder \in Players \cup {None} /\ r.bidder # r.owner
         /\ r.bid \in Nat /\ r.buyout \in Nat /\ r.deposit \in Int
         /\ r.bidder = None <=> r.bid = 0
  <1>1. /\ auctions = Database.auctions /\ BidsSound(Database) /\ lastId \in Nat
        /\ a \in 1..lastId /\ r \in Entries
    BY Memory
  <1>2. r.bidder # r.owner /\ (r.bidder = None <=> r.bid = 0)
    BY <1>1 DEF BidsSound
  <1>3. r.item \in aitems
    BY DEF IInv, Saved
  <1> QED
    BY <1>1, <1>2, <1>3, ConstantsAssumption DEF Entries

\* The overbid bidder is mailed his bid.
LEMMA RefundShape ==
  ASSUME IInv, NEW p \in Players, NEW a \in DOMAIN auctions, NEW r, r = auctions[a],
         NEW S, S = Refund(p, a, r)
  PROVE  /\ S \subseteq Letters(lastId) /\ IsFiniteSet(S)
         /\ \A m \in S : /\ m.auction = a /\ m.item = None /\ m.money = r.bid
                         /\ m.to = r.bidder /\ m.to # r.owner /\ m.to # p
         /\ r.bidder \in {None, p} => S = {}
         /\ r.bidder \notin {None, p} => S = {Mail(r.bidder, a, r.bid, None)}
         /\ MailGold(S) = IF r.bidder = p THEN 0 ELSE r.bid
  <1>1. /\ a \in 1..lastId /\ r.bid \in Nat /\ r.bidder \in Players \cup {None}
        /\ r.bidder # r.owner /\ (r.bidder = None <=> r.bid = 0)
    BY EntryOf
  <1>2. CASE r.bidder \in {None, p}
    <2>1. S = {}
      BY <1>2 DEF Refund
    <2>2. IsFiniteSet({}) /\ MailGold({}) = 0
      BY FS_EmptySet, MailGoldNone
    <2>3. IsFiniteSet(S) /\ MailGold(S) = 0
      BY <2>1, <2>2
    <2> QED
      BY <1>1, <1>2, <2>1, <2>3
  <1>3. CASE r.bidder \notin {None, p}
    <2>m. PICK m : m = Mail(r.bidder, a, r.bid, None)
      OBVIOUS
    <2>1. S = {m}
      BY <1>3, <2>m DEF Refund, SendAuctionOutbiddedMail
    <2>2. r.bidder \in Players /\ r.bid \in Int /\ None \in Guids \cup {None} /\ r.bidder # p
      BY <1>1, <1>3
    <2>3. /\ m \in Letters(lastId) /\ m.to = r.bidder /\ m.auction = a /\ m.money = r.bid
          /\ m.item = None
      BY <1>1, <2>2, <2>m, MailTyped
    <2>4. MailGold({m}) = m.money
      BY <2>2, <2>3, MailGoldOne
    <2>5. IsFiniteSet({m})
      BY FS_Singleton
    <2>6. IsFiniteSet(S) /\ MailGold(S) = r.bid
      BY <2>1, <2>3, <2>4, <2>5
    <2> QED
      BY <1>1, <1>3, <2>1, <2>2, <2>3, <2>6, <2>m
  <1> QED
    BY <1>2, <1>3

LEMMA BuyoutStep ==
  ASSUME IInv, NEW p \in Players, NEW a \in DOMAIN auctions, NEW amount, Buyout(p, a, amount)
  PROVE  IInv'
  <1>r. PICK r : r = auctions[a]
    OBVIOUS
  <1>sold. PICK sold : sold = [r EXCEPT !.bidder = p, !.bid = r.buyout]
    OBVIOUS
  <1>R. PICK R : R = Refund(p, a, r)
    OBVIOUS
  <1>m. PICK m : m = Mail(r.owner, a, Profit(sold), None)
    OBVIOUS
  <1>k. PICK k : k = Mail(p, a, 0, r.item)
    OBVIOUS
  <1>S. PICK S : S = R \cup {m} \cup {k}
    OBVIOUS
  <1>price. PICK price : price = Owes(p, r, r.buyout)
    OBVIOUS
  <1>fee. PICK fee : fee = Earned(sold)
    OBVIOUS
  <1>1. /\ a \in 1..lastId /\ lastId \in Nat
        /\ r.item \in Guids /\ r.item \in aitems /\ r.item # None
        /\ r.owner \in Players
        /\ r.bidder \in Players \cup {None} /\ r.bidder # r.owner
        /\ r.bid \in Nat /\ r.buyout \in Nat /\ r.deposit \in Int
        /\ r.bidder = None <=> r.bid = 0
    BY <1>r, EntryOf
  <1>2. sold.bid = r.buyout /\ sold.deposit = r.deposit /\ sold.owner = r.owner
        /\ sold.bidder = p /\ sold.item = r.item
    <2>1. r \in Entries
      BY <1>r, Memory
    <2> QED
      BY <1>sold, <2>1 DEF Entries
  <1>3. SendAuctionSuccessfulMail(a, sold) = {m} /\ SendAuctionWonMail(a, sold) = {k}
    BY <1>1, <1>2, <1>m, <1>k DEF SendAuctionSuccessfulMail, SendAuctionWonMail
  <1>4. /\ p \in online /\ Pay(p, price) /\ SendMailTo(S) /\ RemoveAuctions({a})
        /\ Commit(DeleteFromDB(SaveGoldToDB(Database, p, money[p] - price, fee), {a}, S))
        /\ UNCHANGED <<online, loading, bag, pending, loaded, lastId>>
    BY <1>3, <1>r, <1>sold, <1>R, <1>S, <1>price, <1>fee
    DEF Buyout, MayBid, sessionVars, pendingVars
  <1>5. /\ GetAuctionCut(sold) \in Int
        /\ Profit(sold) = r.buyout + r.deposit - GetAuctionCut(sold)
        /\ fee = GetAuctionCut(sold) - r.deposit
        /\ Profit(sold) \in Int /\ fee \in Int
    <2>1. GetAuctionCut(sold) \in Int
      BY <1>1, <1>2, CutTyped
    <2> QED
      BY <1>1, <1>2, <1>fee, <2>1 DEF Profit, Earned
  <1>6. price \in Int /\ price = IF r.bidder = p THEN r.buyout - r.bid ELSE r.buyout
    BY <1>1, <1>price DEF Owes
  <1>7. /\ m \in Letters(lastId) /\ m.to = r.owner /\ m.auction = a
        /\ m.money = Profit(sold) /\ m.item = None
    <2>1. PICK x \in Int : x = Profit(sold)
      BY <1>5
    <2>2. r.owner \in Players /\ a \in 1..lastId /\ None \in Guids \cup {None} /\ m = Mail(r.owner, a, x, None)
      BY <1>1, <1>m, <2>1
    <2>3. /\ m \in Letters(lastId) /\ m.to = r.owner /\ m.auction = a /\ m.money = x /\ m.item = None
      BY <2>2, MailTyped
    <2> QED
      BY <2>1, <2>3
  <1>8. /\ k \in Letters(lastId) /\ k.to = p /\ k.auction = a /\ k.money = 0 /\ k.item = r.item
    <2>1. PICK x \in Int : x = 0
      OBVIOUS
    <2>2. r.item \in Guids \cup {None} /\ a \in 1..lastId /\ k = Mail(p, a, x, r.item)
      BY <1>1, <1>k, <2>1
    <2>3. /\ k \in Letters(lastId) /\ k.to = p /\ k.auction = a /\ k.money = x /\ k.item = r.item
      BY <2>2, MailTyped
    <2> QED
      BY <2>1, <2>3
  <1>9. /\ R \subseteq Letters(lastId) /\ IsFiniteSet(R)
        /\ \A x \in R : /\ x.auction = a /\ x.item = None /\ x.money = r.bid
                        /\ x.to # r.owner /\ x.to # p
        /\ MailGold(R) = IF r.bidder = p THEN 0 ELSE r.bid
    BY <1>r, <1>R, RefundShape
  <1>10. Answers(S, a, r)
    <2>1. IsFiniteSet(S)
      BY <1>9, <1>S, FS_Singleton, FS_Union
    <2>2. S \subseteq Letters(lastId)
      BY <1>7, <1>8, <1>9, <1>S
    <2>3. \A x \in S : x = m \/ x = k \/ x \in R
      BY <1>S
    <2>4. \A x \in S : x.auction = a /\ (x.item # None => x = k)
      BY <1>7, <1>8, <1>9, <2>3
    <2>5. \A x \in S : x.item # None \/ x.to = r.owner \/ x.money = r.bid
      BY <1>1, <1>7, <1>8, <1>9, <2>3
    <2>6. k \in S
      BY <1>S
    <2> QED
      BY <1>8, <2>1, <2>2, <2>4, <2>5, <2>6 DEF Answers
  <1>11. MailGold(S) = r.bid + price - fee
    <2>1. k \notin R \cup {m} /\ m \notin R
      BY <1>1, <1>7, <1>8, <1>9
    <2>2. \A x \in R \cup {m} \cup {k} : x.money \in Int
      BY <1>1, <1>5, <1>7, <1>8, <1>9
    <2>3. IsFiniteSet({m}) /\ IsFiniteSet({k}) /\ IsFiniteSet(R \cup {m})
      BY <1>9, FS_Singleton, FS_Union
    <2>4. MailGold(R \cup {m}) = MailGold(R) + MailGold({m})
      BY <1>9, <2>1, <2>2, <2>3, MailGoldAdd
    <2>5. MailGold((R \cup {m}) \cup {k}) = MailGold(R \cup {m}) + MailGold({k})
      BY <2>1, <2>2, <2>3, MailGoldAdd
    <2>6. MailGold({m}) = m.money /\ MailGold({k}) = k.money
      BY <2>2, MailGoldOne
    <2>7. MailGold(S) = (IF r.bidder = p THEN 0 ELSE r.bid) + Profit(sold) + 0
      BY <1>7, <1>8, <1>9, <1>S, <2>4, <2>5, <2>6
    <2> QED
      BY <1>1, <1>5, <1>6, <2>7
  <1> QED
    BY <1>4, <1>5, <1>6, <1>10, <1>11, <1>r, ClosedStep

LEMMA RemoveItemStep ==
  ASSUME IInv, NEW p \in Players, NEW a \in DOMAIN auctions, RemoveItem(p, a)
  PROVE  IInv'
  <1>r. PICK r : r = auctions[a]
    OBVIOUS
  <1>k. PICK k : k = Mail(p, a, 0, r.item)
    OBVIOUS
  <1>R. PICK R : R = IF r.bidder = None THEN {} ELSE {Mail(r.bidder, a, r.bid, None)}
    OBVIOUS
  <1>S. PICK S : S = {k} \cup R
    OBVIOUS
  <1>cut. PICK cut : cut = IF r.bidder = None THEN 0 ELSE GetAuctionCut(r)
    OBVIOUS
  <1>1. /\ a \in 1..lastId /\ lastId \in Nat
        /\ r.item \in Guids /\ r.item \in aitems /\ r.item # None
        /\ r.owner \in Players
        /\ r.bidder \in Players \cup {None} /\ r.bidder # r.owner
        /\ r.bid \in Nat
        /\ r.bidder = None <=> r.bid = 0
    BY <1>r, EntryOf
  <1>2. /\ p \in online /\ r.owner = p /\ Pay(p, cut) /\ SendMailTo(S) /\ RemoveAuctions({a})
        /\ Commit(DeleteFromDB(SaveGoldToDB(Database, p, money[p] - cut, cut), {a}, S))
        /\ UNCHANGED <<online, loading, bag, pending, loaded, lastId>>
    BY <1>r, <1>k, <1>R, <1>S, <1>cut
    DEF RemoveItem, SendAuctionCancelledToBidderMail, sessionVars, pendingVars
  <1>3. cut \in Int
    BY <1>1, <1>cut, CutTyped
  <1>4. /\ k \in Letters(lastId) /\ k.auction = a /\ k.money = 0 /\ k.item = r.item
    <2>1. PICK x \in Int : x = 0
      OBVIOUS
    <2>2. r.item \in Guids \cup {None} /\ a \in 1..lastId /\ k = Mail(p, a, x, r.item)
      BY <1>1, <1>k, <2>1
    <2>3. /\ k \in Letters(lastId) /\ k.to = p /\ k.auction = a /\ k.money = x /\ k.item = r.item
      BY <2>2, MailTyped
    <2> QED
      BY <2>1, <2>3
  <1>5. /\ R \subseteq Letters(lastId) /\ IsFiniteSet(R)
        /\ \A x \in R : x.auction = a /\ x.item = None /\ x.money = r.bid
        /\ MailGold(R) = r.bid
    <2>1. CASE r.bidder = None
      <3>1. R = {} /\ r.bid = 0
        BY <1>1, <1>R, <2>1
      <3>2. IsFiniteSet({}) /\ MailGold({}) = 0
        BY FS_EmptySet, MailGoldNone
      <3> QED
        BY <3>1, <3>2
    <2>2. CASE r.bidder # None
      <3>m. PICK m : m = Mail(r.bidder, a, r.bid, None)
        OBVIOUS
      <3>1. R = {m}
        BY <1>R, <2>2, <3>m
      <3>2. r.bidder \in Players /\ r.bid \in Int /\ None \in Guids \cup {None}
        BY <1>1, <2>2
      <3>3. m \in Letters(lastId) /\ m.auction = a /\ m.money = r.bid /\ m.item = None
        BY <1>1, <3>2, <3>m, MailTyped
      <3>4. MailGold({m}) = m.money /\ IsFiniteSet({m})
        BY <3>2, <3>3, MailGoldOne, FS_Singleton
      <3> QED
        BY <3>1, <3>3, <3>4
    <2> QED
      BY <2>1, <2>2
  <1>6. Answers(S, a, r)
    <2>1. IsFiniteSet(S)
      BY <1>5, <1>S, FS_Singleton, FS_Union
    <2>2. S \subseteq Letters(lastId)
      BY <1>4, <1>5, <1>S
    <2>3. \A x \in S : x = k \/ x \in R
      BY <1>S
    <2>4. \A x \in S : x.auction = a /\ (x.item # None => x = k) /\ (x.item # None \/ x.money = r.bid)
      BY <1>1, <1>4, <1>5, <2>3
    <2>5. k \in S
      BY <1>S
    <2> QED
      BY <1>4, <2>1, <2>2, <2>4, <2>5 DEF Answers
  <1>7. MailGold(S) = r.bid + cut - cut
    <2>1. {k} \cap R = {}
      BY <1>1, <1>4, <1>5
    <2>2. \A x \in {k} \cup R : x.money \in Int
      BY <1>1, <1>4, <1>5
    <2>3. IsFiniteSet({k})
      BY FS_Singleton
    <2>4. MailGold({k} \cup R) = MailGold({k}) + MailGold(R)
      BY <1>5, <2>1, <2>2, <2>3, MailGoldAdd
    <2>5. MailGold({k}) = k.money
      BY <2>2, MailGoldOne
    <2>6. MailGold(S) = 0 + r.bid
      BY <1>4, <1>5, <1>S, <2>4, <2>5
    <2> QED
      BY <1>1, <1>3, <2>6
  <1> QED
    BY <1>2, <1>3, <1>6, <1>7, <1>r, ClosedStep

\* p bids for the auction a.
RaiseBid(A, a, p, amount) == [A EXCEPT ![a].bidder = p, ![a].bid = amount]

LEMMA RaiseBidShape ==
  ASSUME NEW n \in Nat, NEW A \in AuctionMaps(n), NEW a \in DOMAIN A, NEW p \in Players,
         NEW amount \in Nat, NEW B, B = RaiseBid(A, a, p, amount)
  PROVE  /\ B \in AuctionMaps(n)
         /\ DOMAIN B = DOMAIN A /\ \A x \in DOMAIN A \ {a} : B[x] = A[x]
         /\ B[a].bidder = p /\ B[a].bid = amount
         /\ B[a].owner = A[a].owner /\ B[a].item = A[a].item
  <1>1. DOMAIN A \subseteq 1..n /\ \A x \in DOMAIN A : A[x] \in Entries
    BY AuctionMap
  <1>2. A = [x \in DOMAIN A |-> A[x]]
    BY AuctionMap
  <1>3. DOMAIN B = DOMAIN A /\ \A x \in DOMAIN A \ {a} : B[x] = A[x]
    BY <1>2 DEF RaiseBid
  <1>4. B[a] = [A[a] EXCEPT !.bidder = p, !.bid = amount]
    BY <1>2 DEF RaiseBid
  <1>5. /\ B[a] \in Entries
        /\ B[a].bidder = p /\ B[a].bid = amount
        /\ B[a].owner = A[a].owner /\ B[a].item = A[a].item
    <2>1. A[a] \in Entries
      BY <1>1
    <2> QED
      BY <1>4, <2>1 DEF Entries
  <1>6. B = [x \in DOMAIN A |-> B[x]]
    BY <1>2 DEF RaiseBid
  <1>7. B \in AuctionMaps(n)
    <2>D. PICK D : D = DOMAIN A
      OBVIOUS
    <2>1. D \in SUBSET (1..n) /\ \A x \in D : B[x] \in Entries
      BY <1>1, <1>3, <1>5, <2>D
    <2>2. B \in [D -> Entries]
      BY <1>6, <2>1, <2>D
    <2> QED
      BY <2>1, <2>2, IsAuctionMap
  <1> QED
    BY <1>3, <1>5, <1>7

\* The auctions become B and the mails S are sent.
WithMails(f, B, S) == [f EXCEPT !.auctions = B, !.mails = @ \cup S]

LEMMA WithMailsShape ==
  ASSUME NEW n \in Nat, NEW f \in Databases(n), NEW B \in AuctionMaps(n), NEW S,
         S \subseteq Letters(n), NEW e, e = WithMails(f, B, S)
  PROVE  /\ e \in Databases(n)
         /\ e.money = f.money /\ e.house = f.house /\ e.inventory = f.inventory
         /\ e.count = f.count /\ e.mails = f.mails \cup S /\ e.auctions = B
  <1>1. /\ e.money = f.money /\ e.house = f.house /\ e.inventory = f.inventory
        /\ e.count = f.count /\ e.mails = f.mails \cup S /\ e.auctions = B
    BY DEF WithMails, Databases
  <1>2. e.mails \subseteq Letters(n)
    BY <1>1 DEF Databases
  <1>3. e = [f EXCEPT !.auctions = B, !.mails = f.mails \cup S]
    BY DEF WithMails
  <1>4. e \in Databases(n)
    BY <1>1, <1>2, <1>3 DEF Databases
  <1> QED
    BY <1>1, <1>4

LEMMA BidIsMails ==
  ASSUME NEW n \in Nat, NEW p, NEW a, NEW r, NEW amount,
         NEW f \in Databases(n), f = SaveGoldToDB(Database, p, money[p] - Owes(p, r, amount), 0)
  PROVE  BidTransaction(p, a, r, amount) =
           WithMails(f, RaiseBid(f.auctions, a, p, amount), Refund(p, a, r))
  <1>1. BidTransaction(p, a, r, amount) =
          [f EXCEPT !.auctions[a].bidder = p, !.auctions[a].bid = amount,
                    !.mails = @ \cup Refund(p, a, r)]
    BY DEF BidTransaction
  <1>f. PICK R : R = Refund(p, a, r)
    OBVIOUS
  <1>2. PICK A : A = f.auctions
    OBVIOUS
  <1>3. PICK X : X = [A EXCEPT ![a].bidder = p]
    OBVIOUS
  <1>4. PICK Y : Y = [X EXCEPT ![a].bid = amount]
    OBVIOUS
  <1>5. PICK g : g = [f EXCEPT !.auctions = X]
    OBVIOUS
  <1>6. g.auctions = X /\ [g EXCEPT !.auctions = Y] = [f EXCEPT !.auctions = Y]
    BY <1>5 DEF Databases
  <1>7. g = [f EXCEPT !.auctions[a].bidder = p]
    BY <1>2, <1>3, <1>5
  <1>8. [g EXCEPT !.auctions[a].bid = amount] = [f EXCEPT !.auctions = Y]
    BY <1>4, <1>6
  <1>9. Y = RaiseBid(A, a, p, amount)
    BY <1>3, <1>4 DEF RaiseBid
  <1> QED
    BY <1>1, <1>2, <1>7, <1>8, <1>9, <1>f DEF WithMails

LEMMA PlaceBidStep ==
  ASSUME IInv, NEW p \in Players, NEW a \in DOMAIN auctions, NEW amount \in Bids,
         PlaceBid(p, a, amount)
  PROVE  IInv'
  <1>d. PICK d : d = Database
    OBVIOUS
  <1>r. PICK r : r = auctions[a]
    OBVIOUS
  <1>S. PICK S : S = Refund(p, a, r)
    OBVIOUS
  <1>price. PICK price : price = Owes(p, r, amount)
    OBVIOUS
  <1>v. PICK v : v = money[p] - price
    OBVIOUS
  <1>z. PICK z \in Int : z = 0
    OBVIOUS
  <1>f. PICK f : f = SaveGoldToDB(d, p, v, z)
    OBVIOUS
  <1>B. PICK B : B = RaiseBid(auctions, a, p, amount)
    OBVIOUS
  <1>e. PICK e : e = WithMails(f, B, S)
    OBVIOUS
  <1>1. /\ a \in 1..lastId /\ lastId \in Nat
        /\ r.item \in Guids /\ r.item # None /\ r.owner \in Players
        /\ r.bidder \in Players \cup {None} /\ r.bidder # r.owner /\ r.bid \in Nat
        /\ r.bidder = None <=> r.bid = 0
    BY <1>r, EntryOf
  <1>2. /\ p \in online /\ r.owner # p /\ amount > r.bid /\ Pay(p, price)
        /\ auctions' = B /\ SendMailTo(S)
        /\ UNCHANGED <<online, loading, bag, count, aitems, pending, loaded, lastId>>
        /\ Commit(BidTransaction(p, a, r, amount))
    BY <1>r, <1>S, <1>price, <1>B
    DEF PlaceBid, MayBid, RaiseBid, sessionVars, itemVars, pendingVars
  <1>3. amount \in Nat /\ amount # 0 /\ p # None
    BY ConstantsAssumption
  <1>4. price \in Int /\ price = IF r.bidder = p THEN amount - r.bid ELSE amount
    BY <1>1, <1>3, <1>price DEF Owes
  <1>5. /\ d \in Databases(lastId) /\ Sound(d, lastId)
        /\ money[p] \in Int /\ owed[p] \in Int /\ v \in Int
        /\ d.money[p] = money[p] + owed[p]
        /\ auctions = d.auctions /\ auctions \in AuctionMaps(lastId)
    BY <1>2, <1>4, <1>d, <1>v, Memory, Current DEF IInv
  <1>6. /\ f \in Databases(lastId) /\ f.money = [d.money EXCEPT ![p] = v]
        /\ f.house = d.house + owed[p] + z
        /\ f.inventory = d.inventory /\ f.count = d.count /\ f.auctions = d.auctions
        /\ f.mails = d.mails
    BY <1>1, <1>5, <1>f, SaveShape
  <1>7. /\ B \in AuctionMaps(lastId)
        /\ DOMAIN B = DOMAIN auctions /\ \A x \in DOMAIN auctions \ {a} : B[x] = auctions[x]
        /\ B[a].bidder = p /\ B[a].bid = amount /\ B[a].owner = r.owner /\ B[a].item = r.item
    <2>1. lastId \in Nat /\ auctions \in AuctionMaps(lastId) /\ amount \in Nat
      BY <1>1, <1>3, <1>5
    <2>2. /\ B \in AuctionMaps(lastId)
          /\ DOMAIN B = DOMAIN auctions /\ \A x \in DOMAIN auctions \ {a} : B[x] = auctions[x]
          /\ B[a].bidder = p /\ B[a].bid = amount
          /\ B[a].owner = auctions[a].owner /\ B[a].item = auctions[a].item
      BY <1>B, <2>1, RaiseBidShape
    <2> QED
      BY <1>r, <2>2
  <1>8. /\ S \subseteq Letters(lastId) /\ IsFiniteSet(S)
        /\ \A m \in S : /\ m.auction = a /\ m.item = None /\ m.money = r.bid
                        /\ m.to # r.owner
        /\ MailGold(S) = IF r.bidder = p THEN 0 ELSE r.bid
    BY <1>r, <1>S, RefundShape
  <1>9. /\ e \in Databases(lastId)
        /\ e.money = f.money /\ e.house = f.house /\ e.inventory = f.inventory
        /\ e.count = f.count /\ e.mails = f.mails \cup S /\ e.auctions = B
    <2>1. lastId \in Nat /\ S \subseteq Letters(lastId)
      BY <1>1, <1>8
    <2> QED
      BY <1>6, <1>7, <1>e, <2>1, WithMailsShape
  <1>10. /\ e.auctions = B /\ e.mails = d.mails \cup S
         /\ e.inventory = d.inventory /\ e.count = d.count
         /\ e.money[p] = v /\ \A q \in Players \ {p} : d.money[q] = e.money[q]
         /\ e.house = d.house + owed[p] /\ d.house \in Int
    BY <1>5, <1>6, <1>9, <1>z DEF Databases
  <1>11. /\ BidsSound(d) /\ MailsSound(d) /\ PlacesApart(d) /\ UnitsSound(d) /\ GoldSound(d)
         /\ IsFiniteSet(d.mails) /\ \A m \in d.mails : m.money \in Int
    BY <1>5 DEF Sound, MailsSound, Databases, Letters
  <1>12. BidsSound(e)
    BY <1>2, <1>3, <1>5, <1>7, <1>10, <1>11 DEF BidsSound
  <1>13. MailsSound(e)
    <2>1. \A m \in S : m.auction \in DOMAIN e.auctions =>
           /\ m.item = None
           /\ m.to # e.auctions[m.auction].owner
           /\ m.money < e.auctions[m.auction].bid
      BY <1>2, <1>7, <1>8, <1>10
    <2>2. ASSUME NEW m \in d.mails, m.auction \in DOMAIN e.auctions
          PROVE  /\ m.auction \in DOMAIN d.auctions
                 /\ e.auctions[m.auction].owner = d.auctions[m.auction].owner
                 /\ m.money < d.auctions[m.auction].bid => m.money < e.auctions[m.auction].bid
      <3>1. CASE m.auction = a
        <4>1. m.money \in Int /\ m.money < r.bid => m.money < amount
          BY <1>1, <1>2, <1>3
        <4> QED
          BY <1>5, <1>7, <1>10, <1>11, <1>r, <3>1, <4>1
      <3>2. CASE m.auction # a
        BY <1>5, <1>7, <1>10, <2>2, <3>2
      <3> QED
        BY <3>1, <3>2
    <2>3. IsFiniteSet(S) /\ e.mails = d.mails \cup S /\ \A m \in S : m.item # None => m.money = 0
      BY <1>8, <1>10
    <2> QED
      BY <1>11, <2>1, <2>2, <2>3, MailsSent
  <1>14. PlacesApart(e)
    <2>C. PICK C : C = {}
      OBVIOUS
    <2>1. \A x \in DOMAIN e.auctions : e.auctions[x].item = d.auctions[x].item
      BY <1>5, <1>7, <1>10, <1>r
    <2>2. ItemsMailed(d, e, C, S)
      BY <1>5, <1>7, <1>8, <1>10, <2>1, <2>C DEF ItemsMailed
    <2> QED
      BY <1>1, <1>5, <1>11, <2>2, PlacesMailed
  <1>15. GoldSound(e)
    <2>x. PICK x \in Int : x = IF r.bidder = p THEN 0 ELSE r.bid
      BY <1>1
    <2>y. PICK y \in Int : y = amount - r.bid
      BY <1>1, <1>3
    <2>1. MailGold(e.mails) = MailGold(d.mails) + x
      <3>1. \A m \in S : /\ m.auction \in DOMAIN d.auctions
                         /\ \/ m.item # None
                            \/ m.to = d.auctions[m.auction].owner
                            \/ m.money = d.auctions[m.auction].bid
        BY <1>5, <1>8, <1>r
      <3>2. S \in SUBSET Letters(lastId) /\ IsFiniteSet(S)
        BY <1>8
      <3>3. MailGold(d.mails \cup S) = MailGold(d.mails) + MailGold(S)
        BY <1>1, <1>5, <3>1, <3>2, MailGoldSent
      <3> QED
        BY <1>8, <1>10, <2>x, <3>3
    <2>2. BidGold(e.auctions) = BidGold(d.auctions) + y
      <3>1. BidGold(B) = BidGold(auctions) - auctions[a].bid + B[a].bid
        <4>1. \A c \in DOMAIN auctions \ {a} : B[c].bid = auctions[c].bid
          BY <1>7
        <4> QED
          BY <1>1, <1>5, <1>7, <4>1, BidGoldChange
      <3>2. BidGold(auctions) \in Int
        BY <1>1, <1>5, BidGoldIs
      <3> QED
        BY <1>1, <1>3, <1>5, <1>7, <1>10, <1>r, <2>y, <3>1, <3>2
    <2>3. e.house = d.house + (d.money[p] - e.money[p]) - x - y
      <3>h. PICK h \in Int : h = d.house
        BY <1>10
      <3>m. PICK m \in Int : m = money[p]
        BY <1>5
      <3>o. PICK o \in Int : o = owed[p]
        BY <1>5
      <3>b. PICK b \in Int : b = r.bid
        BY <1>1
      <3>c. PICK c \in Int : c = amount
        BY <1>3
      <3>1. /\ e.house = h + o /\ d.house = h
            /\ d.money[p] = m + o /\ e.money[p] = m - price /\ y = c - b
        BY <1>5, <1>10, <1>v, <2>y, <3>h, <3>m, <3>o, <3>b, <3>c
      <3>2. x + y = price
        BY <1>4, <2>x, <3>1, <3>b, <3>c
      <3>3. h + o = h + ((m + o) - (m - (x + y))) - x - y
        OBVIOUS
      <3> QED
        BY <3>1, <3>2, <3>3
    <2>4. d \in Databases(lastId) /\ e \in Databases(lastId) /\ lastId \in Nat /\ p \in Players
      BY <1>1, <1>5, <1>9
    <2>5. \A q \in Players \ {p} : d.money[q] = e.money[q]
      BY <1>10
    <2>6. IsFiniteSet(d.mails) /\ GoldSound(d)
      BY <1>11
    <2> QED
      BY <2>1, <2>2, <2>3, <2>4, <2>5, <2>6, GoldKept
  <1>16. Sound(e, lastId)
    BY <1>9, <1>10, <1>11, <1>12, <1>13, <1>14, <1>15 DEF Sound, UnitsSound
  <1>17. Commit(e)
    <2>1. f = SaveGoldToDB(Database, p, money[p] - Owes(p, r, amount), 0)
      BY <1>d, <1>f, <1>v, <1>z, <1>price
    <2>2. BidTransaction(p, a, r, amount) =
            WithMails(f, RaiseBid(f.auctions, a, p, amount), Refund(p, a, r))
      BY <1>1, <1>6, <2>1, BidIsMails
    <2>3. BidTransaction(p, a, r, amount) = e
      BY <1>5, <1>6, <1>S, <1>B, <1>e, <2>2
    <2> QED
      BY <1>2, <2>3
  <1>18. /\ money' = [money EXCEPT ![p] = v]
         /\ owed' = [owed EXCEPT ![p] = 0]
    BY <1>2, <1>v DEF Pay
  <1>19. /\ money \in [Players -> Int] /\ owed \in [Players -> Int] /\ online \subseteq Players
         /\ count \in [Guids -> Nat]
         /\ \A q \in Players \ online : owed[q] = 0
         /\ \A q \in online : money[q] + owed[q] = d.money[q]
         /\ aitems = {auctions[x].item : x \in DOMAIN auctions}
    BY <1>d, Memory DEF IInv, TypeCorrect, Absent, Saved
  <1>20. money' \in [Players -> Int] /\ owed' \in [Players -> Int]
    BY <1>5, <1>18, <1>19
  <1>21. \A q \in online : money'[q] + owed'[q] = e.money[q]
    BY <1>5, <1>10, <1>18, <1>19
  <1>22. \A q \in Players \ online : owed'[q] = 0 /\ e.money[q] = d.money[q]
    BY <1>2, <1>10, <1>18, <1>19
  <1>23. \A x \in DOMAIN auctions' : x \in DOMAIN auctions /\ auctions'[x].owner = auctions[x].owner
    BY <1>2, <1>7, <1>r
  <1>24. /\ auctions' = e.auctions /\ aitems' = {auctions'[x].item : x \in DOMAIN auctions'}
         /\ count' \in [Guids -> Nat] /\ aitems' \subseteq aitems
         /\ \A g \in aitems' : count'[g] = count[g]
         /\ \A g \in Guids : bag[g] # None => count'[g] = count[g]
    <2>1. \A x \in DOMAIN auctions : B[x].item = auctions[x].item
      BY <1>7, <1>r
    <2>2. {B[x].item : x \in DOMAIN B} = {auctions[x].item : x \in DOMAIN auctions}
      BY <1>7, <2>1
    <2> QED
      BY <1>2, <1>10, <1>19, <2>2
  <1>25. /\ d = Database /\ SendMailTo(S)
         /\ e.mails = d.mails \cup S /\ e.inventory = d.inventory /\ e.count = d.count
         /\ UNCHANGED <<online, loading, bag, pending, loaded, lastId>>
    BY <1>2, <1>10, <1>d
  <1> QED
    BY <1>16, <1>17, <1>20, <1>21, <1>22, <1>23, <1>24, <1>25, MailingStep

-----------------------------------------------------------------------------
(* Auctions run out.                                                         *)

\* One mail for each auction of D, with the gold f.
MailOfEach(M, w, f, D) ==
  /\ M = {w[a] : a \in D}
  /\ f = [a \in D |-> w[a].money]
  /\ \A a \in D : w[a].auction = a /\ w[a].money \in Int

LEMMA MailGoldImage ==
  ASSUME NEW D, IsFiniteSet(D), NEW M, NEW w, NEW f, MailOfEach(M, w, f, D)
  PROVE  IsFiniteSet(M) /\ MailGold(M) = SumOver(f, D)
  <1> USE DEF MailOfEach
  <1>g. PICK g : g = [m \in M |-> m.money]
    OBVIOUS
  <1>1. IntegerOn(f, D)
    BY DEF IntegerOn
  <1>2. \A a \in D : g[w[a]] = f[a]
    BY <1>g
  <1>3. \A a, b \in D : w[a] = w[b] => a = b
    OBVIOUS
  <1>4. SumOver(g, {w[a] : a \in D}) = SumOver(f, D)
    BY <1>1, <1>2, <1>3, SumImage
  <1>5. IsFiniteSet({w[a] : a \in D})
    BY FiniteImage
  <1>6. MailGold(M) = SumOver(g, M)
    BY <1>g DEF MailGold
  <1> QED
    BY <1>4, <1>5, <1>6

\* Of C only the auctions of D have bids, each of which is shared.
LEMMA BidsShared ==
  ASSUME NEW C, IsFiniteSet(C), NEW D, D \subseteq C, NEW b, NEW x, NEW y,
         IntegerOn(x, D), IntegerOn(y, D), \A a \in D : b[a] = x[a] + y[a],
         \A a \in C \ D : b[a] = 0
  PROVE  /\ SumOver(x, D) \in Int /\ SumOver(y, D) \in Int
         /\ SumOver(b, C) = SumOver(x, D) + SumOver(y, D)
  <1>R. PICK R : R = C \ D
    OBVIOUS
  <1>1. IsFiniteSet(D) /\ IsFiniteSet(R) /\ D \cap R = {} /\ C = D \cup R
    BY <1>R, FS_Subset
  <1>2. \A a \in D : b[a] \in Int
    BY DEF IntegerOn
  <1>3. IntegerOn(b, D) /\ IntegerOn(b, R) /\ \A a \in R : b[a] = 0
    BY <1>2, <1>R DEF IntegerOn
  <1>4. SumOver(b, D \cup R) = SumOver(b, D) + SumOver(b, R)
    BY <1>1, <1>3, SumUnion
  <1>5. SumOver(b, R) = 0
    BY <1>1, <1>3, SumZero
  <1>6. SumOver(b, D) = SumOver(x, D) + SumOver(y, D)
    BY <1>1, SumPlus
  <1>7. SumOver(x, D) \in Int /\ SumOver(y, D) \in Int
    BY <1>1, SumType
  <1> QED
    BY <1>1, <1>4, <1>5, <1>6, <1>7

\* The mails of an auction that runs out.
SaleMail(a) == Mail(auctions[a].owner, a, Profit(auctions[a]), None)

ItemMail(a) ==
  Mail(IF auctions[a].bidder = None THEN auctions[a].owner ELSE auctions[a].bidder,
       a, 0, auctions[a].item)

LEMMA ClosingMails ==
  ASSUME IInv, NEW a \in DOMAIN auctions
  PROVE  /\ Closing(a, auctions[a]) =
              (IF auctions[a].bidder = None THEN {} ELSE {SaleMail(a)}) \cup {ItemMail(a)}
         /\ SaleMail(a) \in Letters(lastId) /\ SaleMail(a).auction = a /\ SaleMail(a).item = None
         /\ SaleMail(a).to = auctions[a].owner /\ SaleMail(a).money = Profit(auctions[a])
         /\ ItemMail(a) \in Letters(lastId) /\ ItemMail(a).auction = a
         /\ ItemMail(a).item = auctions[a].item /\ ItemMail(a).money = 0
         /\ Profit(auctions[a]) \in Int /\ Earned(auctions[a]) \in Int
         /\ auctions[a].bid = Profit(auctions[a]) + Earned(auctions[a])
         /\ auctions[a].bidder = None => auctions[a].bid = 0
         /\ auctions[a].item # None
  <1>r. PICK r : r = auctions[a]
    OBVIOUS
  <1>1. /\ a \in 1..lastId /\ r.item \in Guids /\ r.item \in aitems /\ r.item # None
        /\ r.owner \in Players /\ r.bidder \in Players \cup {None}
        /\ r.bid \in Nat /\ r.deposit \in Int
        /\ r.bidder = None <=> r.bid = 0
    BY <1>r, EntryOf
  <1>2. GetAuctionCut(r) \in Int
    BY <1>1, CutTyped
  <1>3. Profit(r) \in Int /\ Earned(r) \in Int /\ r.bid = Profit(r) + Earned(r)
    BY <1>1, <1>2 DEF Profit, Earned
  <1>to. PICK to : to = IF r.bidder = None THEN r.owner ELSE r.bidder
    OBVIOUS
  <1>x. PICK x \in Int : x = Profit(r)
    BY <1>3
  <1>z. PICK z \in Int : z = 0
    OBVIOUS
  <1>m. PICK m : m = Mail(r.owner, a, x, None)
    OBVIOUS
  <1>k. PICK k : k = Mail(to, a, z, r.item)
    OBVIOUS
  <1>4. SaleMail(a) = m /\ ItemMail(a) = k
    BY <1>r, <1>to, <1>x, <1>z, <1>m, <1>k DEF SaleMail, ItemMail
  <1>5. m \in Letters(lastId) /\ m.to = r.owner /\ m.auction = a /\ m.money = x /\ m.item = None
    <2>1. None \in Guids \cup {None} /\ r.owner \in Players /\ a \in 1..lastId
      BY <1>1
    <2> QED
      BY <1>m, <2>1, MailTyped
  <1>6. k \in Letters(lastId) /\ k.auction = a /\ k.money = z /\ k.item = r.item
    <2>1. r.item \in Guids \cup {None} /\ to \in Players /\ a \in 1..lastId
      BY <1>1, <1>to
    <2> QED
      BY <1>k, <2>1, MailTyped
  <1>7. Closing(a, r) = (IF r.bidder = None THEN {} ELSE {m}) \cup {k}
    <2>1. CASE r.bidder = None
      <3>1. Closing(a, r) = SendAuctionExpiredMail(a, r)
        BY <1>1, <2>1 DEF Closing
      <3>2. SendAuctionExpiredMail(a, r) = {k}
        BY <1>1, <1>k, <1>to, <1>z, <2>1 DEF SendAuctionExpiredMail
      <3> QED
        BY <2>1, <3>1, <3>2
    <2>2. CASE r.bidder # None
      <3>1. Closing(a, r) = SendAuctionSuccessfulMail(a, r) \cup SendAuctionWonMail(a, r)
        BY <1>1, <2>2 DEF Closing
      <3>2. SendAuctionSuccessfulMail(a, r) = {m} /\ SendAuctionWonMail(a, r) = {k}
        BY <1>1, <1>m, <1>x, <1>k, <1>to, <1>z, <2>2 DEF SendAuctionSuccessfulMail, SendAuctionWonMail
      <3> QED
        BY <2>2, <3>1, <3>2
    <2> QED
      BY <2>1, <2>2
  <1>8. Closing(a, auctions[a]) =
          (IF auctions[a].bidder = None THEN {} ELSE {SaleMail(a)}) \cup {ItemMail(a)}
    BY <1>4, <1>7, <1>r
  <1> QED
    BY <1>1, <1>3, <1>4, <1>5, <1>6, <1>8, <1>r, <1>x, <1>z

\* All that is mailed when the auctions C run out, of which those of D are sold.
LEMMA ExpiryMails ==
  ASSUME IInv, NEW C \in SUBSET DOMAIN auctions, NEW D,
         D = {a \in C : auctions[a].bidder # None},
         NEW S, S = UNION {Closing(a, auctions[a]) : a \in C}
  PROVE  /\ S = {SaleMail(a) : a \in D} \cup {ItemMail(a) : a \in C}
         /\ S \subseteq Letters(lastId) /\ IsFiniteSet(S) /\ IsFiniteSet(C)
         /\ MailGold(S) = SumOver([a \in D |-> Profit(auctions[a])], D)
  <1>1. S = {SaleMail(a) : a \in D} \cup {ItemMail(a) : a \in C}
    <2>1. \A a \in C : Closing(a, auctions[a]) =
            (IF auctions[a].bidder = None THEN {} ELSE {SaleMail(a)}) \cup {ItemMail(a)}
      BY ClosingMails
    <2>2. ASSUME NEW m \in S
          PROVE  m \in {SaleMail(a) : a \in D} \cup {ItemMail(a) : a \in C}
      <3>1. PICK a \in C : m \in Closing(a, auctions[a])
        OBVIOUS
      <3> QED
        BY <2>1, <3>1
    <2>3. \A a \in D : SaleMail(a) \in S
      <3>1. ASSUME NEW a \in D
            PROVE  SaleMail(a) \in S
        <4>1. a \in C /\ SaleMail(a) \in Closing(a, auctions[a])
          BY <2>1
        <4> QED
          BY <4>1
      <3> QED
        BY <3>1
    <2>4. \A a \in C : ItemMail(a) \in S
      <3>1. ASSUME NEW a \in C
            PROVE  ItemMail(a) \in S
        <4>1. ItemMail(a) \in Closing(a, auctions[a])
          BY <2>1
        <4> QED
          BY <4>1
      <3> QED
        BY <3>1
    <2> QED
      BY <2>2, <2>3, <2>4
  <1>w. PICK w : w = [a \in D |-> SaleMail(a)]
    OBVIOUS
  <1>k. PICK k : k = [a \in C |-> ItemMail(a)]
    OBVIOUS
  <1>M. PICK M : M = {w[a] : a \in D}
    OBVIOUS
  <1>N. PICK N : N = {k[a] : a \in C}
    OBVIOUS
  <1>2. S = M \cup N
    BY <1>1, <1>w, <1>k, <1>M, <1>N
  <1>3. IsFiniteSet(C) /\ IsFiniteSet(D)
    <2>1. IsFiniteSet(DOMAIN auctions)
      BY Memory, AuctionMap
    <2> QED
      BY <2>1, FS_Subset
  <1>4. \A a \in D : /\ w[a] \in Letters(lastId) /\ w[a].auction = a /\ w[a].item = None
                     /\ w[a].money = Profit(auctions[a]) /\ w[a].money \in Int
    BY <1>w, ClosingMails
  <1>5. \A a \in C : /\ k[a] \in Letters(lastId) /\ k[a].item # None /\ k[a].money = 0
    BY <1>k, ClosingMails
  <1>6. IsFiniteSet(M) /\ MailGold(M) = SumOver([a \in D |-> w[a].money], D)
    <2>f. PICK f : f = [a \in D |-> w[a].money]
      OBVIOUS
    <2>1. MailOfEach(M, w, f, D)
      BY <1>4, <1>M, <2>f DEF MailOfEach
    <2>2. IsFiniteSet(M) /\ MailGold(M) = SumOver(f, D)
      BY <1>3, <2>1, MailGoldImage
    <2> QED
      BY <2>2, <2>f
  <1>7. IsFiniteSet(N)
    BY <1>3, <1>N, FiniteImage
  <1>8. MailGold(N) = 0
    <2>1. \A m \in N : m.money = 0
      BY <1>5, <1>N
    <2> QED
      BY <1>7, <2>1, MailGoldZero
  <1>9. M \cap N = {} /\ \A m \in M \cup N : m.money \in Int
    BY <1>4, <1>5, <1>M, <1>N
  <1>10. MailGold(M \cup N) = MailGold(M) + MailGold(N)
    BY <1>6, <1>7, <1>9, MailGoldAdd
  <1>11. MailGold(M) \in Int
    BY <1>6, <1>9, MailGoldIs
  <1>12. MailGold(S) = MailGold(M)
    <2>1. MailGold(S) = MailGold(M \cup N)
      BY <1>2
    <2> QED
      BY <1>8, <1>10, <1>11, <2>1
  <1>13. [a \in D |-> w[a].money] = [a \in D |-> Profit(auctions[a])]
    BY <1>4
  <1>14. IsFiniteSet(S) /\ S \subseteq Letters(lastId)
    <2>1. IsFiniteSet(M \cup N)
      BY <1>6, <1>7, FS_Union
    <2>2. M \subseteq Letters(lastId) /\ N \subseteq Letters(lastId)
      BY <1>4, <1>5, <1>M, <1>N
    <2> QED
      BY <1>2, <2>1, <2>2
  <1> QED
    BY <1>1, <1>3, <1>6, <1>12, <1>13, <1>14

\* The house gains, and nothing else changes.
WithGain(f, gain) == [f EXCEPT !.house = @ + gain]

LEMMA WithGainShape ==
  ASSUME NEW n \in Nat, NEW f \in Databases(n), NEW gain \in Int, NEW e, e = WithGain(f, gain)
  PROVE  /\ e \in Databases(n)
         /\ e.money = f.money /\ e.inventory = f.inventory /\ e.count = f.count
         /\ e.auctions = f.auctions /\ e.mails = f.mails
         /\ e.house = f.house + gain
  BY DEF WithGain, Databases

LEMMA UpdateStep ==
  ASSUME IInv, Update
  PROVE  IInv'
  <1>d. PICK d : d = Database
    OBVIOUS
  <1>C. PICK C : C = Expired
    OBVIOUS
  <1>D. PICK D : D = {a \in C : auctions[a].bidder # None}
    OBVIOUS
  <1>S. PICK S : S = UNION {Closing(a, auctions[a]) : a \in C}
    OBVIOUS
  <1>y. PICK y : y = [a \in D |-> Earned(auctions[a])]
    OBVIOUS
  <1>x. PICK x : x = [a \in D |-> Profit(auctions[a])]
    OBVIOUS
  <1>f. PICK f : f = DeleteFromDB(d, C, S)
    OBVIOUS
  <1>e. PICK e : e = WithGain(f, Total(y))
    OBVIOUS
  <1>1. /\ SendMailTo(S) /\ RemoveAuctions(C) /\ Commit(e)
        /\ UNCHANGED <<online, loading, money, bag, pending, loaded, lastId, owed>>
    BY <1>d, <1>C, <1>D, <1>S, <1>y, <1>f, <1>e DEF Update, WithGain, sessionVars, pendingVars
  <1>2. /\ d \in Databases(lastId) /\ lastId \in Nat /\ Sound(d, lastId)
        /\ auctions = d.auctions /\ auctions \in AuctionMaps(lastId)
        /\ IsFiniteSet(d.mails) /\ GoldSound(d) /\ PlacesApart(d)
    BY <1>d, Memory, Current DEF IInv, MailsSound
  <1>3. C \in SUBSET DOMAIN auctions
    BY <1>C DEF Expired
  <1>4. /\ S = {SaleMail(a) : a \in D} \cup {ItemMail(a) : a \in C}
        /\ S \subseteq Letters(lastId) /\ IsFiniteSet(S) /\ IsFiniteSet(C)
        /\ MailGold(S) = SumOver(x, D)
    BY <1>3, <1>D, <1>S, <1>x, ExpiryMails
  <1>5. /\ f \in Databases(lastId)
        /\ f.money = d.money /\ f.house = d.house /\ f.inventory = d.inventory
        /\ f.count = d.count /\ f.mails = d.mails \cup S
        /\ f.auctions = Restrict(d.auctions, DOMAIN d.auctions \ C)
    <2>1. Deletes(d, C, S, lastId)
      BY <1>2, <1>3, <1>4 DEF Deletes
    <2>2. lastId \in Nat
      BY <1>2
    <2>3. Deleted(f, d, C, S, lastId)
      BY <1>f, <2>1, <2>2, DeleteShape
    <2> QED
      BY <2>3 DEF Deleted
  <1>6. /\ D \subseteq C
        /\ \A a \in C : /\ SaleMail(a).auction = a /\ SaleMail(a).item = None
                        /\ SaleMail(a).to = auctions[a].owner
                        /\ ItemMail(a).auction = a /\ ItemMail(a).item = auctions[a].item
                        /\ ItemMail(a).money = 0 /\ ItemMail(a).item # None
        /\ \A a \in C : /\ Profit(auctions[a]) \in Int /\ Earned(auctions[a]) \in Int
                        /\ auctions[a].bid = Profit(auctions[a]) + Earned(auctions[a])
                        /\ auctions[a].bidder = None => auctions[a].bid = 0
    BY <1>3, <1>D, ClosingMails
  <1>b. PICK b : b = [a \in C |-> d.auctions[a].bid]
    OBVIOUS
  <1>7. /\ SumOver(x, D) \in Int /\ SumOver(y, D) \in Int
        /\ SumOver(b, C) = SumOver(x, D) + SumOver(y, D)
    <2>1. IntegerOn(x, D) /\ IntegerOn(y, D) /\ \A a \in D : b[a] = x[a] + y[a]
      BY <1>2, <1>6, <1>x, <1>y, <1>b DEF IntegerOn
    <2>2. \A a \in C \ D : b[a] = 0
      BY <1>2, <1>6, <1>b, <1>D
    <2> QED
      <3>1. IsFiniteSet(C) /\ D \subseteq C
        BY <1>4, <1>6
      <3> QED
        BY <2>1, <2>2, <3>1, BidsShared
  <1>8. Total(y) = SumOver(y, D)
    <2>1. DOMAIN y = D
      BY <1>y
    <2> QED
      BY <2>1, TotalIsSum
  <1>9. /\ e \in Databases(lastId)
        /\ e.money = f.money /\ e.inventory = f.inventory /\ e.count = f.count
        /\ e.auctions = f.auctions /\ e.mails = f.mails
        /\ e.house = f.house + SumOver(y, D)
    <2>1. Total(y) \in Int /\ lastId \in Nat /\ f \in Databases(lastId)
      BY <1>2, <1>5, <1>7, <1>8
    <2>2. /\ e \in Databases(lastId)
          /\ e.money = f.money /\ e.inventory = f.inventory /\ e.count = f.count
          /\ e.auctions = f.auctions /\ e.mails = f.mails
          /\ e.house = f.house + Total(y)
      BY <1>e, <2>1, WithGainShape
    <2> QED
      BY <1>8, <2>2
  <1>10. /\ auctions' = Restrict(auctions, DOMAIN auctions \ C)
         /\ DOMAIN auctions' = DOMAIN auctions \ C
         /\ \A a \in DOMAIN auctions' : auctions'[a] = auctions[a]
         /\ aitems' = {auctions'[a].item : a \in DOMAIN auctions'}
         /\ aitems' \subseteq aitems
         /\ count' \in [Guids -> Nat]
         /\ \A g \in aitems' : count'[g] = count[g]
         /\ \A g \in Guids : bag[g] # None => count'[g] = count[g]
    BY <1>1, <1>3, RemoveAuctionsShape
  <1>11. /\ e.auctions = auctions' /\ e.mails = d.mails \cup S
         /\ e.inventory = d.inventory /\ e.count = d.count /\ e.money = d.money
         /\ e.house = d.house + SumOver(y, D) /\ d.house \in Int
    BY <1>2, <1>5, <1>9, <1>10 DEF Databases
  <1>12. /\ DOMAIN e.auctions = DOMAIN d.auctions \ C
         /\ \A a \in DOMAIN e.auctions : e.auctions[a] = d.auctions[a]
    BY <1>2, <1>10, <1>11
  <1>13. GoldSound(e)
    <2>1. BidGold(e.auctions) = BidGold(d.auctions) - SumOver(b, C)
      <3>1. C \in SUBSET DOMAIN d.auctions /\ \A a \in DOMAIN e.auctions : e.auctions[a].bid = d.auctions[a].bid
        BY <1>2, <1>3, <1>12
      <3>2. d.auctions \in AuctionMaps(lastId) /\ lastId \in Nat /\ DOMAIN e.auctions = DOMAIN d.auctions \ C
        BY <1>2, <1>12
      <3> QED
        BY <1>b, <3>1, <3>2, BidGoldRemove
    <2>2. MailGold(e.mails) = MailGold(d.mails) + SumOver(x, D)
      <3>1. \A m \in S : /\ m.auction \in DOMAIN d.auctions
                         /\ \/ m.item # None
                            \/ m.to = d.auctions[m.auction].owner
                            \/ m.money = d.auctions[m.auction].bid
        BY <1>2, <1>3, <1>4, <1>6
      <3>2. S \in SUBSET Letters(lastId) /\ IsFiniteSet(S)
        BY <1>4
      <3>3. MailGold(d.mails \cup S) = MailGold(d.mails) + MailGold(S)
        BY <1>2, <3>1, <3>2, MailGoldSent
      <3> QED
        BY <1>4, <1>11, <3>3
    <2>p. PICK p \in Players : p = Holder
      BY ConstantsAssumption
    <2>u. PICK u \in Int : u = SumOver(x, D)
      BY <1>7
    <2>v. PICK v \in Int : v = 0 - SumOver(b, C)
      BY <1>7
    <2>3. BidGold(d.auctions) \in Int
      BY <1>2, BidGoldIs
    <2>4. BidGold(e.auctions) = BidGold(d.auctions) + v /\ MailGold(e.mails) = MailGold(d.mails) + u
      BY <1>7, <2>1, <2>2, <2>3, <2>u, <2>v
    <2>5. e.house = d.house + (d.money[p] - e.money[p]) - u - v
      <3>1. d.money[p] \in Int /\ e.money[p] = d.money[p]
        BY <1>2, <1>11, <2>p DEF Databases
      <3>2. PICK h \in Int : h = d.house
        BY <1>11
      <3>3. PICK w \in Int : w = SumOver(y, D)
        BY <1>7
      <3>4. PICK o \in Int : o = d.money[p]
        BY <3>1
      <3>5. v = 0 - (u + w)
        BY <1>7, <2>u, <2>v, <3>3
      <3>6. h + w = h + (o - o) - u - (0 - (u + w))
        BY <2>u, <3>2, <3>3, <3>4
      <3>7. e.house = h + w /\ d.house = h /\ d.money[p] = o /\ e.money[p] = o
        BY <1>11, <3>1, <3>2, <3>3, <3>4
      <3> QED
        BY <3>5, <3>6, <3>7
    <2>6. d \in Databases(lastId) /\ e \in Databases(lastId) /\ lastId \in Nat
      BY <1>2, <1>9
    <2>7. \A q \in Players \ {p} : d.money[q] = e.money[q]
      BY <1>11
    <2>8. IsFiniteSet(d.mails) /\ GoldSound(d)
      BY <1>2
    <2> QED
      BY <2>4, <2>5, <2>6, <2>7, <2>8, GoldKept
  <1>14. Sound(e, lastId)
    <2>1. \A m \in S : m.auction \in C
      BY <1>4, <1>6
    <2>2. \A m \in S : m.item # None =>
             m = ItemMail(m.auction) /\ m.money = 0 /\ m.item = d.auctions[m.auction].item
      BY <1>2, <1>4, <1>6
    <2>3. \A c \in C : \E m \in S : m.item = d.auctions[c].item
      BY <1>2, <1>4, <1>6
    <2>4. ASSUME NEW m \in S, NEW k \in S, m.item # None, m.item = k.item
          PROVE  m = k
      <3>1. m = ItemMail(m.auction) /\ k = ItemMail(k.auction)
        BY <2>2, <2>4
      <3>2. d.auctions[m.auction].item = d.auctions[k.auction].item
        BY <2>2, <2>4
      <3>3. m.auction \in DOMAIN d.auctions /\ k.auction \in DOMAIN d.auctions
        BY <1>2, <1>3, <2>1
      <3>4. m.auction = k.auction
        BY <1>2, <3>2, <3>3 DEF PlacesApart
      <3> QED
        BY <3>1, <3>4
    <2>5. Closes(d, e, C, S)
      BY <1>2, <1>3, <1>4, <1>11, <1>12, <2>1, <2>2, <2>3, <2>4 DEF Closes
    <2> QED
      BY <1>2, <1>9, <1>13, <2>5, ClosedSound
  <1>15. /\ money' \in [Players -> Int] /\ owed' \in [Players -> Int]
         /\ \A q \in online : money'[q] + owed'[q] = e.money[q]
         /\ \A q \in Players \ online : owed'[q] = 0 /\ e.money[q] = d.money[q]
    BY <1>1, <1>11, <1>d, Memory DEF IInv, TypeCorrect, Absent
  <1>16. \A a \in DOMAIN auctions' : a \in DOMAIN auctions /\ auctions'[a].owner = auctions[a].owner
    BY <1>10
  <1>17. /\ d = Database /\ SendMailTo(S) /\ Commit(e)
         /\ e.mails = d.mails \cup S /\ e.inventory = d.inventory /\ e.count = d.count
         /\ auctions' = e.auctions
         /\ UNCHANGED <<online, loading, bag, pending, loaded, lastId>>
    BY <1>1, <1>11, <1>d
  <1>18. /\ aitems' = {auctions'[a].item : a \in DOMAIN auctions'}
         /\ count' \in [Guids -> Nat] /\ aitems' \subseteq aitems
         /\ \A g \in aitems' : count'[g] = count[g]
         /\ \A g \in Guids : bag[g] # None => count'[g] = count[g]
    BY <1>10
  <1> QED
    BY <1>14, <1>15, <1>16, <1>17, <1>18, MailingStep

-----------------------------------------------------------------------------
(* Mails are taken.                                                          *)

\* p takes something from the mail m and e is what is saved of it.
LEMMA TakingStep ==
  ASSUME IInv, NEW d, d = Database, NEW p \in Players, NEW m \in mails[p], Take(p, m),
         NEW e, Commit(e), Sound(e, lastId),
         e.mails = d.mails \ {m}, e.auctions = d.auctions,
         money' \in [Players -> Int],
         bag' \in [Guids -> Players \cup {None}], count' \in [Guids -> Nat],
         \A q \in online : money'[q] + owed'[q] = e.money[q],
         \A q \in online : \A g \in Guids : bag'[g] = q <=> e.inventory[g] = q,
         \A q \in online : \A g \in Guids : bag'[g] = q => count'[g] = e.count[g],
         \A g \in aitems : count'[g] = e.count[g],
         \A g \in Guids : bag'[g] \in online \cup {None},
         \A q \in Players \ {p} :
           /\ e.money[q] = d.money[q]
           /\ \A g \in Guids : e.inventory[g] = q <=> d.inventory[g] = q
           /\ \A g \in Guids : d.inventory[g] = q => e.count[g] = d.count[g]
  PROVE  IInv'
  <1>1. TypeCorrect /\ Saved /\ Absent /\ Listed /\ PendingOwned
    BY DEF IInv
  <1>2. /\ m.to = p
        /\ mails' = [mails EXCEPT ![p] = @ \ {m}]
        /\ owed' = [owed EXCEPT ![p] = 0]
        /\ UNCHANGED <<online, loading, auctions, aitems, pending, loaded, lastId>>
    BY DEF Take, sessionVars, houseVars, pendingVars
  <1>3. lastId \in Nat /\ p \in loaded /\ p \in online
    BY <1>1 DEF TypeCorrect, Listed
  <1>4. \A q \in Players \ {p} : KeepsMails(d, e, q)
    BY <1>2 DEF KeepsMails
  <1>5. /\ log' \in Seq(Databases(lastId')) /\ log' # <<>> /\ Database' = e
        /\ LogSound' /\ Waiting'
        /\ \A q \in online \ loaded : KeepsMails(d, e, q) =>
             \A i \in 1..Len(log') : KeepsMails(log'[i], e, q)
    <2>1. \A q \in Players \ online : KeepsPlayer(d, e, q)
      BY <1>3, <1>4 DEF KeepsPlayer
    <2>2. /\ Sound(e, lastId') /\ lastId' \in Nat /\ lastId <= lastId'
          /\ UNCHANGED loading /\ online' \subseteq online
      BY <1>2, <1>3
    <2> QED
      BY <2>1, <2>2, Committed
  <1>6. \A q \in Players : mails'[q] = IF q = p THEN mails[p] \ {m} ELSE mails[q]
    BY <1>1, <1>2 DEF TypeCorrect
  <1>7. TypeCorrect'
    <2>1. mails' \in [Players -> SUBSET Letters(lastId)] /\ owed' \in [Players -> Int]
      BY <1>1, <1>2 DEF TypeCorrect
    <2> QED
      BY <1>1, <1>2, <1>5, <2>1 DEF TypeCorrect
  <1>8. Saved'
    <2>1. auctions = e.auctions /\ aitems = {auctions[a].item : a \in DOMAIN auctions}
      BY <1>1 DEF Saved
    <2>2. Database' = e /\ online' = online /\ auctions' = auctions /\ aitems' = aitems
      BY <1>2, <1>5
    <2> QED
      BY <2>1, <2>2 DEF Saved
  <1>9. Absent'
    <2>1. \A q \in Players \ online : owed'[q] = 0
      BY <1>1, <1>2, <1>3 DEF Absent, TypeCorrect
    <2> QED
      BY <1>2, <2>1 DEF Absent
  <1>10. Listed'
    <2>1. \A q \in Players : \A k \in mails'[q] : k \in e.mails /\ k.to = q
      <3>1. \A q \in Players : \A k \in mails[q] : k \in d.mails /\ k.to = q
        BY <1>1 DEF Listed
      <3> QED
        BY <1>2, <1>6, <3>1
    <2>2. \A q \in Players : q \notin loaded => mails'[q] = {}
      BY <1>1, <1>3, <1>6 DEF Listed
    <2>3. \A q \in online \ loaded : q \in Players \ {p}
      BY <1>3, Memory
    <2>4. UNCHANGED <<online, loaded>> /\ Database' = e
      BY <1>2, <1>5
    <2> QED
      BY <1>4, <1>5, <2>1, <2>2, <2>3, <2>4 DEF Listed
  <1>11. PendingOwned'
    BY <1>1, <1>2 DEF PendingOwned
  <1> QED
    BY <1>5, <1>7, <1>8, <1>9, <1>10, <1>11 DEF IInv

\* A mail that is listed.
LEMMA ListedMail ==
  ASSUME IInv, NEW p \in Players, NEW m \in mails[p]
  PROVE  /\ p \in online /\ m \in Database.mails /\ m \in Letters(lastId)
         /\ m.money \in Int /\ m.item \in Guids \cup {None}
         /\ m.item # None => m.money = 0
  <1>1. p \in online /\ m \in Database.mails
    BY DEF IInv, TypeCorrect, Listed
  <1>2. Database \in Databases(lastId) /\ MailsSound(Database)
    BY Memory
  <1> QED
    BY <1>1, <1>2 DEF Databases, Letters, MailsSound

WithoutMail(f, m) == [f EXCEPT !.mails = @ \ {m}]

LEMMA WithoutMailShape ==
  ASSUME NEW n \in Nat, NEW f \in Databases(n), NEW m, NEW e, e = WithoutMail(f, m)
  PROVE  /\ e \in Databases(n)
         /\ e.money = f.money /\ e.inventory = f.inventory /\ e.count = f.count
         /\ e.auctions = f.auctions /\ e.mails = f.mails \ {m} /\ e.house = f.house
  BY DEF WithoutMail, Databases

LEMMA MailTakeMoneyStep ==
  ASSUME IInv, NEW p \in Players, NEW m \in mails[p], MailTakeMoney(p, m)
  PROVE  IInv'
  <1>d. PICK d : d = Database
    OBVIOUS
  <1>v. PICK v : v = money[p] + m.money
    OBVIOUS
  <1>z. PICK z \in Int : z = 0
    OBVIOUS
  <1>f. PICK f : f = SaveGoldToDB(d, p, v, z)
    OBVIOUS
  <1>e. PICK e : e = WithoutMail(f, m)
    OBVIOUS
  <1>1. /\ m.money > 0 /\ Take(p, m) /\ Commit(e)
        /\ money' = [money EXCEPT ![p] = v]
        /\ UNCHANGED <<bag, count>>
    BY <1>d, <1>v, <1>z, <1>f, <1>e DEF MailTakeMoney, WithoutMail, itemVars
  <1>2. /\ p \in online /\ m \in d.mails /\ m.money \in Int /\ m.item \in Guids \cup {None}
        /\ m.item # None => m.money = 0
    BY <1>d, ListedMail
  <1>3. m.item = None
    BY <1>1, <1>2
  <1>4. /\ d \in Databases(lastId) /\ lastId \in Nat /\ Sound(d, lastId)
        /\ money[p] \in Int /\ owed[p] \in Int /\ v \in Int
        /\ d.money[p] = money[p] + owed[p]
    BY <1>2, <1>d, <1>v, Memory, Current DEF IInv
  <1>5. /\ BidsSound(d) /\ MailsSound(d) /\ PlacesApart(d) /\ GoldSound(d) /\ UnitsSound(d)
        /\ IsFiniteSet(d.mails) /\ \A k \in d.mails : k.money \in Int
        /\ d.money \in [Players -> Int] /\ d.house \in Int
    BY <1>4 DEF Sound, MailsSound, Databases, Letters
  <1>6. /\ f \in Databases(lastId) /\ f.money = [d.money EXCEPT ![p] = v]
        /\ f.house = d.house + owed[p] + z
        /\ f.inventory = d.inventory /\ f.count = d.count /\ f.auctions = d.auctions
        /\ f.mails = d.mails
    BY <1>4, <1>f, SaveShape
  <1>7. /\ e \in Databases(lastId)
        /\ e.money = f.money /\ e.inventory = f.inventory /\ e.count = f.count
        /\ e.auctions = f.auctions /\ e.mails = f.mails \ {m} /\ e.house = f.house
    <2>1. lastId \in Nat /\ f \in Databases(lastId)
      BY <1>4, <1>6
    <2> QED
      BY <1>e, <2>1, WithoutMailShape
  <1>8. /\ e.money[p] = v /\ \A q \in Players \ {p} : e.money[q] = d.money[q]
        /\ e.inventory = d.inventory /\ e.count = d.count /\ e.auctions = d.auctions
        /\ e.mails = d.mails \ {m} /\ e.house = d.house + owed[p]
    BY <1>4, <1>5, <1>6, <1>7, <1>z
  <1>9. GoldSound(e)
    <2>x. PICK x \in Int : x = 0 - m.money
      BY <1>2
    <2>y. PICK y \in Int : y = 0
      OBVIOUS
    <2>1. MailGold(e.mails) = MailGold(d.mails) + x
      <3>1. MailGold(d.mails \ {m}) = MailGold(d.mails) - m.money
        BY <1>2, <1>5, MailGoldRemove
      <3>2. MailGold(d.mails) \in Int
        BY <1>5, MailGoldIs
      <3> QED
        BY <1>2, <1>8, <2>x, <3>1, <3>2
    <2>2. BidGold(e.auctions) = BidGold(d.auctions) + y
      <3>1. BidGold(d.auctions) \in Int
        BY <1>4, BidGoldIs DEF Databases
      <3> QED
        BY <1>8, <2>y, <3>1
    <2>3. e.house = d.house + (d.money[p] - e.money[p]) - x - y
      <3>1. PICK h \in Int : h = d.house
        BY <1>5
      <3>2. PICK u \in Int : u = money[p]
        BY <1>4
      <3>3. PICK o \in Int : o = owed[p]
        BY <1>4
      <3>4. PICK g \in Int : g = m.money
        BY <1>2
      <3>5. /\ e.house = h + o /\ d.house = h /\ d.money[p] = u + o /\ e.money[p] = u + g
            /\ x = 0 - g /\ y = 0
        BY <1>4, <1>8, <1>v, <2>x, <2>y, <3>1, <3>2, <3>3, <3>4
      <3>6. h + o = h + ((u + o) - (u + g)) - (0 - g) - 0
        BY <3>1, <3>2, <3>3, <3>4
      <3> QED
        BY <3>5, <3>6
    <2>4. d \in Databases(lastId) /\ e \in Databases(lastId) /\ lastId \in Nat
      BY <1>4, <1>7
    <2>5. /\ \A q \in Players \ {p} : d.money[q] = e.money[q]
          /\ IsFiniteSet(d.mails) /\ GoldSound(d)
      BY <1>5, <1>8
    <2> QED
      BY <2>1, <2>2, <2>3, <2>4, <2>5, GoldKept
  <1>10. Sound(e, lastId)
    <2>1. BidsSound(e) /\ UnitsSound(e)
      BY <1>5, <1>8 DEF BidsSound, UnitsSound
    <2>2. MailsSound(e)
      BY <1>5, <1>8, MailsTaken
    <2>3. PlacesApart(e)
      BY <1>3, <1>5, <1>8, PlacesPaid
    <2> QED
      BY <1>7, <1>9, <2>1, <2>2, <2>3 DEF Sound
  <1>11. /\ money \in [Players -> Int] /\ owed \in [Players -> Int] /\ online \subseteq Players
         /\ count \in [Guids -> Nat] /\ bag \in [Guids -> Players \cup {None}]
         /\ \A g \in Guids : bag[g] \in online \cup {None}
    BY DEF IInv, TypeCorrect, Absent
  <1>12. owed' = [owed EXCEPT ![p] = 0]
    BY <1>1 DEF Take
  <1>13. \A q \in online : money[q] + owed[q] = d.money[q]
    BY <1>d, Memory
  <1>14. \A q \in online : money'[q] + owed'[q] = e.money[q]
    BY <1>1, <1>4, <1>8, <1>11, <1>12, <1>13
  <1>15. /\ \A q \in online : \A g \in Guids : bag'[g] = q <=> e.inventory[g] = q
         /\ \A q \in online : \A g \in Guids : bag'[g] = q => count'[g] = e.count[g]
         /\ \A g \in aitems : count'[g] = e.count[g]
    BY <1>1, <1>8, <1>d, Memory
  <1>16. /\ money' \in [Players -> Int] /\ bag' \in [Guids -> Players \cup {None}]
         /\ count' \in [Guids -> Nat] /\ \A g \in Guids : bag'[g] \in online \cup {None}
    BY <1>1, <1>4, <1>11
  <1>17. \A q \in Players \ {p} :
           /\ e.money[q] = d.money[q]
           /\ \A g \in Guids : e.inventory[g] = q <=> d.inventory[g] = q
           /\ \A g \in Guids : d.inventory[g] = q => e.count[g] = d.count[g]
    BY <1>8
  <1>18. d = Database /\ Take(p, m) /\ Commit(e) /\ e.mails = d.mails \ {m} /\ e.auctions = d.auctions
    BY <1>1, <1>8, <1>d
  <1> QED
    BY <1>10, <1>14, <1>15, <1>16, <1>17, <1>18, TakingStep

\* The item of the mail m is put on the stack x of p.
WithItem(f, m, x, p, units) ==
  [f EXCEPT !.mails = @ \ {m}, !.inventory[x] = p, !.count = Stored(@, m.item, x, units)]

LEMMA WithItemShape ==
  ASSUME NEW n \in Nat, NEW f \in Databases(n), NEW m, m.item \in Guids, NEW x \in Guids,
         NEW p \in Players, NEW units \in Nat, NEW e, e = WithItem(f, m, x, p, units)
  PROVE  /\ e \in Databases(n)
         /\ e.money = f.money /\ e.inventory = [f.inventory EXCEPT ![x] = p]
         /\ e.count = Stored(f.count, m.item, x, units)
         /\ e.auctions = f.auctions /\ e.mails = f.mails \ {m} /\ e.house = f.house
  <1>c. PICK c : c = Stored(f.count, m.item, x, units)
    OBVIOUS
  <1>v. PICK v : v = [f.inventory EXCEPT ![x] = p]
    OBVIOUS
  <1>1. f.count \in [Guids -> Nat] /\ f.inventory \in [Guids -> Players \cup {None}]
    BY DEF Databases
  <1>2. c \in [Guids -> Nat]
    BY <1>1, <1>c DEF Stored
  <1>3. v \in [Guids -> Players \cup {None}]
    BY <1>1, <1>v
  <1>4. e = [f EXCEPT !.mails = @ \ {m}, !.inventory = v, !.count = c]
    BY <1>c, <1>v DEF WithItem
  <1>5. /\ e.money = f.money /\ e.inventory = v /\ e.count = c
        /\ e.auctions = f.auctions /\ e.mails = f.mails \ {m} /\ e.house = f.house
    BY <1>4 DEF Databases
  <1>6. e \in Databases(n)
    BY <1>2, <1>3, <1>4 DEF Databases
  <1> QED
    BY <1>5, <1>6, <1>c, <1>v

LEMMA MailTakeItemStep ==
  ASSUME IInv, NEW p \in Players, NEW m \in mails[p], MailTakeItem(p, m)
  PROVE  IInv'
  <1>d. PICK d : d = Database
    OBVIOUS
  <1>u. PICK units : units = d.count[m.item]
    OBVIOUS
  <1>z. PICK z \in Int : z = 0
    OBVIOUS
  <1>f. PICK f : f = SaveGoldToDB(d, p, money[p], z)
    OBVIOUS
  <1>x. PICK x \in Stacks(p, m.item) :
          /\ bag' = [bag EXCEPT ![x] = p]
          /\ count' = Stored(count, m.item, x, units)
          /\ Commit(WithItem(f, m, x, p, units))
    BY <1>d, <1>u, <1>z, <1>f, Zenon DEF MailTakeItem, WithItem
  <1>e. PICK e : e = WithItem(f, m, x, p, units)
    OBVIOUS
  <1>1. m.item # None /\ Take(p, m) /\ UNCHANGED money
    BY DEF MailTakeItem
  <1>g. PICK g : g = m.item
    OBVIOUS
  <1>2. /\ p \in online /\ m \in d.mails /\ g \in Guids /\ g # None /\ m.money = 0
    BY <1>1, <1>d, <1>g, ListedMail
  <1>3. /\ d \in Databases(lastId) /\ lastId \in Nat /\ Sound(d, lastId)
        /\ money[p] \in Int /\ owed[p] \in Int
        /\ d.money[p] = money[p] + owed[p]
    BY <1>2, <1>d, Memory, Current DEF IInv
  <1>4. /\ BidsSound(d) /\ MailsSound(d) /\ PlacesApart(d) /\ GoldSound(d) /\ UnitsSound(d)
        /\ IsFiniteSet(d.mails) /\ \A k \in d.mails : k.money \in Int
        /\ d.money \in [Players -> Int] /\ d.house \in Int
        /\ d.count \in [Guids -> Nat] /\ d.inventory \in [Guids -> Players \cup {None}]
    BY <1>3 DEF Sound, MailsSound, Databases, Letters
  <1>5. /\ money \in [Players -> Int] /\ owed \in [Players -> Int] /\ online \subseteq Players
        /\ count \in [Guids -> Nat] /\ bag \in [Guids -> Players \cup {None}]
        /\ \A y \in Guids : bag[y] \in online \cup {None}
    BY DEF IInv, TypeCorrect, Absent
  <1>6. /\ d.inventory[g] = None /\ units \in Nat
        /\ \A a \in DOMAIN d.auctions : d.auctions[a].item # g
    BY <1>1, <1>2, <1>4, <1>g, <1>u DEF PlacesApart
  <1>7. \A q \in online : /\ q \in Players /\ q # None
                          /\ money[q] + owed[q] = d.money[q]
                          /\ \A y \in Guids : bag[y] = q <=> d.inventory[y] = q
                          /\ \A y \in Guids : bag[y] = q => count[y] = d.count[y]
    BY <1>d, Memory, ConstantsAssumption
  <1>8. bag[g] = None
    BY <1>2, <1>5, <1>6, <1>7
  <1>9. x \in Guids /\ (x = g \/ (bag[x] = p /\ d.inventory[x] = p /\ count[x] = d.count[x]))
    <2>1. x \in Guids /\ (x = g \/ bag[x] = p)
      BY <1>2, <1>x, <1>g DEF Stacks
    <2>2. bag[x] = p => d.inventory[x] = p /\ count[x] = d.count[x]
      BY <1>2, <1>7, <2>1
    <2> QED
      BY <2>1, <2>2
  <1>10. /\ f \in Databases(lastId) /\ f.money = [d.money EXCEPT ![p] = money[p]]
         /\ f.house = d.house + owed[p] + z
         /\ f.inventory = d.inventory /\ f.count = d.count /\ f.auctions = d.auctions
         /\ f.mails = d.mails
    BY <1>3, <1>f, SaveShape
  <1>11. /\ e \in Databases(lastId)
         /\ e.money = f.money /\ e.inventory = [f.inventory EXCEPT ![x] = p]
         /\ e.count = Stored(f.count, m.item, x, units)
         /\ e.auctions = f.auctions /\ e.mails = f.mails \ {m} /\ e.house = f.house
    <2>1. lastId \in Nat /\ f \in Databases(lastId) /\ units \in Nat /\ m.item \in Guids /\ x \in Guids
      BY <1>2, <1>3, <1>6, <1>9, <1>10, <1>g
    <2> QED
      BY <1>e, <2>1, WithItemShape
  <1>12. /\ e.money[p] = money[p] /\ \A q \in Players \ {p} : e.money[q] = d.money[q]
         /\ e.auctions = d.auctions
         /\ e.mails = d.mails \ {m} /\ e.house = d.house + owed[p]
    BY <1>3, <1>4, <1>10, <1>11, <1>z
  <1>13. /\ e.inventory = [d.inventory EXCEPT ![x] = p]
         /\ e.count = Stored(d.count, g, x, d.count[g])
    BY <1>10, <1>11, <1>g, <1>u
  <1>14. \A y \in Guids : e.inventory[y] = IF y = x THEN p ELSE d.inventory[y]
    BY <1>4, <1>9, <1>13
  <1>15. \A y \in Guids : e.count[y] = IF y = x THEN (IF x = g THEN 0 ELSE d.count[x]) + units
                                       ELSE IF y = g THEN 0 ELSE d.count[y]
    <2>1. e.count = Stored(d.count, g, x, units) /\ g \in Guids /\ x \in Guids
      BY <1>2, <1>9, <1>13, <1>g, <1>u
    <2> QED
      BY <2>1 DEF Stored
  <1>16. \A y \in Guids : count'[y] = IF y = x THEN (IF x = g THEN 0 ELSE count[x]) + units
                                      ELSE IF y = g THEN 0 ELSE count[y]
    <2>1. count' = Stored(count, g, x, units) /\ g \in Guids /\ x \in Guids
      BY <1>2, <1>9, <1>x, <1>g
    <2> QED
      BY <2>1 DEF Stored
  <1>17. GoldSound(e)
    <2>1. MailGold(e.mails) = MailGold(d.mails)
      <3>1. MailGold(d.mails \ {m}) = MailGold(d.mails) - m.money
        BY <1>2, <1>4, MailGoldRemove
      <3>2. MailGold(d.mails) \in Int
        BY <1>4, MailGoldIs
      <3> QED
        BY <1>2, <1>12, <3>1, <3>2
    <2>2. e.house = d.house + (d.money[p] - e.money[p])
      BY <1>3, <1>4, <1>12
    <2>3. d \in Databases(lastId) /\ e \in Databases(lastId) /\ lastId \in Nat
      BY <1>3, <1>11
    <2>4. /\ \A q \in Players \ {p} : d.money[q] = e.money[q]
          /\ IsFiniteSet(d.mails) /\ GoldSound(d) /\ BidGold(e.auctions) = BidGold(d.auctions)
      BY <1>4, <1>12
    <2> QED
      BY <2>1, <2>2, <2>3, <2>4, GoldSaved
  <1>18. Sound(e, lastId)
    <2>1. BidsSound(e)
      BY <1>4, <1>12 DEF BidsSound
    <2>2. MailsSound(e)
      BY <1>4, <1>12, MailsTaken
    <2>3. PlacesApart(e)
      <3>1. x = m.item \/ d.inventory[x] # None
        BY <1>2, <1>7, <1>9, <1>g
      <3>2. e.count = Stored(d.count, m.item, x, d.count[m.item])
        BY <1>13, <1>g
      <3>3. d \in Databases(lastId) /\ lastId \in Nat /\ PlacesApart(d) /\ m \in d.mails
        BY <1>2, <1>3, <1>4
      <3>4. e.auctions = d.auctions /\ e.mails = d.mails \ {m} /\ e.inventory = [d.inventory EXCEPT ![x] = p]
        BY <1>12, <1>13
      <3>5. x \in Guids
        BY <1>9
      <3> QED
        BY <1>1, <3>1, <3>2, <3>3, <3>4, <3>5, PlacesStored
    <2>4. UnitsSound(e)
      <3>1. SumOver(Stored(d.count, g, x, d.count[g]), Guids) = SumOver(d.count, Guids)
        BY <1>2, <1>4, <1>9, UnitsStored
      <3> QED
        BY <1>4, <1>13, <3>1 DEF UnitsSound
    <2> QED
      BY <1>11, <1>17, <2>1, <2>2, <2>3, <2>4 DEF Sound
  <1>19. owed' = [owed EXCEPT ![p] = 0]
    BY <1>1 DEF Take
  <1>20. \A q \in online : money'[q] + owed'[q] = e.money[q]
    BY <1>1, <1>3, <1>5, <1>7, <1>12, <1>19
  <1>21. \A y \in Guids : bag'[y] = IF y = x THEN p ELSE bag[y]
    BY <1>5, <1>9, <1>x
  <1>22. \A q \in online : \A y \in Guids : bag'[y] = q <=> e.inventory[y] = q
    BY <1>7, <1>14, <1>21
  <1>23. ASSUME NEW q \in online, NEW y \in Guids, bag'[y] = q
         PROVE  count'[y] = e.count[y]
    <2>1. CASE y = x
      BY <1>9, <1>15, <1>16, <2>1
    <2>2. CASE y # x
      <3>1. bag[y] = q /\ y # g /\ count[y] = d.count[y]
        BY <1>7, <1>8, <1>21, <1>23, <2>2
      <3> QED
        BY <1>15, <1>16, <2>2, <3>1
    <2> QED
      BY <2>1, <2>2
  <1>24. ASSUME NEW y \in aitems
         PROVE  count'[y] = e.count[y]
    <2>1. y \in Guids /\ bag[y] = None /\ InAuction(d, y) /\ count[y] = d.count[y]
      BY <1>d, Memory
    <2>2. y # g /\ y # x
      BY <1>2, <1>6, <1>7, <1>9, <2>1 DEF InAuction
    <2> QED
      BY <1>15, <1>16, <2>1, <2>2
  <1>25. /\ money' \in [Players -> Int]
         /\ bag' \in [Guids -> Players \cup {None}] /\ count' \in [Guids -> Nat]
         /\ \A y \in Guids : bag'[y] \in online \cup {None}
    <2>1. bag' \in [Guids -> Players \cup {None}]
      BY <1>5, <1>x
    <2>2. \A y \in Guids : count'[y] \in Nat
      BY <1>5, <1>6, <1>9, <1>16
    <2>3. count' = [y \in Guids |-> count'[y]]
      BY <1>x DEF Stored
    <2>4. count' \in [Guids -> Nat]
      BY <2>2, <2>3
    <2> QED
      BY <1>1, <1>2, <1>5, <1>21, <2>1, <2>4
  <1>26. ASSUME NEW q \in Players \ {p}
         PROVE  /\ e.money[q] = d.money[q]
                /\ \A y \in Guids : e.inventory[y] = q <=> d.inventory[y] = q
                /\ \A y \in Guids : d.inventory[y] = q => e.count[y] = d.count[y]
    <2>1. q # p /\ q # None
      BY ConstantsAssumption
    <2>2. \A y \in Guids : d.inventory[y] = q => y # x /\ y # g
      BY <1>6, <1>9, <2>1
    <2>3. \A y \in Guids : e.inventory[y] = q <=> d.inventory[y] = q
      BY <1>14, <2>1, <2>2
    <2>4. \A y \in Guids : d.inventory[y] = q => e.count[y] = d.count[y]
      BY <1>15, <2>2
    <2> QED
      BY <1>12, <2>3, <2>4
  <1>27. /\ d = Database /\ Take(p, m) /\ Commit(e) /\ e.mails = d.mails \ {m}
         /\ e.auctions = d.auctions
    BY <1>1, <1>12, <1>d, <1>e, <1>x
  <1> QED
    BY <1>18, <1>20, <1>22, <1>23, <1>24, <1>25, <1>26, <1>27, TakingStep

-----------------------------------------------------------------------------
(* Deposits are settled.                                                     *)

\* The auctions B are those of A but for deposits and running times.
SameSales(A, B) ==
  /\ DOMAIN B = DOMAIN A
  /\ \A a \in DOMAIN A : /\ B[a].item = A[a].item /\ B[a].owner = A[a].owner
                         /\ B[a].bid = A[a].bid /\ B[a].bidder = A[a].bidder

WithAuctions(d, B) == [d EXCEPT !.auctions = B]

LEMMA SameSalesSound ==
  ASSUME NEW n \in Nat, NEW d, Sound(d, n), NEW B \in AuctionMaps(n),
         SameSales(d.auctions, B), NEW e, e = WithAuctions(d, B)
  PROVE  /\ Sound(e, n)
         /\ e.money = d.money /\ e.inventory = d.inventory /\ e.count = d.count
         /\ e.mails = d.mails /\ e.auctions = B
  <1>1. /\ d \in Databases(n) /\ BidsSound(d) /\ MailsSound(d) /\ PlacesApart(d)
        /\ GoldSound(d) /\ UnitsSound(d)
    BY DEF Sound
  <1>2. /\ e.money = d.money /\ e.inventory = d.inventory /\ e.count = d.count
        /\ e.mails = d.mails /\ e.auctions = B /\ e.house = d.house
        /\ e \in Databases(n)
    BY <1>1 DEF WithAuctions, Databases
  <1>3. BidsSound(e)
    BY <1>1, <1>2 DEF BidsSound, SameSales
  <1>4. MailsSound(e)
    BY <1>1, <1>2 DEF MailsSound, SameSales
  <1>5. PlacesApart(e)
    <2>C. PICK C : C = {}
      OBVIOUS
    <2>1. ItemsMailed(d, e, C, C)
      BY <1>2, <2>C DEF ItemsMailed, SameSales
    <2> QED
      BY <1>1, <2>1, PlacesMailed
  <1>6. GoldSound(e)
    <2>1. BidGold(B) = BidGold(d.auctions)
      <3>1. d.auctions \in AuctionMaps(n) /\ DOMAIN B = DOMAIN d.auctions
            /\ \A a \in DOMAIN d.auctions : B[a].bid = d.auctions[a].bid
        BY <1>1 DEF Databases, SameSales
      <3> QED
        BY <3>1, BidGoldSame
    <2> QED
      BY <1>1, <1>2, <2>1 DEF GoldSound, Gold
  <1>7. UnitsSound(e)
    BY <1>1, <1>2 DEF UnitsSound
  <1> QED
    BY <1>2, <1>3, <1>4, <1>5, <1>6, <1>7 DEF Sound

\* The new auctions of the players with whom UpdatePendingAuctions deals.
Dealt == UNION {Range(pending[p]) : p \in Charged \cup Left}

LEMMA DepositTyped ==
  ASSUME IInv, NEW p \in Charged, Range(pending[p]) \subseteq DOMAIN auctions
  PROVE  /\ TotalDeposit(p) \in Nat /\ \A i : Share(p, i) \in Int
         /\ p \in Players /\ p \in online
  <1>1. p \in Players /\ pending[p] # <<>> /\ p \in online
    BY DEF Charged, Unsettled
  <1>2. pending[p] \in Seq(1..lastId)
    BY <1>1 DEF IInv, TypeCorrect
  <1>n. PICK n : n = Len(pending[p])
    OBVIOUS
  <1>3. n \in Nat /\ n > 0 /\ DOMAIN pending[p] = 1..n
    BY <1>1, <1>2, <1>n
  <1>4. IsFiniteSet(1..n)
    BY <1>3, FS_Interval
  <1>f. PICK f : f = [i \in DOMAIN pending[p] |-> auctions[pending[p][i]].count]
    OBVIOUS
  <1>5. \A i \in 1..n : f[i] \in Nat
    <2>1. ASSUME NEW i \in 1..n
          PROVE  f[i] \in Nat
      <3>1. pending[p][i] \in DOMAIN auctions
        BY <1>3 DEF Range
      <3>2. auctions[pending[p][i]] \in Entries
        BY <3>1, Memory
      <3> QED
        BY <1>3, <1>f, <3>2 DEF Entries
    <2> QED
      BY <2>1
  <1>6. SumOver(f, 1..n) \in Nat
    BY <1>4, <1>5, SumNatural
  <1>7. Total(f) \in Nat
    <2>1. DOMAIN f = 1..n
      BY <1>3, <1>f
    <2> QED
      BY <1>6, <2>1, TotalIsSum
  <1>8. TotalDeposit(p) \in Nat
    <2>1. TotalDeposit(p) = UnitDeposit * Total(f)
      BY <1>f DEF TotalDeposit, GetAuctionDeposit
    <2>2. UnitDeposit \in Nat
      BY ConstantsAssumption
    <2> QED
      BY <1>7, <2>1, <2>2
  <1>t. PICK t \in Nat : t = TotalDeposit(p)
    BY <1>8
  <1>s. PICK s : s = t \div n
    OBVIOUS
  <1>9. s \in Int
    BY <1>3, <1>s
  <1>10. t - (n - 1) * s \in Int
    <2>1. (n - 1) * s \in Int
      BY <1>3, <1>9
    <2> QED
      BY <2>1
  <1>11. \A i : Share(p, i) = IF i = n THEN t - (n - 1) * s ELSE s
    BY <1>n, <1>t, <1>s DEF Share
  <1> QED
    BY <1>1, <1>8, <1>9, <1>10, <1>11

\* What becomes of an auction.
LEMMA SettledEntry ==
  ASSUME IInv, \A p \in Charged \cup Left : Range(pending[p]) \subseteq DOMAIN auctions,
         NEW a \in DOMAIN auctions
  PROVE  /\ Settled(a) \in Entries
         /\ Settled(a).item = auctions[a].item /\ Settled(a).owner = auctions[a].owner
         /\ Settled(a).bid = auctions[a].bid /\ Settled(a).bidder = auctions[a].bidder
         /\ a \notin Dealt => Settled(a) = auctions[a]
  <1>r. PICK r : r = auctions[a]
    OBVIOUS
  <1>s. PICK s : s = Settled(a)
    OBVIOUS
  <1>1. r \in Entries
    BY <1>r, Memory
  <1>2. CASE a \in UNION {Range(pending[p]) : p \in Charged}
    <2>1. PICK p \in Charged : a \in Range(pending[p])
      BY <1>2
    <2>2. p \in Players /\ (\A i : Share(p, i) \in Int)
      <3>1. Range(pending[p]) \subseteq DOMAIN auctions
        BY <2>1
      <3> QED
        BY <2>1, <3>1, DepositTyped
    <2>3. r.owner = p
      <3>1. PICK i \in DOMAIN pending[p] : pending[p][i] = a
        BY <2>1 DEF Range
      <3> QED
        BY <1>r, <2>2, <3>1 DEF IInv, PendingOwned
    <2>4. PICK v \in Int : v = ShareOf(p, a)
      BY <2>2 DEF ShareOf
    <2>5. s = [r EXCEPT !.deposit = v]
      <3>1. ASSUME NEW q \in Left, a \in Range(pending[q])
            PROVE  FALSE
        <4>1. PICK i \in DOMAIN pending[q] : pending[q][i] = a
          BY <3>1 DEF Range
        <4>2. q \in Players /\ q \notin online
          BY DEF Left, Unsettled
        <4>3. r.owner = q
          BY <1>r, <4>1, <4>2 DEF IInv, PendingOwned
        <4> QED
          BY <2>1, <2>3, <4>2, <4>3 DEF Charged
      <3>2. a \notin UNION {Range(pending[q]) : q \in Left}
        BY <3>1
      <3> QED
        BY <1>2, <1>r, <1>s, <2>3, <2>4, <3>2 DEF Settled
    <2>6. a \in Dealt
      BY <2>1 DEF Dealt
    <2> QED
      BY <1>1, <1>r, <1>s, <2>5, <2>6 DEF Entries
  <1>3. CASE a \notin UNION {Range(pending[p]) : p \in Charged}
    <2>1. CASE a \in UNION {Range(pending[p]) : p \in Left}
      <3>1. s = [r EXCEPT !.now = TRUE]
        BY <1>3, <1>r, <1>s, <2>1 DEF Settled
      <3>2. a \in Dealt
        BY <2>1 DEF Dealt
      <3>3. PICK b \in BOOLEAN : b = TRUE
        OBVIOUS
      <3>4. s = [r EXCEPT !.now = b]
        BY <3>1, <3>3
      <3> QED
        BY <1>1, <1>r, <1>s, <3>2, <3>4 DEF Entries
    <2>2. CASE a \notin UNION {Range(pending[p]) : p \in Left}
      <3>1. s = r
        BY <1>3, <1>r, <1>s, <2>2 DEF Settled
      <3> QED
        BY <1>1, <1>r, <1>s, <3>1
    <2> QED
      BY <2>1, <2>2
  <1> QED
    BY <1>2, <1>3

\* The auctions after those of U are settled.
SettledMap(U) == [a \in DOMAIN auctions |-> IF a \in U THEN Settled(a) ELSE auctions[a]]

LEMMA SettledMapShape ==
  ASSUME IInv, \A p \in Charged \cup Left : Range(pending[p]) \subseteq DOMAIN auctions, NEW U
  PROVE  /\ SettledMap(U) \in AuctionMaps(lastId)
         /\ SameSales(auctions, SettledMap(U))
         /\ Dealt \subseteq U => SettledMap(U) = [a \in DOMAIN auctions |-> Settled(a)]
  <1>B. PICK B : B = SettledMap(U)
    OBVIOUS
  <1>1. /\ DOMAIN B = DOMAIN auctions /\ B = [a \in DOMAIN auctions |-> B[a]]
        /\ \A a \in DOMAIN auctions : B[a] = IF a \in U THEN Settled(a) ELSE auctions[a]
    BY <1>B DEF SettledMap
  <1>2. \A a \in DOMAIN auctions : /\ auctions[a] \in Entries /\ Settled(a) \in Entries
                                   /\ a \notin Dealt => Settled(a) = auctions[a]
    BY SettledEntry, Memory
  <1>3. B \in AuctionMaps(lastId)
    <2>D. PICK D : D = DOMAIN auctions
      OBVIOUS
    <2>1. D \in SUBSET (1..lastId) /\ lastId \in Nat
      BY <2>D, Memory
    <2>2. B \in [D -> Entries]
      BY <1>1, <1>2, <2>D
    <2> QED
      BY <2>1, <2>2, IsAuctionMap
  <1>4. SameSales(auctions, B)
    <2>1. \A a \in DOMAIN auctions :
            /\ Settled(a).item = auctions[a].item /\ Settled(a).owner = auctions[a].owner
            /\ Settled(a).bid = auctions[a].bid /\ Settled(a).bidder = auctions[a].bidder
      BY SettledEntry
    <2> QED
      BY <1>1, <2>1 DEF SameSales
  <1>5. ASSUME Dealt \subseteq U
        PROVE  B = [a \in DOMAIN auctions |-> Settled(a)]
    BY <1>1, <1>2, <1>5
  <1> QED
    BY <1>3, <1>4, <1>5, <1>B

\* The database with the auctions of U settled.
SettledRows(U) == WithAuctions(Database, SettledMap(U))

\* The transactions of a pass settle more and more, the last of them all.
LEMMA SettleQueue ==
  ASSUME IInv, NEW P, P = Charged \cup Left, NEW s, s = SettleTransactions
  PROVE  /\ P = {} => s = <<>>
         /\ P # {} => s # <<>> /\ s[Len(s)] = SettledRows(Dealt)
         /\ s \in Seq({SettledRows(U) : U \in SUBSET Dealt})
  <1>1. IsFiniteSet(P)
    <2>1. P \subseteq Players
      BY DEF Charged, Left, Unsettled
    <2> QED
      BY <2>1, ConstantsAssumption, FS_Subset
  <1>o. PICK o : o = SetToSeq(P)
    OBVIOUS
  <1>N. PICK N : N = Len(o)
    OBVIOUS
  <1>2. /\ N \in Nat /\ (\A i \in 1..N : o[i] \in P)
        /\ \A x \in P : \E i \in 1..N : o[i] = x
    BY <1>1, <1>o, <1>N, OrderOf
  <1> DEFINE upTo(i) == UNION {Range(pending[o[j]]) : j \in 1..i}
  <1>X. PICK X : X = {SettledRows(U) : U \in SUBSET Dealt}
    OBVIOUS
  <1>3. \A i \in 1..N : upTo(i) \in SUBSET Dealt
    BY <1>2 DEF Dealt
  <1>4. upTo(N) = Dealt
    <2>1. ASSUME NEW a \in Dealt
          PROVE  a \in upTo(N)
      <3>1. PICK p \in P : a \in Range(pending[p])
        BY DEF Dealt
      <3>2. PICK i \in 1..N : o[i] = p
        BY <1>2, <3>1
      <3> QED
        BY <3>1, <3>2
    <2>2. upTo(N) \subseteq Dealt
      BY <1>2 DEF Dealt
    <2> QED
      BY <2>1, <2>2
  <1>5. s = [i \in 1..N |-> SettledRows(upTo(i))]
    <2>1. auctions = Database.auctions
      BY Memory
    <2>2. \A U : SettledRows(U) = [Database EXCEPT !.auctions =
                    [a \in DOMAIN @ |-> IF a \in U THEN Settled(a) ELSE @[a]]]
      BY <2>1 DEF SettledRows, WithAuctions, SettledMap
    <2> HIDE DEF upTo
    <2>3. s = [i \in 1..N |-> [Database EXCEPT !.auctions =
                 [a \in DOMAIN @ |-> IF a \in upTo(i) THEN Settled(a) ELSE @[a]]]]
      BY <1>o, <1>N, Zenon DEF SettleTransactions, upTo
    <2> QED
      BY <2>2, <2>3, Zenon
  <1> HIDE DEF upTo
  <1>6. DOMAIN s = 1..N /\ \A i \in 1..N : s[i] = SettledRows(upTo(i))
    BY <1>5
  <1>7. s \in [1..N -> X]
    <2>1. \A i \in 1..N : s[i] \in X
      BY <1>3, <1>6, <1>X
    <2> QED
      BY <1>5, <2>1
  <1>8. s \in Seq(X) /\ Len(s) = N
    BY <1>2, <1>7
  <1>9. ASSUME P = {}
        PROVE  s = <<>>
    <2>1. N = 0
      BY <1>2, <1>9
    <2> QED
      BY <1>8, <2>1
  <1>10. ASSUME P # {}
         PROVE  s # <<>> /\ s[Len(s)] = SettledRows(Dealt)
    <2>1. N # 0 /\ N \in 1..N
      BY <1>2, <1>10
    <2> QED
      BY <1>4, <1>6, <1>8, <2>1
  <1> QED
    BY <1>2, <1>8, <1>9, <1>10, <1>X

\* A deposit comes out of the purse of a player in the world.
LEMMA TakenTyped ==
  ASSUME IInv, NEW p \in Charged, Range(pending[p]) \subseteq DOMAIN auctions
  PROVE  Taken(p) \in Int /\ p \in Players /\ p \in online
  <1>1. TotalDeposit(p) \in Nat /\ p \in Players /\ p \in online
    BY DepositTyped
  <1>2. money[p] \in Int
    BY <1>1, Memory
  <1>t. PICK t \in Int : t = TotalDeposit(p)
    BY <1>1
  <1>m. PICK m \in Int : m = money[p]
    BY <1>2
  <1>S. PICK S : S = {m, t}
    OBVIOUS
  <1>3. \E x \in S : \A y \in S : x <= y
    BY <1>S
  <1>4. Min(S) \in S
    BY <1>3 DEF Min
  <1> QED
    BY <1>1, <1>4, <1>m, <1>S, <1>t DEF Taken

LEMMA SettleStep ==
  ASSUME IInv, \A p \in Charged \cup Left : Range(pending[p]) \subseteq DOMAIN auctions,
         Settle, UNCHANGED <<sessionVars, itemVars, aitems, loaded, mails, lastId>>
  PROVE  IInv'
  <1>1. TypeCorrect /\ LogSound /\ Saved /\ Absent /\ Waiting /\ Listed /\ PendingOwned
    BY DEF IInv
  <1>d. PICK d : d = Database
    OBVIOUS
  <1>P. PICK P : P = Charged \cup Left
    OBVIOUS
  <1>s. PICK s : s = SettleTransactions
    OBVIOUS
  <1>A. PICK A : A = [a \in DOMAIN auctions |-> Settled(a)]
    OBVIOUS
  <1>2. /\ auctions' = A
        /\ money' = [p \in Players |-> IF p \in Charged THEN money[p] - Taken(p) ELSE money[p]]
        /\ owed' = [p \in Players |-> IF p \in Charged THEN owed[p] + Taken(p) ELSE owed[p]]
        /\ pending' = [p \in Players |-> IF p \in P THEN <<>> ELSE pending[p]]
        /\ log' = log \o s
        /\ UNCHANGED <<online, loading, bag, count, aitems, loaded, mails, lastId>>
    BY <1>A, <1>P, <1>s DEF Settle, CommitAll, sessionVars, itemVars
  <1>3. /\ d \in Databases(lastId) /\ lastId \in Nat /\ auctions = d.auctions
        /\ Sound(d, lastId)
    BY <1>1, <1>d, Memory, Current
  <1>4. \A p \in Charged : Taken(p) \in Int /\ p \in Players /\ p \in online
    BY TakenTyped
  <1>5. A = SettledMap(Dealt) /\ A \in AuctionMaps(lastId) /\ SameSales(auctions, A)
    BY <1>A, SettledMapShape
  <1>X. PICK X : X = {SettledRows(U) : U \in SUBSET Dealt}
    OBVIOUS
  <1>6. ASSUME NEW U
        PROVE  /\ Sound(SettledRows(U), lastId)
               /\ SettledRows(U).money = d.money /\ SettledRows(U).inventory = d.inventory
               /\ SettledRows(U).count = d.count /\ SettledRows(U).mails = d.mails
               /\ SettledRows(U).auctions = SettledMap(U)
    <2>B. PICK B : B = SettledMap(U)
      OBVIOUS
    <2>x. PICK x : x = WithAuctions(d, B)
      OBVIOUS
    <2>1. B \in AuctionMaps(lastId) /\ SameSales(d.auctions, B)
      BY <1>3, <2>B, SettledMapShape
    <2>2. /\ Sound(x, lastId)
          /\ x.money = d.money /\ x.inventory = d.inventory /\ x.count = d.count
          /\ x.mails = d.mails /\ x.auctions = B
      BY <1>3, <2>1, <2>x, SameSalesSound
    <2>3. x = SettledRows(U)
      BY <1>d, <2>B, <2>x DEF SettledRows
    <2> QED
      BY <2>2, <2>3, <2>B
  <1>7. \A x \in X : /\ Sound(x, lastId) /\ x \in Databases(lastId)
                     /\ x.money = d.money /\ x.inventory = d.inventory
                     /\ x.count = d.count /\ x.mails = d.mails
    BY <1>6, <1>X DEF Sound
  <1>8. /\ P = {} => s = <<>>
        /\ P # {} => s # <<>> /\ s[Len(s)] = SettledRows(Dealt)
        /\ s \in Seq(X)
    BY <1>P, <1>s, <1>X, SettleQueue
  <1>9. /\ \A q \in Players : \A x, y \in X : KeepsPlayer(x, y, q) /\ KeepsPlayer(d, y, q)
        /\ \A q \in Players : \A x, y \in X : KeepsMails(x, y, q) /\ KeepsMails(d, y, q)
    BY <1>7 DEF KeepsPlayer, KeepsMails
  <1>10. /\ log' \in Seq(Databases(lastId')) /\ log' # <<>> /\ LogSound' /\ Waiting'
         /\ Database'.money = d.money /\ Database'.inventory = d.inventory
         /\ Database'.count = d.count /\ Database'.mails = d.mails /\ Database'.auctions = A
         /\ \A q \in online \ loaded : \A i \in 1..Len(log') : KeepsMails(log'[i], Database', q)
    <2>1. CASE P = {}
      <3>1. log' = log
        BY <1>1, <1>2, <1>8, <2>1 DEF TypeCorrect
      <3>2. Database' = d
        BY <1>d, <3>1 DEF Database
      <3>3. auctions = A
        <4>1. Dealt = {}
          BY <1>P, <2>1 DEF Dealt
        <4>2. \A a \in DOMAIN auctions : Settled(a) = auctions[a]
          BY <4>1, SettledEntry
        <4>3. auctions = [a \in DOMAIN auctions |-> auctions[a]]
          BY <1>3, AuctionMap DEF Databases
        <4> QED
          BY <1>A, <4>2, <4>3
      <3>4. LogSound' /\ Waiting'
        BY <1>1, <1>2, <1>d, <3>1, <3>2 DEF LogSound, Waiting
      <3>5. log' \in Seq(Databases(lastId')) /\ log' # <<>>
        BY <1>1, <1>2, <3>1 DEF TypeCorrect
      <3>6. \A q \in online \ loaded : \A i \in 1..Len(log') : KeepsMails(log'[i], Database', q)
        BY <1>1, <1>d, <3>1, <3>2 DEF Listed, TypeCorrect
      <3> QED
        BY <1>3, <3>2, <3>3, <3>4, <3>5, <3>6
    <2>2. CASE P # {}
      <3>e. PICK e : e = SettledRows(Dealt)
        OBVIOUS
      <3>1. e \in X /\ e.auctions = A
        BY <1>5, <1>6, <1>X, <3>e
      <3>2. s \in Seq(Databases(lastId)) /\ s # <<>> /\ e = s[Len(s)] /\ Len(s) \in Nat
        BY <1>7, <1>8, <2>2, <3>e
      <3>3. \A j \in 1..Len(s) : s[j] \in X
        BY <1>8
      <3>4. Queued(s, e)
        BY <1>2, <1>3, <3>2 DEF Queued
      <3>5. log' \in Seq(Databases(lastId')) /\ log' # <<>> /\ Database' = e
        BY <1>1, <3>4, QueuedLog
      <3>6. LogSound'
        <4>1. \A j \in 1..Len(s) : Sound(s[j], lastId')
          BY <1>2, <1>7, <3>3
        <4> QED
          BY <1>1, <3>4, <4>1, LogSoundQueued
      <3>7. Waiting'
        <4>1. \A q \in Players : q \notin online =>
                /\ KeepsPlayer(Database, e, q)
                /\ \A j \in 1..Len(s) : KeepsPlayer(s[j], e, q)
          BY <1>9, <1>d, <3>1, <3>3
        <4>2. UNCHANGED loading /\ online' \subseteq online
          BY <1>2
        <4> QED
          BY <1>1, <3>4, <4>1, <4>2, WaitingQueued
      <3>8. ASSUME NEW q \in online \ loaded
            PROVE  \A i \in 1..Len(log') : KeepsMails(log'[i], Database', q)
        <4>1. q \in Players
          BY <1>1 DEF TypeCorrect
        <4>2. KeepsMails(Database, e, q) /\ \A j \in 1..Len(s) : KeepsMails(s[j], e, q)
          BY <1>9, <1>d, <3>1, <3>3, <4>1
        <4> QED
          BY <1>1, <3>4, <4>2, ListedQueued
      <3> QED
        BY <1>7, <3>1, <3>5, <3>6, <3>7, <3>8
    <2> QED
      BY <2>1, <2>2
  <1>11. DOMAIN A = DOMAIN auctions /\ \A a \in DOMAIN auctions :
           A[a].item = auctions[a].item /\ A[a].owner = auctions[a].owner
    BY <1>5 DEF SameSales
  <1>12. TypeCorrect'
    <2>1. money' \in [Players -> Int] /\ owed' \in [Players -> Int]
      <3>1. \A p \in Players : money[p] \in Int /\ owed[p] \in Int
        BY <1>1 DEF TypeCorrect
      <3>2. \A p \in Charged : money[p] - Taken(p) \in Int /\ owed[p] + Taken(p) \in Int
        BY <1>4, <3>1
      <3> QED
        BY <1>2, <3>1, <3>2
    <2>2. pending' \in [Players -> Seq(1..lastId')]
      <3>D. PICK D : D = Seq(1..lastId)
        OBVIOUS
      <3>1. <<>> \in D
        BY <3>D
      <3>2. pending \in [Players -> D] /\ lastId' = lastId
        BY <1>1, <1>2, <3>D DEF TypeCorrect
      <3>3. pending' \in [Players -> D]
        BY <1>2, <3>1, <3>2
      <3> QED
        BY <3>2, <3>3, <3>D
    <2> QED
      BY <1>1, <1>2, <1>10, <2>1, <2>2 DEF TypeCorrect
  <1>13. Saved'
    <2>1. aitems' = {auctions'[a].item : a \in DOMAIN auctions'}
      <3>1. aitems' = {auctions[a].item : a \in DOMAIN auctions}
        BY <1>1, <1>2 DEF Saved
      <3>2. {auctions[a].item : a \in DOMAIN auctions} = {A[a].item : a \in DOMAIN A}
        BY <1>11
      <3> QED
        BY <1>2, <3>1, <3>2
    <2>2. \A q \in online : money'[q] + owed'[q] = d.money[q]
      <3>1. ASSUME NEW q \in online
            PROVE  money'[q] + owed'[q] = d.money[q]
        <4>1. q \in Players /\ money[q] \in Int /\ owed[q] \in Int /\ d.money[q] = money[q] + owed[q]
          BY <1>d, Memory
        <4>2. CASE q \in Charged
          BY <1>2, <1>4, <4>1, <4>2
        <4>3. CASE q \notin Charged
          BY <1>2, <4>1, <4>3
        <4> QED
          BY <4>2, <4>3
      <3> QED
        BY <3>1
    <2>3. /\ UNCHANGED <<online, bag, count, aitems>>
          /\ auctions' = Database'.auctions
      BY <1>2, <1>10
    <2>4. /\ \A g \in aitems : count[g] = d.count[g]
          /\ \A p \in online : /\ \A g \in Guids : bag[g] = p <=> d.inventory[g] = p
                               /\ \A g \in Guids : bag[g] = p => count[g] = d.count[g]
      BY <1>1, <1>d DEF Saved
    <2> QED
      BY <1>10, <2>1, <2>2, <2>3, <2>4 DEF Saved
  <1>14. Absent'
    BY <1>1, <1>2, <1>4 DEF Absent
  <1>15. Listed'
    <2>1. \A q \in Players : q \notin loaded => mails[q] = {}
      BY <1>1 DEF Listed
    <2>2. \A q \in Players : \A m \in mails[q] : m \in Database'.mails /\ m.to = q
      BY <1>1, <1>10, <1>d DEF Listed
    <2> QED
      BY <1>2, <1>10, <2>1, <2>2 DEF Listed
  <1>16. PendingOwned'
    <2> SUFFICES ASSUME NEW p \in Players, NEW i \in DOMAIN pending'[p],
                        pending'[p][i] \in DOMAIN auctions'
                 PROVE  auctions'[pending'[p][i]].owner = p
      BY DEF PendingOwned
    <2>1. CASE p \in P
      BY <1>2, <2>1
    <2>2. CASE p \notin P
      BY <1>1, <1>2, <1>11, <2>2 DEF PendingOwned
    <2> QED
      BY <2>1, <2>2
  <1> QED
    BY <1>10, <1>12, <1>13, <1>14, <1>15, <1>16 DEF IInv

LEMMA UpdatePendingAuctionsStep ==
  ASSUME IInv, UpdatePendingAuctions
  PROVE  IInv'
  <1>1. UNCHANGED <<sessionVars, itemVars, aitems, loaded, mails, lastId>>
    BY DEF UpdatePendingAuctions
  <1>2. CASE \A p \in Charged \cup Left : Range(pending[p]) \subseteq DOMAIN auctions
    <2>1. Settle
      BY <1>2 DEF UpdatePendingAuctions
    <2> QED
      BY <1>1, <1>2, <2>1, SettleStep
  <1>3. CASE ~ \A p \in Charged \cup Left : Range(pending[p]) \subseteq DOMAIN auctions
    <2>1. UNCHANGED <<auctions, money, owed, pendingVars, log>>
      BY <1>3 DEF UpdatePendingAuctions
    <2>2. UNCHANGED checked
      BY <1>1, <2>1 DEF checked, houseVars, pendingVars
    <2> QED
      BY <2>2, Unchanged
  <1> QED
    BY <1>2, <1>3

-----------------------------------------------------------------------------
(* Bids that stop to be the highest.                                         *)

\* What BidReturned says of one auction.
BidAnswered(a) ==
  LET r == auctions[a]
      stands == /\ a \in DOMAIN auctions'
                /\ auctions'[a].bidder = r.bidder
      answer == {Mail(r.bidder, a, r.bid, None), Mail(r.bidder, a, 0, r.item)} IN
  r.bidder # None /\ ~stands =>
    (Database'.mails \ Database.mails) \cap answer # {}

LEMMA BidStands ==
  ASSUME NEW a, a \in DOMAIN auctions', auctions'[a].bidder = auctions[a].bidder
  PROVE  BidAnswered(a)
  BY DEF BidAnswered

\* The mails S sent with the transaction answer it.
LEMMA BidMailed ==
  ASSUME IInv, NEW a \in DOMAIN auctions, NEW r, r = auctions[a],
         NEW e, Commit(e), NEW S, e.mails = Database.mails \cup S,
         \/ Mail(r.bidder, a, r.bid, None) \in S
         \/ Mail(r.bidder, a, 0, r.item) \in S
  PROVE  BidAnswered(a)
  <1>1. Database' = e
    <2>1. log \in Seq(Databases(lastId)) /\ log' = log \o <<e>>
      BY DEF IInv, TypeCorrect, Commit, CommitAll
    <2>D. PICK D : D = Databases(lastId) \cup {e}
      OBVIOUS
    <2>2. log \in Seq(D) /\ <<e>> \in Seq(D) /\ Len(log) \in Nat
      BY <2>1, <2>D
    <2>3. Len(log') = Len(log) + 1 /\ log'[Len(log) + 1] = e
      BY <2>1, <2>2
    <2> QED
      BY <2>3 DEF Database, Last
  <1>2. /\ Database \in Databases(lastId) /\ lastId \in Nat /\ MailsSound(Database)
        /\ a \in DOMAIN Database.auctions /\ r = Database.auctions[a]
    BY Memory
  <1>3. r.item # None
    BY EntryOf
  <1>4. PICK m \in S : m = Mail(r.bidder, a, r.bid, None) \/ m = Mail(r.bidder, a, 0, r.item)
    OBVIOUS
  <1>5. m.auction = a /\ (m.item # None \/ m.money = r.bid)
    BY <1>3, <1>4 DEF Mail
  <1>6. m \notin Database.mails
    BY <1>2, <1>5, MailsNew
  <1>7. m \in (Database'.mails \ Database.mails)
          \cap {Mail(r.bidder, a, r.bid, None), Mail(r.bidder, a, 0, r.item)}
    BY <1>1, <1>4, <1>6
  <1> QED
    BY <1>7 DEF BidAnswered

\* A transaction that starts from d and has its mails.
Carries(f, d) == DOMAIN f = DOMAIN d /\ f.mails = d.mails

LEMMA SaveCarries ==
  ASSUME NEW n, NEW d \in Databases(n), NEW p, NEW v, NEW fee,
         NEW f, f = SaveGoldToDB(d, p, v, fee)
  PROVE  Carries(f, d)
  BY DEF Carries, SaveGoldToDB, Databases

LEMMA MailsOfDelete ==
  ASSUME NEW n, NEW d \in Databases(n), NEW f, Carries(f, d), NEW C, NEW S,
         NEW e, e = DeleteFromDB(f, C, S)
  PROVE  DOMAIN e = DOMAIN d /\ e.mails = d.mails \cup S
  BY DEF Carries, DeleteFromDB, Databases

\* The other auctions stand when those of C are removed.
LEMMA OthersStand ==
  ASSUME NEW C, RemoveAuctions(C), NEW a \in DOMAIN auctions, a \notin C
  PROVE  BidAnswered(a)
  <1>1. a \in DOMAIN auctions' /\ auctions'[a] = auctions[a]
    BY DEF RemoveAuctions, Restrict
  <1> QED
    BY <1>1, BidStands

LEMMA BuyoutAnswers ==
  ASSUME IInv, NEW p \in Players, NEW b \in DOMAIN auctions, NEW amount, Buyout(p, b, amount),
         NEW a \in DOMAIN auctions
  PROVE  BidAnswered(a)
  <1>r. PICK r : r = auctions[b]
    OBVIOUS
  <1>sold. PICK sold : sold = [r EXCEPT !.bidder = p, !.bid = r.buyout]
    OBVIOUS
  <1>S. PICK S : S = Refund(p, b, r) \cup SendAuctionSuccessfulMail(b, sold)
                       \cup SendAuctionWonMail(b, sold)
    OBVIOUS
  <1>v. PICK v : v = money[p] - Owes(p, r, r.buyout)
    OBVIOUS
  <1>f. PICK f : f = SaveGoldToDB(Database, p, v, Earned(sold))
    OBVIOUS
  <1>e. PICK e : e = DeleteFromDB(f, {b}, S)
    OBVIOUS
  <1>1. RemoveAuctions({b}) /\ Commit(e)
    BY <1>r, <1>sold, <1>S, <1>v, <1>f, <1>e DEF Buyout
  <1>2. CASE a # b
    BY <1>1, <1>2, OthersStand
  <1>3. CASE a = b /\ r.bidder = None
    BY <1>3, <1>r DEF BidAnswered
  <1>4. CASE a = b /\ r.bidder # None
    <2>1. Mail(r.bidder, a, r.bid, None) \in S \/ Mail(r.bidder, a, 0, r.item) \in S
      <3>1. CASE r.bidder = p
        <4>1. r \in Entries /\ r.item \in aitems
          BY <1>r, Memory, EntryOf
        <4>2. sold.bidder = p /\ sold.item = r.item
          BY <1>sold, <4>1 DEF Entries
        <4> QED
          BY <1>4, <1>S, <3>1, <4>1, <4>2 DEF SendAuctionWonMail
      <3>2. CASE r.bidder # p
        BY <1>4, <1>S, <3>2 DEF Refund, SendAuctionOutbiddedMail
      <3> QED
        BY <3>1, <3>2
    <2>2. e.mails = Database.mails \cup S
      <3>1. Database \in Databases(lastId)
        BY Memory
      <3>2. Carries(f, Database)
        BY <1>f, <3>1, SaveCarries
      <3> QED
        BY <1>e, <3>1, <3>2, MailsOfDelete
    <2>3. r = auctions[a]
      BY <1>4, <1>r
    <2> QED
      BY <1>1, <2>1, <2>2, <2>3, BidMailed
  <1> QED
    BY <1>2, <1>3, <1>4

LEMMA RemoveItemAnswers ==
  ASSUME IInv, NEW p \in Players, NEW b \in DOMAIN auctions, RemoveItem(p, b),
         NEW a \in DOMAIN auctions
  PROVE  BidAnswered(a)
  <1>r. PICK r : r = auctions[b]
    OBVIOUS
  <1>cut. PICK cut : cut = IF r.bidder = None THEN 0 ELSE GetAuctionCut(r)
    OBVIOUS
  <1>S. PICK S : S = {Mail(p, b, 0, r.item)}
                       \cup (IF r.bidder = None THEN {}
                             ELSE SendAuctionCancelledToBidderMail(b, r))
    OBVIOUS
  <1>v. PICK v : v = money[p] - cut
    OBVIOUS
  <1>f. PICK f : f = SaveGoldToDB(Database, p, v, cut)
    OBVIOUS
  <1>e. PICK e : e = DeleteFromDB(f, {b}, S)
    OBVIOUS
  <1>1. RemoveAuctions({b}) /\ Commit(e)
    BY <1>r, <1>cut, <1>S, <1>v, <1>f, <1>e DEF RemoveItem
  <1>2. CASE a # b
    BY <1>1, <1>2, OthersStand
  <1>3. CASE a = b /\ r.bidder = None
    BY <1>3, <1>r DEF BidAnswered
  <1>4. CASE a = b /\ r.bidder # None
    <2>1. Mail(r.bidder, a, r.bid, None) \in S
      BY <1>4, <1>S DEF SendAuctionCancelledToBidderMail
    <2>2. e.mails = Database.mails \cup S
      <3>1. Database \in Databases(lastId)
        BY Memory
      <3>2. Carries(f, Database)
        BY <1>f, <3>1, SaveCarries
      <3> QED
        BY <1>e, <3>1, <3>2, MailsOfDelete
    <2>3. r = auctions[a]
      BY <1>4, <1>r
    <2> QED
      BY <1>1, <2>1, <2>2, <2>3, BidMailed
  <1> QED
    BY <1>2, <1>3, <1>4

LEMMA UpdateAnswers ==
  ASSUME IInv, Update, NEW a \in DOMAIN auctions
  PROVE  BidAnswered(a)
  <1>C. PICK C : C = Expired
    OBVIOUS
  <1>S. PICK S : S = UNION {Closing(b, auctions[b]) : b \in C}
    OBVIOUS
  <1>1. PICK gain : RemoveAuctions(C) /\ Commit(WithGain(DeleteFromDB(Database, C, S), gain))
    BY <1>C, <1>S DEF Update, WithGain
  <1>e. PICK e : e = WithGain(DeleteFromDB(Database, C, S), gain)
    OBVIOUS
  <1>2. CASE a \notin C
    BY <1>1, <1>2, OthersStand
  <1>r. PICK r : r = auctions[a]
    OBVIOUS
  <1>3. CASE r.bidder = None
    BY <1>3, <1>r DEF BidAnswered
  <1>4. CASE a \in C /\ r.bidder # None
    <2>1. Mail(r.bidder, a, 0, r.item) \in S
      <3>1. ItemMail(a) \in Closing(a, auctions[a])
        BY ClosingMails
      <3>2. ItemMail(a) = Mail(r.bidder, a, 0, r.item)
        BY <1>4, <1>r DEF ItemMail
      <3> QED
        BY <1>4, <1>S, <3>1, <3>2
    <2>2. e.mails = Database.mails \cup S
      <3>1. Database \in Databases(lastId) /\ Carries(Database, Database)
        BY Memory DEF Carries
      <3>f. PICK f : f = DeleteFromDB(Database, C, S)
        OBVIOUS
      <3>2. DOMAIN f = DOMAIN Database /\ f.mails = Database.mails \cup S
        BY <3>1, <3>f, MailsOfDelete
      <3>3. e = WithGain(f, gain)
        BY <1>e, <3>f
      <3>4. DOMAIN f = {"money", "inventory", "count", "auctions", "mails", "house"}
        BY <3>1, <3>2 DEF Databases
      <3> QED
        BY <3>2, <3>3, <3>4 DEF WithGain
    <2> QED
      BY <1>1, <1>e, <1>r, <2>1, <2>2, BidMailed
  <1> QED
    BY <1>2, <1>3, <1>4

LEMMA PlaceBidAnswers ==
  ASSUME IInv, NEW p \in Players, NEW b \in DOMAIN auctions, NEW amount, PlaceBid(p, b, amount),
         NEW a \in DOMAIN auctions
  PROVE  BidAnswered(a)
  <1>r. PICK r : r = auctions[b]
    OBVIOUS
  <1>S. PICK S : S = Refund(p, b, r)
    OBVIOUS
  <1>e. PICK e : e = BidTransaction(p, b, r, amount)
    OBVIOUS
  <1>1. auctions' = [auctions EXCEPT ![b].bidder = p, ![b].bid = amount] /\ Commit(e)
    BY <1>r, <1>e DEF PlaceBid
  <1>2. CASE a # b
    <2>1. a \in DOMAIN auctions' /\ auctions'[a] = auctions[a]
      BY <1>1, <1>2
    <2> QED
      BY <2>1, BidStands
  <1>3. CASE a = b /\ r.bidder = None
    BY <1>3, <1>r DEF BidAnswered
  <1>4. CASE a = b /\ r.bidder = p
    <2>1. b \in DOMAIN auctions' /\ auctions'[b].bidder = p
      <3>1. r \in Entries
        BY <1>r, Memory
      <3> QED
        BY <1>1, <1>r, <3>1 DEF Entries
    <2> QED
      BY <1>4, <1>r, <2>1, BidStands
  <1>5. CASE a = b /\ r.bidder \notin {None, p}
    <2>1. Mail(r.bidder, a, r.bid, None) \in S
      BY <1>5, <1>S DEF Refund, SendAuctionOutbiddedMail
    <2>2. e.mails = Database.mails \cup S
      <3>1. Database \in Databases(lastId)
        BY Memory
      <3>f. PICK f : f = SaveGoldToDB(Database, p, money[p] - Owes(p, r, amount), 0)
        OBVIOUS
      <3>2. DOMAIN f = DOMAIN Database /\ f.mails = Database.mails
        BY <3>1, <3>f DEF SaveGoldToDB, Databases
      <3>3. "mails" \in DOMAIN f
        BY <3>1, <3>2 DEF Databases
      <3> QED
        BY <1>e, <1>S, <3>2, <3>3, <3>f DEF BidTransaction
    <2>3. r = auctions[a]
      BY <1>5, <1>r
    <2> QED
      BY <1>1, <2>1, <2>2, <2>3, BidMailed
  <1> QED
    BY <1>2, <1>3, <1>4, <1>5

LEMMA AddAuctionStands ==
  ASSUME IInv, NEW p, NEW r, AddAuction(p, r), NEW a \in DOMAIN auctions
  PROVE  BidAnswered(a)
  <1>1. auctions' = WithAuction(auctions, lastId + 1, r)
    BY DEF AddAuction
  <1>2. a # lastId + 1
    BY Memory
  <1>3. a \in DOMAIN auctions' /\ auctions'[a] = auctions[a]
    BY <1>1, <1>2 DEF WithAuction
  <1> QED
    BY <1>3, BidStands

LEMMA UpdatePendingAuctionsStands ==
  ASSUME IInv, UpdatePendingAuctions, NEW a \in DOMAIN auctions
  PROVE  BidAnswered(a)
  <1>1. CASE \A p \in Charged \cup Left : Range(pending[p]) \subseteq DOMAIN auctions
    <2>1. auctions' = [b \in DOMAIN auctions |-> Settled(b)]
      BY <1>1 DEF UpdatePendingAuctions, Settle
    <2>2. Settled(a).bidder = auctions[a].bidder
      BY <1>1, SettledEntry
    <2> QED
      BY <2>1, <2>2, BidStands
  <1>2. CASE ~ \A p \in Charged \cup Left : Range(pending[p]) \subseteq DOMAIN auctions
    <2>1. auctions' = auctions
      BY <1>2 DEF UpdatePendingAuctions
    <2> QED
      BY <2>1, BidStands
  <1> QED
    BY <1>1, <1>2

-----------------------------------------------------------------------------
(* The theorems.                                                             *)

LEMMA HandlersStep ==
  ASSUME IInv, NEW p \in Players, Handlers(p)
  PROVE  IInv'
  <1>1. CASE HandleAuctionSellItem(p)
    <2>1. PICK start \in StartBids, buyout \in Buyouts :
            \/ \E g \in Guids : SellStack(p, g, start, buyout)
            \/ \E use \in Uses(p) : SellParts(p, use, start, buyout)
      BY <1>1 DEF HandleAuctionSellItem
    <2>2. ASSUME NEW g \in Guids, SellStack(p, g, start, buyout)
          PROVE  IInv'
      BY <2>2, SellStackStep
    <2>3. ASSUME NEW use \in Uses(p), SellParts(p, use, start, buyout)
          PROVE  IInv'
      BY <2>3, SellPartsStep
    <2> QED
      BY <2>1, <2>2, <2>3
  <1>2. CASE HandleAuctionPlaceBid(p)
    <2>1. PICK a \in DOMAIN auctions, amount \in Bids :
            PlaceBid(p, a, amount) \/ Buyout(p, a, amount)
      BY <1>2 DEF HandleAuctionPlaceBid
    <2> QED
      BY <2>1, PlaceBidStep, BuyoutStep
  <1>3. CASE HandleAuctionRemoveItem(p)
    BY <1>3, RemoveItemStep DEF HandleAuctionRemoveItem
  <1>4. CASE HandleMail(p)
    BY <1>4, GetMailListStep, MailTakeMoneyStep, MailTakeItemStep DEF HandleMail
  <1>5. CASE Session(p)
    BY <1>5, LogoutPlayerStep, HandlePlayerLoginOpcodeStep, HandlePlayerLoginStep DEF Session
  <1> QED
    BY <1>1, <1>2, <1>3, <1>4, <1>5 DEF Handlers

LEMMA NextInv ==
  ASSUME IInv, [Next]_vars
  PROVE  IInv'
  <1>1. CASE Apply
    BY <1>1, ApplyStep
  <1>2. CASE House
    BY <1>2, ElapseStep, UpdateStep, UpdatePendingAuctionsStep DEF House
  <1>3. CASE Crash
    BY <1>3, CrashStep
  <1>4. CASE \E p \in Players : Handlers(p)
    BY <1>4, HandlersStep
  <1>5. CASE UNCHANGED vars
    <2>1. UNCHANGED checked
      BY <1>5 DEF vars, checked, pendingVars
    <2> QED
      BY <2>1, Unchanged
  <1> QED
    BY <1>1, <1>2, <1>3, <1>4, <1>5 DEF Next

LEMMA SellAdds ==
  ASSUME NEW p, HandleAuctionSellItem(p)
  PROVE  \E r : AddAuction(p, r)
  <1>1. PICK start \in StartBids, buyout \in Buyouts :
          \/ \E g \in Guids : SellStack(p, g, start, buyout)
          \/ \E use \in Uses(p) : SellParts(p, use, start, buyout)
    BY DEF HandleAuctionSellItem
  <1>2. ASSUME NEW g \in Guids, SellStack(p, g, start, buyout)
        PROVE  \E r : AddAuction(p, r)
    BY <1>2 DEF SellStack
  <1>3. ASSUME NEW use \in Uses(p), SellParts(p, use, start, buyout)
        PROVE  \E r : AddAuction(p, r)
    BY <1>3, Zenon DEF SellParts
  <1> QED
    BY <1>1, <1>2, <1>3

\* The handlers of mail and of sessions leave the auctions alone.
LEMMA AuctionsLeft ==
  ASSUME NEW p, HandleMail(p) \/ Session(p)
  PROVE  auctions' = auctions /\ crashes' = crashes
  <1>1. CASE GetMailList(p)
    BY <1>1 DEF GetMailList, houseVars, boundVars
  <1>2. ASSUME NEW m, Take(p, m)
        PROVE  auctions' = auctions /\ crashes' = crashes
    BY <1>2 DEF Take, houseVars, boundVars
  <1>3. ASSUME NEW m \in mails[p], MailTakeMoney(p, m) \/ MailTakeItem(p, m)
        PROVE  Take(p, m)
    <2>1. CASE MailTakeMoney(p, m)
      BY <2>1, Zenon DEF MailTakeMoney
    <2>2. CASE MailTakeItem(p, m)
      BY <2>2, Zenon DEF MailTakeItem
    <2> QED
      BY <1>3, <2>1, <2>2
  <1>4. CASE LogoutPlayer(p)
    BY <1>4, Zenon DEF LogoutPlayer, houseVars, boundVars
  <1>5. CASE HandlePlayerLoginOpcode(p)
    BY <1>5 DEF HandlePlayerLoginOpcode, houseVars, boundVars
  <1>6. CASE HandlePlayerLogin(p)
    BY <1>6 DEF HandlePlayerLogin, houseVars, boundVars
  <1> QED
    BY <1>1, <1>2, <1>3, <1>4, <1>5, <1>6 DEF HandleMail, Session

LEMMA HandlersAnswer ==
  ASSUME IInv, NEW p \in Players, Handlers(p), NEW a \in DOMAIN auctions
  PROVE  BidAnswered(a)
  <1>1. CASE HandleAuctionSellItem(p)
    <2>1. \E r : AddAuction(p, r)
      BY <1>1, SellAdds
    <2> QED
      BY <2>1, AddAuctionStands
  <1>2. CASE HandleAuctionPlaceBid(p)
    BY <1>2, PlaceBidAnswers, BuyoutAnswers DEF HandleAuctionPlaceBid
  <1>3. CASE HandleAuctionRemoveItem(p)
    BY <1>3, RemoveItemAnswers DEF HandleAuctionRemoveItem
  <1>4. CASE HandleMail(p) \/ Session(p)
    <2>1. auctions' = auctions
      BY <1>4, AuctionsLeft
    <2> QED
      BY <2>1, BidStands
  <1> QED
    BY <1>1, <1>2, <1>3, <1>4 DEF Handlers

LEMMA NextAnswers ==
  ASSUME IInv, crashes \in Nat, [Next]_vars, crashes' = crashes, NEW a \in DOMAIN auctions
  PROVE  BidAnswered(a)
  <1>1. CASE Apply \/ (\E b \in DOMAIN auctions : Elapse(b)) \/ UNCHANGED vars
    <2>1. auctions' = auctions
      BY <1>1 DEF Apply, Elapse, vars, houseVars
    <2> QED
      BY <2>1, BidStands
  <1>2. CASE Update \/ UpdatePendingAuctions
    BY <1>2, UpdateAnswers, UpdatePendingAuctionsStands
  <1>3. CASE Crash
    BY <1>3 DEF Crash
  <1>4. CASE \E p \in Players : Handlers(p)
    BY <1>4, HandlersAnswer
  <1> QED
    BY <1>1, <1>2, <1>3, <1>4 DEF Next, House

LEMMA CrashesCounted ==
  ASSUME crashes \in Nat, [Next]_vars
  PROVE  crashes' \in Nat
  <1>1. CASE Crash
    BY <1>1 DEF Crash
  <1>2. CASE Apply \/ House \/ UNCHANGED vars
    BY <1>2 DEF Apply, House, Elapse, Update, UpdatePendingAuctions, vars, boundVars
  <1>3. ASSUME NEW p \in Players, Handlers(p)
        PROVE  crashes' = crashes
    <2>1. CASE HandleAuctionSellItem(p)
      BY <2>1, SellAdds DEF AddAuction, boundVars
    <2>2. CASE HandleAuctionPlaceBid(p) \/ HandleAuctionRemoveItem(p)
      <3>1. ASSUME NEW a, NEW amount, PlaceBid(p, a, amount)
            PROVE  crashes' = crashes
        BY <3>1, Zenon DEF PlaceBid, boundVars
      <3>2. ASSUME NEW a, NEW amount, Buyout(p, a, amount)
            PROVE  crashes' = crashes
        BY <3>2, Zenon DEF Buyout, boundVars
      <3>3. ASSUME NEW a, RemoveItem(p, a)
            PROVE  crashes' = crashes
        BY <3>3, Zenon DEF RemoveItem, boundVars
      <3> QED
        BY <2>2, <3>1, <3>2, <3>3 DEF HandleAuctionPlaceBid, HandleAuctionRemoveItem
    <2>3. CASE HandleMail(p) \/ Session(p)
      BY <2>3, AuctionsLeft
    <2> QED
      BY <1>3, <2>1, <2>2, <2>3 DEF Handlers
  <1> QED
    BY <1>1, <1>2, <1>3 DEF Next

\* A state of the database in the log.
LEMMA InLog ==
  ASSUME IInv, NEW d \in Range(log)
  PROVE  Sound(d, lastId)
  <1>1. PICK i \in DOMAIN log : d = log[i]
    BY DEF Range
  <1>2. i \in 1..Len(log)
    BY <1>1 DEF IInv, TypeCorrect
  <1> QED
    BY <1>1, <1>2 DEF IInv, LogSound

\* The number of elements of a set with at most one.
LEMMA AtMostOne ==
  ASSUME NEW S, \A x, y \in S : x = y
  PROVE  Cardinality(S) = IF S = {} THEN 0 ELSE 1
  <1>1. CASE S = {}
    BY <1>1, FS_EmptySet
  <1>2. CASE S # {}
    <2>1. PICK x \in S : TRUE
      BY <1>2
    <2>2. S = {x}
      BY <2>1
    <2>3. Cardinality({x}) = 1
      BY FS_Singleton
    <2> QED
      BY <1>2, <2>2, <2>3
  <1> QED
    BY <1>1, <1>2

LEMMA OnePlace ==
  ASSUME NEW n, NEW d, Sound(d, n), NEW g \in Guids
  PROVE  Places(d, g) = IF d.count[g] > 0 THEN 1 ELSE 0
  <1>1. PlacesApart(d) /\ g # None
    BY ConstantsAssumption DEF Sound
  <1>A. PICK A : A = {a \in DOMAIN d.auctions : d.auctions[a].item = g}
    OBVIOUS
  <1>M. PICK M : M = {m \in d.mails : m.item = g}
    OBVIOUS
  <1>2. Cardinality(A) = IF A = {} THEN 0 ELSE 1
    <2>1. \A a, b \in A : a = b
      BY <1>1, <1>A DEF PlacesApart
    <2> QED
      BY <2>1, AtMostOne
  <1>3. Cardinality(M) = IF M = {} THEN 0 ELSE 1
    <2>1. \A m, k \in M : m = k
      BY <1>1, <1>M DEF PlacesApart
    <2> QED
      BY <2>1, AtMostOne
  <1>4. A # {} <=> InAuction(d, g)
    BY <1>A DEF InAuction
  <1>5. M # {} <=> InMail(d, g)
    BY <1>M DEF InMail
  <1>6. /\ ~ (InAuction(d, g) /\ InMail(d, g))
        /\ InAuction(d, g) \/ InMail(d, g) => d.inventory[g] = None
        /\ d.count[g] > 0 <=> d.inventory[g] # None \/ InAuction(d, g) \/ InMail(d, g)
    BY <1>1 DEF PlacesApart, InAuction, InMail
  <1>7. Places(d, g) = (IF d.inventory[g] = None THEN 0 ELSE 1) + Cardinality(A) + Cardinality(M)
    BY <1>A, <1>M DEF Places
  <1> QED
    BY <1>2, <1>3, <1>4, <1>5, <1>6, <1>7

\* The states the database goes through are sound, memory agrees with the last
\* of them, and what a player who logs in or opens his mailbox is about to read
\* is not going to change: the inductive invariant of the handlers, of Update,
\* of UpdatePendingAuctions, of the database worker and of a crash.
THEOREM Invariance == Spec => []IInv
  <1>1. Init => IInv
    BY InitInv
  <1>2. IInv /\ [Next]_vars => IInv'
    BY NextInv
  <1> QED
    BY <1>1, <1>2, PTL DEF Spec

\* Memory and the database have their types, the log is never empty, and only
\* players in the world have their mails loaded.
THEOREM TypeCorrectness == Spec => []TypeCorrect
  <1>1. IInv => TypeCorrect
    BY DEF IInv
  <1> QED
    BY <1>1, Invariance, PTL

\* What is in memory is what a restart would load once the queue is written:
\* every handler changes memory and commits the same change.
THEOREM SavedHolds == Spec => []Saved
  <1>1. IInv => Saved
    BY DEF IInv
  <1> QED
    BY <1>1, Invariance, PTL

\* No gold is made or lost, whatever is bid, bought, cancelled, sold, mailed and
\* taken, in any order, and wherever a crash cuts the queue.
THEOREM GoldConservedHolds == Spec => []GoldConserved
  <1>1. ASSUME IInv, NEW d \in Range(log)
        PROVE  Total(d.money) + Total([m \in d.mails |-> m.money])
                 + Total([a \in DOMAIN d.auctions |-> d.auctions[a].bid]) + d.house
               = Total(InitialMoney)
    <2>1. d \in Databases(lastId) /\ GoldSound(d)
      BY <1>1, InLog DEF Sound
    <2>2. Total(d.money) = SumOver(d.money, Players)
      BY <2>1, TotalIsSum DEF Databases
    <2>3. Total([m \in d.mails |-> m.money]) = MailGold(d.mails)
      BY TotalIsSum DEF MailGold
    <2>4. Total([a \in DOMAIN d.auctions |-> d.auctions[a].bid]) = BidGold(d.auctions)
      BY TotalIsSum DEF BidGold
    <2> QED
      BY <2>1, <2>2, <2>3, <2>4 DEF GoldSound, Gold
  <1>2. IInv => GoldConserved
    BY <1>1, Zenon DEF GoldConserved
  <1> QED
    BY <1>2, Invariance, PTL

\* An item that exists is in one inventory, one auction or one mail, and units
\* are never doubled, wherever a crash cuts the queue.
THEOREM ItemsInOnePlaceHolds == Spec => []ItemsInOnePlace
  <1>1. ASSUME IInv, NEW d \in Range(log)
        PROVE  /\ \A g \in Guids : Places(d, g) = IF d.count[g] > 0 THEN 1 ELSE 0
               /\ Total(d.count) <= Total(InitialCount)
    <2>1. Sound(d, lastId) /\ d \in Databases(lastId)
      BY <1>1, InLog DEF Sound
    <2>2. Total(d.count) = SumOver(d.count, Guids)
      BY <2>1, TotalIsSum DEF Databases
    <2>3. \A g \in Guids : Places(d, g) = IF d.count[g] > 0 THEN 1 ELSE 0
      BY <2>1, OnePlace
    <2> QED
      BY <2>1, <2>2, <2>3 DEF Sound, UnitsSound
  <1>2. IInv => ItemsInOnePlace
    BY <1>1 DEF ItemsInOnePlace
  <1> QED
    BY <1>2, Invariance, PTL

\* A bid that stops to be the highest is answered in the same step by a mail
\* with the gold or with the item, which was not in the database before, unless
\* the step is a crash.
THEOREM BidReturnedHolds == Spec => BidReturned
  <1>1. Init => crashes \in Nat
    BY DEF Init
  <1>2. crashes \in Nat /\ [Next]_vars => (crashes \in Nat)'
    BY CrashesCounted
  <1>3. IInv /\ crashes \in Nat /\ [Next]_vars =>
          [crashes' = crashes => \A a \in DOMAIN auctions : BidAnswered(a)]_vars
    BY NextAnswers
  <1>4. BidReturned <=>
          [][crashes' = crashes => \A a \in DOMAIN auctions : BidAnswered(a)]_vars
    BY DEF BidReturned, BidAnswered
  <1> QED
    BY <1>1, <1>2, <1>3, <1>4, Invariance, PTL DEF Spec
=============================================================================
