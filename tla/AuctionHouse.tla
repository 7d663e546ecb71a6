---------------------------- MODULE AuctionHouse ----------------------------
(***************************************************************************)
(* The auction house: what AuctionHouseMgr and the handlers of a player's  *)
(* session do to gold and to items in memory, the transactions they hand   *)
(* to the database, and the mail through which both come back.             *)
(*                                                                         *)
(* log is the character database: log[1] is what has been written, every   *)
(* later entry the state after one more transaction that the server has    *)
(* committed and that still waits in the queue.  That transactions are     *)
(* applied whole and in order is what DatabasePool's ImplementsJournal     *)
(* shows of the layer below.  A crash keeps log[1] and nothing else.       *)
(*                                                                         *)
(* All items are stacks of one kind, any number of which fits one stack.   *)
(* Every player has an account of his own.  A mail is what is left to take *)
(* from it: one from which everything is taken is not listed.              *)
(***************************************************************************)
EXTENDS Integers, Sequences, FiniteSets, FiniteSetsExt, SequencesExt

CONSTANTS
  Players,
  Guids,          \* item guids
  InitialMoney,   \* [Players -> Nat]
  InitialCount,   \* [Guids -> Nat], zero for a guid that is not used yet
  Holder,         \* the player who has the items at the start
  None,           \* no player, no item
  Roaming,        \* the players who log out and in
  StartBids,      \* least bids asked for
  Bids,           \* amounts offered
  Buyouts,        \* buyout prices asked for; zero is none
  UnitDeposit,    \* deposit for one unit
  CutRate,        \* percentage of the price the house keeps
  MaxEvents,      \* bound: auctions created and crashes, together
  MaxLag          \* bound: transactions queued

ASSUME ConstantsAssumption ==
  /\ IsFiniteSet(Players) /\ IsFiniteSet(Guids)
  /\ InitialMoney \in [Players -> Nat]
  /\ InitialCount \in [Guids -> Nat]
  /\ Holder \in Players
  /\ None \notin Players \cup Guids \cup Nat
  /\ Roaming \subseteq Players
  /\ StartBids \cup Bids \subseteq Nat \ {0}
  /\ Buyouts \subseteq Nat
  /\ {UnitDeposit, CutRate, MaxEvents, MaxLag} \subseteq Nat

VARIABLES
  \* memory
  online,     \* players in the world
  loading,    \* per player: transactions ahead of his login query, or None
  money,      \* Player::GetMoney
  bag,        \* the player whose inventory an item is in
  count,      \* Item::GetCount of the items in bags and in auctions
  auctions,   \* AuctionsMap, from auction id to AuctionEntry
  aitems,     \* mAitems
  pending,    \* pendingAuctionMap: ids of a player's new auctions
  seen,       \* ... and how many of them the last pass saw
  loaded,     \* players with isMailsLoaded
  mails,      \* the mails of a loaded player
  \* database
  log,
  \* clock, history and bounds
  elapsed,    \* auctions of the database whose running time is over
  lastId,     \* the last auction id generated
  owed,       \* gold taken from a player's purse and not saved since
  undefined,  \* a deleted AuctionEntry has been used
  crashes

sessionVars == <<online, loading>>
itemVars == <<bag, count>>
houseVars == <<auctions, aitems>>
pendingVars == <<pending, seen>>
boundVars == <<undefined, crashes>>
vars == <<sessionVars, money, itemVars, houseVars, pendingVars, loaded, mails,
          log, elapsed, lastId, owed, boundVars>>

\* The sum of the values of a function.
Total(f) == MapThenSumSet(LAMBDA x : f[x], DOMAIN f)

-----------------------------------------------------------------------------
(* The database: the gold of the characters, character_inventory, the stack *)
(* sizes of item_instance (zero where there is no row), auctionhouse and    *)
(* mail with its mail_items.  The history field house is the balance of the *)
(* house, cuts and deposits taken less deposits paid back, as far as the    *)
(* purses they came from are saved.                                         *)

Database == Last(log)

CommitAll(states) ==
  /\ Len(log) <= MaxLag
  /\ log' = log \o states

Commit(d) == CommitAll(<<d>>)

\* Player::SaveInventoryAndGoldToDB with purse in the purse of p, after fee
\* went from it to the house.
SaveGoldToDB(d, p, purse, fee) ==
  [d EXCEPT !.money[p] = purse, !.house = @ + owed[p] + fee]

\* SendMailTo: a row in the transaction, and the mail itself where the
\* receiver's mails are loaded.
SendMailTo(sent) ==
  mails' = [p \in Players |->
              mails[p] \cup {m \in sent : m.to = p /\ p \in loaded}]

Mail(to, a, gold, item) == [to |-> to, auction |-> a, money |-> gold, item |-> item]

-----------------------------------------------------------------------------
(* AuctionEntry and its mails.                                              *)

GetAuctionCut(r) == (r.bid * CutRate) \div 100

GetAuctionOutBid(r) == Max({(r.bid * 5) \div 100, 1})

GetAuctionDeposit(units) == UnitDeposit * units

Profit(r) == r.bid + r.deposit - GetAuctionCut(r)

SendAuctionSuccessfulMail(a, r) == {Mail(r.owner, a, Profit(r), None)}

SendAuctionWonMail(a, r) == {Mail(r.bidder, a, 0, g) : g \in aitems \cap {r.item}}

SendAuctionExpiredMail(a, r) == {Mail(r.owner, a, 0, g) : g \in aitems \cap {r.item}}

SendAuctionOutbiddedMail(a, r) == {Mail(r.bidder, a, r.bid, None)}

SendAuctionCancelledToBidderMail(a, r) == {Mail(r.bidder, a, r.bid, None)}

\* What the house gains when the auction is sold.
Earned(r) == GetAuctionCut(r) - r.deposit

\* A new entry in AuctionsMap or in auctionhouse.
WithAuction(A, a, r) == [x \in DOMAIN A \cup {a} |-> IF x = a THEN r ELSE A[x]]

\* The entries of A leave AuctionsMap and mAitems.
RemoveAuctions(A) ==
  LET gone == {auctions[a].item : a \in A} IN
  /\ auctions' = Restrict(auctions, DOMAIN auctions \ A)
  /\ aitems' = aitems \ gone
  /\ count' = [g \in Guids |-> IF g \in gone THEN 0 ELSE count[g]]

\* ... and auctionhouse, with the mails that tell of it.
DeleteFromDB(d, A, sent) ==
  [d EXCEPT !.auctions = Restrict(@, DOMAIN @ \ A), !.mails = @ \cup sent]

-----------------------------------------------------------------------------
Init ==
  /\ online = Players
  /\ loading = [p \in Players |-> None]
  /\ money = InitialMoney
  /\ count = InitialCount
  /\ bag = [g \in Guids |-> IF count[g] > 0 THEN Holder ELSE None]
  /\ auctions = <<>>
  /\ aitems = {}
  /\ pending = [p \in Players |-> <<>>]
  /\ seen = [p \in Players |-> 0]
  /\ loaded = {}
  /\ mails = [p \in Players |-> {}]
  /\ log = <<[money |-> money, inventory |-> bag, count |-> count,
              auctions |-> <<>>, mails |-> {}, house |-> 0]>>
  /\ elapsed = {}
  /\ lastId = 0
  /\ owed = [p \in Players |-> 0]
  /\ undefined = FALSE
  /\ crashes = 0

-----------------------------------------------------------------------------
(* HandleAuctionSellItem.  use says how many units of which stacks are for  *)
(* sale: one whole stack is moved to the auction house, anything else is    *)
(* cloned into a new item.                                                  *)

Entry(p, g, units, start, buyout) ==
  [item |-> g, count |-> units, owner |-> p, startbid |-> start,
   buyout |-> buyout, bid |-> 0, bidder |-> None,
   deposit |-> GetAuctionDeposit(units), now |-> FALSE]

\* AddAItem, AddAuction and PendingAuctionAdd.
AddAuction(p, r) ==
  /\ lastId + crashes < MaxEvents
  /\ lastId' = lastId + 1
  /\ money[p] >= r.deposit
  /\ aitems' = aitems \cup {r.item}
  /\ auctions' = WithAuction(auctions, lastId + 1, r)
  /\ pending' = [pending EXCEPT ![p] = Append(@, lastId + 1)]
  /\ owed' = [owed EXCEPT ![p] = 0]
  /\ UNCHANGED <<sessionVars, money, seen, loaded, mails, elapsed, boundVars>>

SellStack(p, g, start, buyout) ==
  LET r == Entry(p, g, count[g], start, buyout) IN
  /\ p \in online
  /\ bag[g] = p
  /\ AddAuction(p, r)
  /\ bag' = [bag EXCEPT ![g] = None]
  /\ Commit([SaveGoldToDB(Database, p, money[p], 0) EXCEPT
               !.inventory[g] = None,
               !.auctions = WithAuction(@, lastId + 1, r)])
  /\ UNCHANGED count

\* The stacks of T are reduced: a transaction for each.
Reduced(d, use, T) ==
  [d EXCEPT
     !.count = [g \in Guids |-> IF g \in T THEN @[g] - use[g] ELSE @[g]],
     !.inventory = [g \in Guids |-> IF g \in T /\ d.count[g] = use[g]
                                    THEN None ELSE @[g]]]

\* Mutant of PartsTransactions: the new item and its auction are written first.
PartsNewFirst(p, use, g, r) ==
  LET first == [SaveGoldToDB(Database, p, money[p], 0) EXCEPT
                  !.count[g] = r.count, !.auctions = WithAuction(@, lastId + 1, r)] IN
  <<first, Reduced(first, use, DOMAIN use)>>

\* Each stack is written on its own, the new item and its auction last.
PartsTransactions(p, use, g, r) ==
  LET order == SetToSeq(DOMAIN use)
      firsts(i) == {order[j] : j \in 1..i} IN
  [i \in 1..Len(order) |-> Reduced(Database, use, firsts(i))]
    \o <<[SaveGoldToDB(Reduced(Database, use, DOMAIN use), p, money[p], 0) EXCEPT
            !.count[g] = r.count, !.auctions = WithAuction(@, lastId + 1, r)]>>

SellParts(p, use, start, buyout) ==
  LET units == Total(use)
      fresh == {g \in Guids : \A d \in Range(log) : d.count[g] = 0}
      g == CHOOSE x \in fresh : TRUE
      r == Entry(p, g, units, start, buyout) IN
  /\ p \in online
  /\ \A x \in DOMAIN use : bag[x] = p /\ use[x] \in 1..count[x]
  /\ ~ \E x \in Guids : DOMAIN use = {x} /\ use[x] = count[x]
  /\ fresh # {}
  /\ AddAuction(p, r)
  /\ bag' = [x \in Guids |-> IF x \in DOMAIN use /\ use[x] = count[x]
                             THEN None ELSE bag[x]]
  /\ count' = [x \in Guids |-> CASE x = g -> units
                                 [] x \in DOMAIN use -> count[x] - use[x]
                                 [] OTHER -> count[x]]
  /\ CommitAll(PartsTransactions(p, use, g, r))

-----------------------------------------------------------------------------
(* HandleAuctionPlaceBid and HandleAuctionRemoveItem.                       *)

IsBuyout(r, amount) == r.buyout # 0 /\ amount >= r.buyout

MayBid(p, r, amount) ==
  /\ p \in online
  /\ r.owner # p
  /\ amount > r.bid
  /\ amount >= r.startbid
  /\ IsBuyout(r, amount) \/ amount >= r.bid + GetAuctionOutBid(r)
  /\ money[p] >= amount

\* Mutant of Owes: who raises his own bid pays the whole price.
OwesAll(p, r, price) == price

\* What p has to add to reach the price.
Owes(p, r, price) == IF r.bidder = p THEN price - r.bid ELSE price

\* Mutant of Refund: the overbid bidder is not thought of.
RefundNobody(p, a, r) == {}

\* The bidder who loses the auction to p, if any, has his bid mailed back.
Refund(p, a, r) ==
  IF r.bidder \in {None, p} THEN {} ELSE SendAuctionOutbiddedMail(a, r)

Pay(p, amount) ==
  /\ money' = [money EXCEPT ![p] = @ - amount]
  /\ owed' = [owed EXCEPT ![p] = 0]

\* Mutant of BidTransaction: the bidder's gold is left to his next save.
BidTransactionWithoutGold(p, a, r, amount) ==
  [Database EXCEPT !.auctions[a].bidder = p,
                   !.auctions[a].bid = amount,
                   !.mails = @ \cup Refund(p, a, r)]

\* SaveInventoryAndGoldToDB is part of the transaction that takes the bid.
BidTransaction(p, a, r, amount) ==
  [SaveGoldToDB(Database, p, money[p] - Owes(p, r, amount), 0) EXCEPT
     !.auctions[a].bidder = p,
     !.auctions[a].bid = amount,
     !.mails = @ \cup Refund(p, a, r)]

PlaceBid(p, a, amount) ==
  LET r == auctions[a] IN
  /\ MayBid(p, r, amount)
  /\ ~IsBuyout(r, amount)
  /\ Pay(p, Owes(p, r, amount))
  /\ auctions' = [auctions EXCEPT ![a].bidder = p, ![a].bid = amount]
  /\ SendMailTo(Refund(p, a, r))
  /\ Commit(BidTransaction(p, a, r, amount))
  /\ UNCHANGED <<sessionVars, itemVars, aitems, pendingVars, loaded, elapsed,
                 lastId, boundVars>>

Buyout(p, a, amount) ==
  LET r == auctions[a]
      sold == [r EXCEPT !.bidder = p, !.bid = r.buyout]
      sent == Refund(p, a, r) \cup SendAuctionSuccessfulMail(a, sold)
                \cup SendAuctionWonMail(a, sold)
      saved == SaveGoldToDB(Database, p, money[p] - Owes(p, r, r.buyout),
                            Earned(sold)) IN
  /\ MayBid(p, r, amount)
  /\ IsBuyout(r, amount)
  /\ Pay(p, Owes(p, r, r.buyout))
  /\ SendMailTo(sent)
  /\ RemoveAuctions({a})
  /\ Commit(DeleteFromDB(saved, {a}, sent))
  /\ UNCHANGED <<sessionVars, bag, pendingVars, loaded, elapsed, lastId,
                 boundVars>>

\* The owner who takes his auction back pays the cut of a bid it has.
RemoveItem(p, a) ==
  LET r == auctions[a]
      cut == IF r.bidder = None THEN 0 ELSE GetAuctionCut(r)
      sent == {Mail(p, a, 0, r.item)}
                \cup (IF r.bidder = None THEN {}
                      ELSE SendAuctionCancelledToBidderMail(a, r)) IN
  /\ p \in online
  /\ r.owner = p
  /\ r.item \in aitems
  /\ money[p] >= cut
  /\ Pay(p, cut)
  /\ SendMailTo(sent)
  /\ RemoveAuctions({a})
  /\ Commit(DeleteFromDB(SaveGoldToDB(Database, p, money[p] - cut, cut), {a}, sent))
  /\ UNCHANGED <<sessionVars, bag, pendingVars, loaded, elapsed, lastId,
                 boundVars>>

-----------------------------------------------------------------------------
(* AuctionHouseObject::Update: what has run out is sold or sent back, in    *)
(* one transaction.                                                         *)

Expired == {a \in DOMAIN auctions : auctions[a].now \/ a \in elapsed}

Closing(a, r) ==
  IF r.bidder = None /\ r.bid = 0
  THEN SendAuctionExpiredMail(a, r)
  ELSE SendAuctionSuccessfulMail(a, r) \cup SendAuctionWonMail(a, r)

Update ==
  LET sold == {a \in Expired : auctions[a].bidder # None}
      sent == UNION {Closing(a, auctions[a]) : a \in Expired} IN
  /\ Expired # {}
  /\ SendMailTo(sent)
  /\ RemoveAuctions(Expired)
  /\ Commit([DeleteFromDB(Database, Expired, sent) EXCEPT
               !.house = @ + Total([a \in sold |-> Earned(auctions[a])])])
  /\ UNCHANGED <<sessionVars, money, bag, pendingVars, loaded, elapsed, lastId,
                 owed, boundVars>>

\* Hours pass.  A deposit is settled half a second after the last sale, so an
\* auction does not run out with its deposit pending.
Elapse(a) ==
  /\ a \in DOMAIN auctions \ elapsed
  /\ \A p \in Players : a \notin Range(pending[p])
  /\ elapsed' = elapsed \cup {a}
  /\ UNCHANGED <<sessionVars, money, itemVars, houseVars, pendingVars, loaded,
                 mails, log, lastId, owed, boundVars>>

-----------------------------------------------------------------------------
(* UpdatePendingAuctions.  A player who sold nothing since the last pass is *)
(* charged one deposit for all his new auctions; those of a player who left *)
(* run out at once.  The entries are used through pointers, and nothing     *)
(* takes a deleted entry out of the list: after that nothing is known.      *)

Unsettled == {p \in Players : pending[p] # <<>>}
Left == Unsettled \ online

\* Mutant of Quiet: the comparison never holds.
NeverQuiet(p) == Len(pending[p]) < seen[p]

Quiet(p) == Len(pending[p]) = seen[p]
Charged == {p \in Unsettled \cap online : Quiet(p)}

TotalDeposit(p) ==
  GetAuctionDeposit(Total([i \in DOMAIN pending[p] |-> auctions[pending[p][i]].count]))

\* An equal share for each, the remainder for the last.
Share(p, i) ==
  LET n == Len(pending[p])
      share == TotalDeposit(p) \div n IN
  IF i = n THEN TotalDeposit(p) - (n - 1) * share ELSE share

ShareOf(p, a) == Share(p, CHOOSE i \in DOMAIN pending[p] : pending[p][i] = a)

Settled(a) ==
  LET r == auctions[a] IN
  CASE a \in UNION {Range(pending[p]) : p \in Charged} ->
         [r EXCEPT !.deposit = ShareOf(r.owner, a)]
    [] a \in UNION {Range(pending[p]) : p \in Left} -> [r EXCEPT !.now = TRUE]
    [] OTHER -> r

\* ModifyMoney takes what there is.
Taken(p) == Min({money[p], TotalDeposit(p)})

\* A transaction for each player; the purse is not saved with it.
SettleTransactions ==
  LET order == SetToSeq(Charged \cup Left)
      upTo(i) == UNION {Range(pending[order[j]]) : j \in 1..i} IN
  [i \in 1..Len(order) |->
     [Database EXCEPT !.auctions = [a \in DOMAIN @ |->
        IF a \in upTo(i) THEN Settled(a) ELSE @[a]]]]

Settle ==
  /\ auctions' = [a \in DOMAIN auctions |-> Settled(a)]
  /\ money' = [p \in Players |->
                 IF p \in Charged THEN money[p] - Taken(p) ELSE money[p]]
  /\ owed' = [p \in Players |->
                IF p \in Charged THEN owed[p] + Taken(p) ELSE owed[p]]
  /\ pending' = [p \in Players |->
                   IF p \in Charged \cup Left THEN <<>> ELSE pending[p]]
  /\ seen' = [p \in Players |->
                IF p \in Charged \cup Left THEN 0 ELSE Len(pending[p])]
  /\ CommitAll(SettleTransactions)
  /\ UNCHANGED undefined

UpdatePendingAuctions ==
  /\ Unsettled # {}
  /\ IF \A p \in Charged \cup Left : Range(pending[p]) \subseteq DOMAIN auctions
     THEN Settle
     ELSE /\ undefined' = TRUE
          /\ UNCHANGED <<auctions, money, owed, pendingVars, log>>
  /\ UNCHANGED <<sessionVars, itemVars, aitems, loaded, mails, elapsed, lastId,
                 crashes>>

-----------------------------------------------------------------------------
(* Mail.  The list is read on the world thread's own connection, past the   *)
(* transactions that are still queued.  The time until a mail is delivered  *)
(* passes between any two steps.                                            *)

GetMailList(p) ==
  /\ p \in online \ loaded
  /\ loaded' = loaded \cup {p}
  /\ mails' = [mails EXCEPT ![p] = {m \in log[1].mails : m.to = p}]
  /\ UNCHANGED <<sessionVars, money, itemVars, houseVars, pendingVars, log,
                 elapsed, lastId, owed, boundVars>>

Take(p, m) ==
  /\ m.to = p
  /\ mails' = [mails EXCEPT ![p] = @ \ {m}]
  /\ owed' = [owed EXCEPT ![p] = 0]
  /\ UNCHANGED <<sessionVars, houseVars, pendingVars, loaded, elapsed, lastId,
                 boundVars>>

MailTakeMoney(p, m) ==
  /\ m.money > 0
  /\ Take(p, m)
  /\ money' = [money EXCEPT ![p] = @ + m.money]
  /\ Commit([SaveGoldToDB(Database, p, money[p] + m.money, 0) EXCEPT
               !.mails = @ \ {m}])
  /\ UNCHANGED itemVars

\* MoveItemToInventory puts the item on a stack of the bag, if there is one.
Stacks(p, g) ==
  LET held == {x \in Guids : bag[x] = p} IN IF held = {} THEN {g} ELSE held

Stored(counts, g, x, units) ==
  [y \in Guids |-> IF y = x THEN (IF x = g THEN 0 ELSE counts[x]) + units
                   ELSE IF y = g THEN 0 ELSE counts[y]]

MailTakeItem(p, m) ==
  /\ m.item # None
  /\ Take(p, m)
  /\ \E x \in Stacks(p, m.item) :
       LET units == Database.count[m.item] IN
       /\ bag' = [bag EXCEPT ![x] = p]
       /\ count' = Stored(count, m.item, x, units)
       /\ Commit([SaveGoldToDB(Database, p, money[p], 0) EXCEPT
                    !.mails = @ \ {m},
                    !.inventory[x] = p,
                    !.count = Stored(@, m.item, x, units)])
  /\ UNCHANGED money

-----------------------------------------------------------------------------
(* Sessions, the database worker and the server process.                    *)

Forget(P) ==
  /\ money' = [p \in Players |-> IF p \in P THEN 0 ELSE money[p]]
  /\ owed' = [p \in Players |-> IF p \in P THEN 0 ELSE owed[p]]
  /\ bag' = [g \in Guids |-> IF bag[g] \in P THEN None ELSE bag[g]]
  /\ loaded' = loaded \ P
  /\ mails' = [p \in Players |-> IF p \in P THEN {} ELSE mails[p]]

\* LogoutPlayer saves the player and deletes him.
LogoutPlayer(p) ==
  /\ p \in online \cap Roaming
  /\ online' = online \ {p}
  /\ Forget({p})
  /\ count' = [g \in Guids |-> IF bag[g] = p THEN 0 ELSE count[g]]
  /\ Commit(SaveGoldToDB(Database, p, money[p], 0))
  /\ UNCHANGED <<loading, houseVars, pendingVars, elapsed, lastId, boundVars>>

\* The queries of a login wait behind the transactions queued before them.
HandlePlayerLoginOpcode(p) ==
  /\ p \notin online
  /\ loading[p] = None
  /\ loading' = [loading EXCEPT ![p] = Len(log) - 1]
  /\ UNCHANGED <<online, money, itemVars, houseVars, pendingVars, loaded, mails,
                 log, elapsed, lastId, owed, boundVars>>

\* LoadFromDB, from the answers to those queries.
HandlePlayerLogin(p) ==
  LET has(g) == log[1].inventory[g] = p IN
  /\ loading[p] = 0
  /\ loading' = [loading EXCEPT ![p] = None]
  /\ online' = online \cup {p}
  /\ money' = [money EXCEPT ![p] = log[1].money[p]]
  /\ bag' = [g \in Guids |-> IF has(g) THEN p ELSE bag[g]]
  /\ count' = [g \in Guids |-> IF has(g) THEN log[1].count[g] ELSE count[g]]
  /\ UNCHANGED <<houseVars, pendingVars, loaded, mails, log, elapsed, lastId,
                 owed, boundVars>>

\* The worker thread applies the next transaction.
Apply ==
  /\ Len(log) > 1
  /\ log' = Tail(log)
  /\ loading' = [p \in Players |-> IF loading[p] \in {None, 0} THEN loading[p]
                                   ELSE loading[p] - 1]
  /\ elapsed' = elapsed \cap UNION {DOMAIN d.auctions : d \in Range(Tail(log))}
  /\ UNCHANGED <<online, money, itemVars, houseVars, pendingVars, loaded, mails,
                 lastId, owed, boundVars>>

\* The process ends and starts again: LoadAuctions and LoadAuctionItems take
\* every auction whose item exists.
Crash ==
  LET d == log[1]
      ids == {a \in DOMAIN d.auctions : d.count[d.auctions[a].item] > 0} IN
  /\ lastId + crashes < MaxEvents
  /\ crashes' = crashes + 1
  /\ log' = <<d>>
  /\ online' = {}
  /\ loading' = [p \in Players |-> None]
  /\ Forget(Players)
  /\ auctions' = Restrict(d.auctions, ids)
  /\ aitems' = {d.auctions[a].item : a \in ids}
  /\ count' = [g \in Guids |-> IF g \in aitems' THEN d.count[g] ELSE 0]
  /\ pending' = [p \in Players |-> <<>>]
  /\ seen' = [p \in Players |-> 0]
  /\ UNCHANGED <<elapsed, lastId, undefined>>

-----------------------------------------------------------------------------
Uses(p) == UNION {[S -> 1..Max({count[g] : g \in Guids})] :
                    S \in (SUBSET {g \in Guids : bag[g] = p}) \ {{}}}

HandleAuctionSellItem(p) ==
  \E start \in StartBids, buyout \in Buyouts :
    \/ \E g \in Guids : SellStack(p, g, start, buyout)
    \/ \E use \in Uses(p) : SellParts(p, use, start, buyout)

HandleAuctionPlaceBid(p) ==
  \E a \in DOMAIN auctions, amount \in Bids :
    PlaceBid(p, a, amount) \/ Buyout(p, a, amount)

HandleAuctionRemoveItem(p) == \E a \in DOMAIN auctions : RemoveItem(p, a)

HandleMail(p) ==
  \/ GetMailList(p)
  \/ \E m \in mails[p] : MailTakeMoney(p, m) \/ MailTakeItem(p, m)

Session(p) ==
  LogoutPlayer(p) \/ HandlePlayerLoginOpcode(p) \/ HandlePlayerLogin(p)

Handlers(p) ==
  \/ HandleAuctionSellItem(p)
  \/ HandleAuctionPlaceBid(p)
  \/ HandleAuctionRemoveItem(p)
  \/ HandleMail(p)
  \/ Session(p)

\* What happens without the players.
House ==
  \/ \E a \in DOMAIN auctions : Elapse(a)
  \/ Update
  \/ UpdatePendingAuctions

Next ==
  \/ ~undefined /\ (Apply \/ House \/ Crash \/ \E p \in Players : Handlers(p))
  \/ undefined /\ UNCHANGED vars

Spec == Init /\ [][Next]_vars

\* The worker takes what is queued.  Time passes, and the world loop calls
\* Update and UpdatePendingAuctions by timers, whatever is queued: it is the
\* bound of the model that holds them up now and then, hence strong fairness.
\* Each of these steps has an end (auctions are few), so that fairness of any
\* of them is fairness of all.  Players may do nothing.
FairSpec == Spec /\ WF_vars(~undefined /\ Apply) /\ SF_vars(~undefined /\ House)

-----------------------------------------------------------------------------
(* Properties.                                                              *)

\* No gold is made or lost: in every state the database goes through, and so
\* after a crash at any point, the purses, the gold in mails, the standing
\* bids and the balance of the house add up to the gold there was at the
\* start (HandleAuctionPlaceBid, HandleAuctionRemoveItem, Update and the mail
\* handlers put all their changes into one transaction, and no mail is paid
\* out twice although the list is read past the queue).
GoldConserved ==
  \A d \in Range(log) :
    Total(d.money) + Total([m \in d.mails |-> m.money])
      + Total([a \in DOMAIN d.auctions |-> d.auctions[a].bid]) + d.house
    = Total(InitialMoney)

\* An item that exists is in one inventory, one auction or one mail, in every
\* state the database goes through, and there are never more units than at the
\* start (a sale of part of a stack writes the smaller stack first, so that a
\* crash between its transactions loses units but never doubles them).
Places(d, g) ==
  (IF d.inventory[g] = None THEN 0 ELSE 1)
    + Cardinality({a \in DOMAIN d.auctions : d.auctions[a].item = g})
    + Cardinality({m \in d.mails : m.item = g})

ItemsInOnePlace ==
  \A d \in Range(log) :
    /\ \A g \in Guids : Places(d, g) = IF d.count[g] > 0 THEN 1 ELSE 0
    /\ Total(d.count) <= Total(InitialCount)

\* What is in memory is what a restart would load once the queue is written:
\* the auctions and their items, and for every player in the world his
\* inventory and his purse, but for the deposits taken from it since it was
\* last saved.
Saved ==
  /\ auctions = Database.auctions
  /\ aitems = {auctions[a].item : a \in DOMAIN auctions}
  /\ \A g \in aitems : count[g] = Database.count[g]
  /\ \A p \in online :
       /\ money[p] + owed[p] = Database.money[p]
       /\ \A g \in Guids : bag[g] = p <=> Database.inventory[g] = p
       /\ \A g \in Guids : bag[g] = p => count[g] = Database.count[g]

\* A bid is never simply forgotten: when it stops to be the highest bid of an
\* auction, its bidder has been mailed the amount or the item.  Only a crash,
\* which takes back the bid as well as what followed, is left out.
BidReturned ==
  [][crashes' = crashes =>
       \A a \in DOMAIN auctions :
         LET r == auctions[a]
             stands == /\ a \in DOMAIN auctions'
                       /\ auctions'[a].bidder = r.bidder
             answer == {Mail(r.bidder, a, r.bid, None), Mail(r.bidder, a, 0, r.item)} IN
         r.bidder # None /\ ~stands =>
           (Database'.mails \ Database.mails) \cap answer # {}]_vars

\* Every auction ends, whoever bids, leaves or crashes meanwhile: its deposit
\* is settled by UpdatePendingAuctions, and Update finds it when it runs out.
AuctionEnds ==
  \A a \in 1..MaxEvents :
    a \in DOMAIN auctions ~> a \notin DOMAIN auctions \/ undefined
=============================================================================
