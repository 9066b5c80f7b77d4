# TLA+ models of the eosDapps casino contracts

This directory is the verification project of the repository: TLA+ modules that
model its contracts and the parts of the SDK they stand on, TLC configurations
that check them on small instances, and theorems about them that TLAPS proves
for every instance.

## 1. The system

The repository is a casino on EOSIO: one **house** contract that holds the bank,
and a dozen **game** contracts that take bets from players, pass every stake to
the house, and ask it to pay. No test accompanies the code and the README of the
repository is one line, so the source, its comments and its assertions are the
reference.

### 1.1 The platform the contracts run on

Everything below follows from how the code uses EOSIO, and is modelled once:

* **Atomic actions.** An action runs to its end or, when an `eosio_assert` fails
  in it or in an action it sends inline, leaves no trace. One action is one step
  of a model and its assertions are conjuncts of the guard.
* **Deferred transactions.** `make_payment` and `delayed_action`
  (`common/contracts.hpp:160-180`) send a deferred transaction under a *sender
  id*. Two pending ones of a contract cannot share an id: the second `send`
  fails and with it the action that sent it. A deferred transaction runs some
  time after its delay, in any order with the others, and may fail; no contract
  here handles `onerror`, so a failed one is lost. The pending ones of a
  contract are therefore a function from sender ids, never a queue.
* **Tables.** A `multi_index` table is a function from the keys present to rows.
  That the SDK's class, with its cache and its second copy of the keys, is no
  more than that is itself modelled and proved (`MultiIndex`).
* **Block time** advances between steps by any amount.

### 1.2 Components

| component | state | operations | interacts with | what makes it correct |
|---|---|---|---|---|
| `common/` tables, globals, deferred calls, dispatcher | table rows, counters | `table_upsert`, `increment_global(_mod)`, `delayed_action`, `make_payment`, `transfer_to_house`, `check_transfer` | used by every contract | counters give fresh ids, rings wrap, one pending deferred call per id, only a real transfer is a stake |
| memo reader (`common/param_reader`) | read position in a memo | `next_param`, `has_next`, `get_rest`, `get_referer` | every `transfer` | a parameter is read once, the referer is not the player |
| cards and odds (`common/cards`, the six games) | a deck, hands | `add_card`, ranking, `get_payout` | round based games | cards are distinct, hands rank by the rules, the odds of the bets the games name are not against the house (section 4.1 says which are shown) |
| **house** | games, token rows (limits, balances), player records, queued payments, random key | `addgame`, `updategame`, `setactive`, `setrandkey`, `updatetoken`, `cleartoken`, `transfer`, `pay`, `settleunpaid`, `setreferer`, `claimreward`, `openchest` | every game; `eosio.token` | money is conserved, what is owed is paid once, loyalty rewards are earned once |
| **round based games** (redblack, baccarat, cbaccarat, roulette, bullfight, quick3: macros of `common/round_based_contract.hpp`) | current round, bets, per-player totals, history and result rings, counters | `init`, `newround`, `transfer`, `reveal`, `hardclose`, `setglobal` | house (stake, pay), themselves (deferred `newround`) | every bet is settled once, in its own round; rounds follow each other |
| **blackjack** | one game per player, cards, pending action | `transfer`, `playeraction`, `resolve`, `hardclose`, `cleargames`, `setglobal`, `pay` | house, itself | one result and one payment per game, by the rules |
| **event** | events, bets, rates, limit | `init`, `setglobal`, `addevent`, `setactive`, `transfer`, `closeevent`, `resolve`, `payment` | itself; pays from its own account | winners and only winners are paid, once; totals are those of the bets |
| **dice** | active bets, history | `init`, `transfer`, `reveal`, `pay` | house, itself | each bet revealed and paid once |
| **slots** | one spin per player | `init`, `setglobal`, `transfer`, `reveal`, `pay` | house, itself | each spin paid once, no spin lost to the next |
| **scratch** | the card on the table, cards kept | `init`, `setglobal`, `transfer`, `play`, `reveal`, `claim` | house | a card is scratched and claimed once, none is lost |
| **centergame** | bets on games decided elsewhere | `init`, `setglobal`, `transfer`, `reveal`, `clear`, `pay` | house, itself | each bet settled once |
| faucet (`eosfaucet.cpp`) | who was served | `get` | its token | served once |
| SDK (`eosfaucet/eosiolib`) tables | cache, handles, next key | `multi_index`, `singleton` | every contract | a table is its rows |
| SDK memory and values | heaps, optionals, bytes | `malloc`, `realloc`, `free`, `optional`, streams, keys, fixed point, assets, names, times, `currency` | every contract | blocks are apart, an optional's objects are made and destroyed once, values come back, amounts are exact or abort |
| random numbers (`common/random.hpp`) | seed | `generator` | games | - (an oracle here) |
| SDK declarations of the platform | - | - | - | - (no code) |

### 1.3 Hard behaviours

* The bank's balance is an unsigned number written by five actions, with
  different tests before each.
* Payments cross two contracts and up to two deferred calls; a payment may be
  queued for the operator, dropped, settled, lost.
* Rounds are driven by time, by players, by the operator (`hardclose`) and by a
  deferred `newround` that may come late, twice, or not at all.
* Sender ids are player names, so a player can have only one pending payment
  per game: the second `reveal` while one is pending cannot be executed.
* Ring buffers, reused ids, day boundaries, bit masks.
* In the SDK: a cache beside the table it caches, markers inside the memory they
  describe, objects in raw storage, integers of every width.

`PROJECT.json` lists each hazard at its line, with the properties that watch it.

## 2. Plan

All of it is done.

1. **Tables** - table rows, global counters, rings (with lemmas).
2. **House** - the bank (type, books, debts, referers and points proved).
3. **Wager** - the abstract promise of every game to every bet: placed once,
   settled once, paid once or lost, never forgotten (proved consistent).
4. **RoundGame** - the round machine of six games (refinement of Wager, totals,
   limit and rings proved).
5. **Blackjack** (refinement, hands and payments proved).
6. **Event** (refinement, totals and limit proved).
7. **Dice** and **Slots** (refinements and odds proved).
8. **Scratch**: cards bought, kept, scratched and claimed (refinement, accounts and
   odds proved).
9. **CenterGame**: lists of bets settled together, and bets cleared (refinement proved).
10. **Casino**: House and Dice together, against **Ledger**: what the game
    decides is what the house sends and books, once or never (proved).
11. **Cards, Bullfight, RedBlack, Baccarat, Wheels**: drawing, ranking and odds
    (proved); **Memo** and **Dispatch** (proved).
12. The SDK: **MultiIndex** against **OrderedTable** (proved), **Optional** and
    **Currency** (proved), **Heap**, **Codec**, **FixedPoint**, **Assets**, **Names**,
    **Times**; and the faucet (proved). **Library** puts 11 and the proved parts of
    12 to use in one specification, the one the theorems are about.

What would come next: a heap whose joining of blocks is a fold instead of a recursive
operator, so that it can be proved about, and a composition of the house with two games
at a time.

## 3. The modules and the code

| module | code | state and actions |
|---|---|---|
| `Tables` | `common/tables.hpp`, `common/contracts.hpp:45-104` | a table is a function; `Put` is `table_upsert`, `NextGlobal` and `NextGlobalMod` are the two counters |
| `House` | `house/house.cpp` | one action per action of the contract; inline transfers are part of the step |
| `Wager` | none: abstract | bets of each player that are open, due, paid, lost; with its theorems |
| `RoundGame` | `common/round_based_contract.hpp`, `make_payment`, `delayed_action` | the game row, counters, bets, totals, two rings, pending deferred calls |
| `Blackjack` | `blackjack/blackjack.cpp` | games, waiting actions, counters, results, pending deferred calls |
| `Event` | `event/event.cpp` | events, bets, counters and limit, pending payments |
| `Dice`, `Slots`, `Scratch`, `CenterGame` | the contracts of these names | bets, spins, cards, counters, pending deferred calls |
| `Ledger` | none: abstract | stakes taken, payouts owed, bets paid and void, books, money sent |
| `Casino` | `transfer_to_house` (`game_contracts.hpp`), `house.cpp`, `dice.cpp` | the conjunction of the actions of House and Dice that share a transaction; `terms`, `queue` and `dropped` tie calls and queued rows to their bets |
| `Cards`, `Bullfight`, `RedBlack`, `Baccarat`, `Wheels` | `common/cards.hpp` and the games (`Wheels`: roulette and quick3) | operators; Baccarat deals card by card, and pays any byte as a bet type as `get_payout` does |
| `Library` | `add_card` and the calls of the operators above | one deal, or one bet on a wheel; `MultiIndex`, `Optional`, `Currency`, `Memo`, `Dispatch` each on its own variables; and `GetCoins`, the one action of `eosfaucet.cpp`, over who was served |
| `Memo` | `common/param_reader.hpp`, `transfer` of the round games | the reader's position and what it has read |
| `Dispatch` | `EOSIO_ABI_EX`, `check_transfer` | what reaches a handler, and what it believes was staked |
| `OrderedTable` | none: abstract | rows and an iterator |
| `MultiIndex` | `multi_index.hpp` | the platform's rows and secondary index, the cache with its handles, the next key |
| `Heap` | `eosiolib.cpp` | markers, heaps, pages; `malloc`, `realloc`, `free` |
| `Optional` | `optional.hpp` | the flag and what is in the storage; history: objects made less those destroyed in each place, and reads into an empty one |
| `Codec` | `datastream.hpp`, `varint.hpp`, `fixed_key.hpp` | packing and unpacking of typed values; keys and their words |
| `FixedPoint`, `Assets`, `Names`, `Times` | `fixedpoint.hpp`, `asset.hpp`, `types.hpp` and `symbol.hpp`, `time.hpp` | operators |
| `Currency` | `currency.hpp` | statistics of a symbol and accounts |
| `MC*` | - | constants and scenes for TLC |
| `*Proofs`, `TableLemmas` | - | theorems |

`PROJECT.json` maps every definition to its lines. Choices that need a word:

* **Scenes and parts.** Where everything at once is too many states, or the
  contracts share no state at all, a behaviour of an `MC` module is of one scene:
  the same state and the same actions, with less to choose from. `MCHouse` has
  money, people and points; `MCRound` play and live; `MCBlackjack` cards and games (and hands);
  `MCEvent` one event and two events; `MCCasino` payments and an operator who
  interferes; `MCGames` the four single player games; `MCParts` the parts below
  the contracts. A scene loses nothing the property of that scene is about: points are
  never touched by payments, one contract never by another.
* **Symmetry.** Players are interchangeable in `event_all`. Liveness does not allow
  symmetry; in `blackjack_all` the first game, and in `round_all` the first bet, is p1's
  instead.
* **Order of operations.** `RoundGame` and `Blackjack` start where the operator
  has deployed the contract; `init` is the first action of a round game, and in
  Blackjack has been run. In the other games it may come at any time.
* **Time** is absolute in `House`, where days matter, and the seconds left until
  the next thing happens elsewhere, so that the state space stays finite.
* **Randomness** is a nondeterministic choice among the outcomes a draw can have.
* **Memory.** Rows are emplaced zeroed, but the row of a new blackjack game is
  copied from a local whose `result` is never assigned: `UnsetResults` holds
  what the memory may contain, the code of a surrender among it.
* **Bit masks.** House's `game_played_flag` is the set of its bits; `1 << id` sets one
  of 32, `PlayedBit(id)`, whatever the id of the game is.
* **Nothing throws.** The contracts and the SDK are compiled for a platform where a
  failed assertion ends the transaction with everything in its memory, so that no code
  runs after one, and no destructor.
* **Sender ids** are the domain of `payments`, `deferred` and `calls`. A
  transaction that runs has released its id, so the `pay` of a game may send the
  house's under the same one.
* **Cards** of blackjack are their points. The cards are drawn with
  replacement, as `random_card` does.
* **Limits of a token row** are constants of the game modules. In `Casino` they
  are read where `transfer_to_house` reads them, and the operator moves them.
* **Widths and bases.** TLC's integers have 32 bits: `Width`, `Word`, `Half`,
  `Group`, `Bits` and the units of time are small numbers with the proportions
  the code relies on.
* **Rows and handles.** In `MultiIndex` a row is its secondary key and a handle the
  primary key of what it stands for. `erase` goes on to read the cached row it has
  just freed; `free` changes only the mark of the block, so it reads what was there.
* **Type invariants.** `House` and `Event` have `TypeOK`; those of the games are `Shape` in their
  proof modules, the first conjunct of each inductive invariant.
* **Assumptions.** Those of modules that are only instantiated are restated where TLC
  evaluates them (`GamesAssumption`, `PartsAssumption`, `CasinoDice`). The amounts and
  writes of `MCGames` are constants with values in `MCGames_play.cfg`, so that the
  theorems about it are not about those values.
* **History variables** (`paid`, `lost`, `forced`, `due`, `sent`, `queue`, `dropped`,
  ...) record what happened for the properties and guard nothing but the named
  bounds.
* **"fault" operators.** Before a definition stands now and then the form a
  plausible mistake would give it, marked `fault`. No action uses these; each
  replaces its neighbour in one of the mutants of `PROJECT.json`, and the
  property named there must then fail.

## 4. What is checked

### 4.1 Runs that pass

| run | instance | shows |
|---|---|---|
| `house_all` | money: two tokens, two queued payments, operator writes and clears rows. people: two players, a third account, days. points: rewards and chests across the mask | `TypeOK`; the two sets of books agree and account for every coin (`BooksAgree`); each debt is met once or dropped (`ObligationsMet`); the house is never a referer and counters need one (`RefererSound`); the first referer stays (`RefererKept`); daily totals are of the day they say (`DailyIsToday`); points are earned, and chests opened once and covered by points (`LoyaltyPaidOnce`) |
| `round_all` | two players. play: three rounds, three bets, the round counter set back at any time. live: five rounds, four bets, rings of three, fair | `StakesMatch`, `ExposureLimited`, `OwnRound`, `BetsFrozen`, `RoundEndsOnTime`, and the refinement of Wager (`WagerSpec`); in live, every bet is answered (`BetsAnswered`) and both rings hold the most recent entries over the wrap (`RingsHoldTheLast`) |
| `blackjack_all` | one game with every hand, fair; or two players and many games with hard closes, erased games, late and failed payments | hands in play can be played and the bank stops at 17 (`HandsByTheRules`), payouts against the rules restated by ranks (`PaidByTheRules`), half the stake only for a surrender that was played or that the unset memory named, and a game in play keeps the result its transfer left (`HalfAsRecorded`), refinement of Wager (`WagerSpec`), every action resolved (`CardsAnswered`) |
| `event_all` | one event reopened and limits that move; or two events that pay the same players | `TotalsMatch`, `StakesLimited`; what resolve pays out is what closeevent fixed, for the bets there are (`PaysWhatWasClosed`); refinement of Wager (`WagerSpec`) |
| `games_play` | dice, slots, centergame, scratch, two players, fair | refinement of Wager (`GamesKeepWager`), odds over all outcomes (`HouseKeepsEdge`), no card lost or made (`CardsAccounted`), every bet of dice and slots answered (`EveryBetAnswered`) |
| `casino_bank` | house and dice, two players: three bets and two queued payments; or two bets while the operator moves limits and balance, pays in, stops the game, and a player chooses a referer | refinement of Ledger (`KeepsLedger`): from the stake to the settled payment |
| `parts_all` | each part under the contracts | `DrawsFair`, `HandsRanked`; `OddsKeepEdge`; every bet of baccarat and cbaccarat returns less than it costs on average (`BaccaratReturnsLess`); `TablesCoherent` and the refinement of OrderedTable (`TableSpec`); `StorageSafe`; `ValuesComeBack`; `NumbersExact`; `MemoRead`; `AccountsMatch` |

**Bounds.** Each instance has at least two of what can collide (two bets of a
player, two players for one reveal, two events for one player, two queued
payments, two rounds around a hard close) and one more where a third step is
needed to see the damage: the third bet of `casino_bank` finds two rows in the
queue, one of which may have been settled. Rings of one to three slots wrap;
stakes lie on both sides of the limits (payouts at and above the bank's balance,
a second bet that reaches the limit). `Width` is 10^9 in TLC's runs: an overdrawn
balance wraps there as it does at 2^64. The amounts are real ones where the code
compares them with its own constants (1000000 for a delayed payment, the
thresholds of rewards). In the cards of `blackjack_all` aces and tens make soft
and hard hands, two card and longer 21s, and a bank that ends on 17, 20, 21 or a
bust; the bank draws as long as the code lets it. Actions that `resolve` never accepts (section
4.3) are left to its games, where a double may wait for ever. `parts_all` enumerates
what is small in full (all hands of bullfight by value, all numbers of the wheels, all
names and strings of the scaled length, all fixed point numbers of four bits) and
samples the rest at the boundaries; heaps are of eight words on up to three pages, so
that memory stops growing and blocks are joined.

**Odds.** `OddsKeepEdge` is about the bet types the games name: that backing both sides
of redblack or of a baccarat never gains, that a hand of bullfight gains at most its stake,
and that no bet of roulette and quick3 gains over all its numbers. `BaccaratReturnsLess`
adds what each of the ten bets of the two baccarats returns over all rounds, the points
of six cards being drawn as if each were independent of the others; eight decks come
close to that. What the lucky strike of redblack and a hand of bullfight return on average
is not computed. `HouseKeepsEdge` is exact for dice, slots and scratch. A type of baccarat
that no column is for is `parts_baccarat` (4.2).

**Numbers.** `NumbersExact`: an `asset` that does not fit aborts, and any other comes out
exact, but for the least amount divided by -1. A fixed point number that does not fit wraps
without notice, and two that are compared are compared by their counts alone
(`fixedpoint.hpp:434`): the property says when each is right.

**Fairness.** The live scene of `round_all`, the cards of `blackjack_all` and dice and slots of
`games_play` assume that the backend, whose only job it is, resolves or reveals
what can be, that the platform disposes of every deferred call (it runs or
fails), and, in `round_all`, that time passes. It is weak fairness of each. They
do not assume that players act, that a deferred call succeeds, or that the
operator starts rounds, closes games or clears tables. A hard close excuses
`BetsAnswered` of the round games, as it leaves the bets to a round nobody has
to start. Scratch and centergame have no liveness: a card is claimed when its player
likes, and a bet of centergame settled when the operator lists it. Neither has the
house: nobody has to settle a queued payment.

### 4.2 Runs that find a disagreement

Each checks one property that the code's own comments, assertions or
declarations state, and TLC shows the steps that break it.

| run | what happens |
|---|---|
| `house_underflow` | `pay` compares the payout alone with the balance and subtracts payout and bonus: the unsigned balance wraps |
| `blackjack_unset` | a new game whose `result` holds 1 is paid as a surrender |
| `event_rounding` | the payout `closeevent` fixes is not the one `resolve` adds up |
| `parts_realloc` | a block that grows into the freed one behind it, at the end of what its heap has handed out, passes the heap's offset (`eosiolib.cpp:358`): the next `malloc` returns words that lie inside it |
| `parts_baccarat` | a round of baccarat pays a bet whose type none of the five columns is for: the index comes out in the row of another result, or outside of the matrix (`baccarat.cpp:58`) |

`blackjack_unset` states of the code's comment what it says, that half is for a surrender;
`HalfAsRecorded` of `blackjack_all` is what holds with the same memory.

### 4.3 Behaviour that looks unintended

No run singles these out, because reading the lines shows them at once; the models
contain them, and the properties say where they hold in spite of them.

* House: `pay` records the player himself as referer where `setreferer` refuses
  (`house.cpp:234`, `:314`); `setreferer` also accepts a name that is no account,
  after which a payment with a bonus for it is refused, and lost with its deferred
  call; `settleunpaid` books payouts in any token as EOS (`:265`, `:124`) and
  assigns the total paid out of the token row where `pay` adds to it (`:272`).
* Blackjack: a game closed by hand is dealt on and paid by the action that still
  waits (`blackjack.cpp:301`); a double, an insurance or a surrender after a hit is
  queued and never resolved (`:185`, `:179`).
* Event: an event with a result takes bets that are never settled, and stay open
  (`event.cpp:161`); `init` sets the limit to zero, so its default never applies
  (`:18`, `:37`).
* Dice: stray letters at `dice.cpp:92` keep the file from compiling; its dispatcher
  does not list `setglobal`.
* Memo: a missing separator moves the read position past the largest number and
  back to the start of the memo (`param_reader.hpp:18`).
* SDK: a `signed_int` from 2^30 on and a `key256` that uses more than its first
  bytes do not come back from their bytes; a `fixed_key` whose last word is only
  partly filled has its bytes out of place; `realloc` to less keeps the size of the
  block; a negative asset that is not whole is printed wrong; `fixed_divide` of two
  `uint64_t` cuts them to 32 bits, and a `fixed_point64` made of 32 bits shifts in 32
  bits; fixed point numbers of different points are compared by their counts; reading an
  empty `optional` from a stream sets its flag and fills its storage without making an
  object (`optional.hpp:437`), and `reset` then destroys what was never made; `currency` reads the supply from the table of accounts, and issuing ignores
  `max_supply`; `get` of the faucet needs no authority of the account it serves.

## 5. What is proved

Every theorem holds for any number of players, any amounts and odds, within the
named assumptions of the modules.

* **TableLemmas**: what `Put`, `PutAll` and `Erase` keep and return; and sums. A sum
  over a table is a fold over a finite set, defined by recursion on what is left of the
  set. The induction it needs is stated for a set of sets instead of a predicate
  (`SubsetInduction`, from the library's minimum of a well-founded order), so that the
  provers can use it; with it the sum is shown to unfold, to change with one row by the
  difference of its values, to be monotone, and to be what one expects for none, one, five
  or twenty values. Every proof below about totals or odds rests on these lemmas.
* **HouseProofs**, the house: `TypeCorrect`; then the invariant `RowsSound` (each
  player's row keeps the house out of the referer, a zero counter without a
  referer, and points that cover the opened chests) gives `RefererIsSound`,
  `HouseIsNeverReferer`, `NoRefererNoCounter` and `ChestsAreEarned`.
  `UnpaidIsStable` follows from the type and from the id of a new payment being
  none of those queued; so does `ObligationsAreMet`, where the sum over the queued
  payments of a player changes with the one that enters or leaves. `BooksAlwaysAgree`
  needs `TablesFinite` and `PoolInv`: what the house holds and what its rows say differ
  by whole turns of the balance's width, so that each `Wrap` of a stored balance, an
  underflow included, is accounted for; and each operation changes one row's share by
  what it moves. `DailyIsOfToday` needs `DaysInv`: a player stakes on no day after that of
  his last stake, which is none in the future, and one without a row has staked nothing.
  `LoyaltyIsPaidOnce` needs `RowsFair`: the points of a row are at most those of the claims
  made, and what its chests paid lies between the amounts of those opened and twice
  that. `RefererIsKept` is an action property of each row.
* **HouseProofs**, the casino: `CasinoKeepsLedger` is the refinement of Ledger by
  house and dice together. Its invariant `CInv` adds to the house's type: a player
  with a bet, a call or a queued payment has a record in the house (`ActiveSound`,
  `CallsSound`, `QueueSound`; otherwise `pay` would send money that no record
  books); every call and every queued row is of one bet; a bet is in one place
  (`Apart`); and the counter has passed every id in use (`Numbered`; otherwise a new bet might take over the payment of an
  old one). What is owed is the union of the calls and the queue, so each payment
  needs that its entry is in one of the two only, which `Apart` gives. Then a
  transfer places, a reveal decides, a call or a settlement pays, a failed call
  or a dropped row makes void, and everything else stutters.
  `CasinoBetInOnePlace` states `Apart` by itself.
* **Wager**: in the abstract specification a bet is in one stage and of one
  player, and never goes back.
* **RoundGameProofs**: `OwnRound` needs that no bet exists before init
  (`BeforeInit`). The refinement, `ImplementsWager`, needs that every bet ever
  placed has an id the counter has passed (`IdsGiven`): without it a new bet might
  reuse the id of a paid one. Each action is then mapped to a step of Wager or to a
  stutter: transfers place, reveals settle, deferred calls pay or lose.
  `EveryBetInOneStage` follows from the abstract theorem through the
  refinement. Assumption `NoBetWrites`: the operator does not set the bet counter.
  `NoBetAfterReveal` and `ActiveRoundKeepsItsEnd` need no assumption.
  `TotalsAreStakes` and `StakesWithinLimit` are `StakesInv`: the row of a player's total
  is the sum over his bets, which a transfer of several bets raises by the sum of the
  slip, and a reveal clears together with the bets. `RingsShowTheLast` needs that each of
  the last numbers is in its slot of the history and no other slot is used
  (`HistoryInv`), over reveals of any number of bets, and that the results get older
  slot by slot (`ResultsInv`). It assumes `NoRingWrites`: the operator sets no counter but
  that of the bets, as moving the ring's index moves where the next entry goes.
* **BlackjackProofs**: the same argument with `Shape` and `IdsGiven`; here a transfer may
  give up an earlier game whose action still waits after a hard close, and hard closes
  and erasures drop games. Assumption `NoGameWrites`: the operator does not set the game
  counter. `HalfIsAsRecorded` assumes nothing of the memory of a new row: a game
  in play has the result its transfer left (`AsLeft`), since a failed surrender leaves no
  trace and a new game assigns the row anew, so that half goes back for that result or
  for a surrender that was played. `HandsAreByTheRules` and `PaymentsAreByTheRules` are the two
  halves of `PlayInv`: a game whose action still waits for its first cards has none, one
  in play has at least two, one of the bank and fewer than 21 points, and one that is over
  a bank that stopped (`HandsInv`); and the payment on its way is of a game that is over
  and the one the rules give for its hands (`PaymentsInv`). The bank's draws are a
  fold, of which is shown that sixteen cards always get it to 17 and none is drawn from
  there on. The proof made three definitions of the
  model change: `BankerHands`, `Verdict` and the rules' own payout had CASE arms that
  overlapped, where TLA+ chooses either; they are chains of IF as in the code.
* **EventProofs**: `EventImplementsWager` and `EventBetInOneStage`, for any rates
  and any number of events, under `NoBetWrites`. The second is about every bet in the
  table: it needs `SettledOnce`, that what was put in a payment is on a decided event, so
  that the bets a decided event still takes are in no payment and stay open. With `EventTypeCorrect`,
  `EventTotalsMatch` needs that a player has one row per event and type (`OneRow`), so
  that a second bet raises one row and one total by the same stake (`TotalsInv`).
  `EventStakesLimited` adds `LimitKept` (the limit is no more than the default until it is written)
  and `LimitInv`: the stakes of a player on an event, over all types, are within it.
* **GamesProofs**: the four single player games, in the module that `games_play`
  checks. `GamesImplementWager` gives each of them a `Shape` and shows each action to be
  one of six steps of Wager (place, renew, settle, drop, end, or nothing), each of
  which keeps `Books`: the counter has passed every id in use. `GamesBetInOneStage`
  follows through the refinement. `CardsAreAccounted` follows every card from the grant to
  the claim, and shows for every draw that the result of a revealed card, five types of
  four bits and five outcomes of two in one number, tells what the card was paid: types and
  outcomes fit their bits, no place runs into the next, and the types of the card with steps add up to
  squares that each stand for one step. `GamesKeepEdge` computes, over every draw, that dice pays at most 98 of a
  hundred stakes whatever the stake and the number (the payout is rounded down), slots
  8768 of 10000, and a card of scratch 1600000, 1599985, 1600000 and 1620000 of
  2000000 for its four types. Assumptions `NoSpinIdWrites`, `NoCardIdWrites` and `NoBetIdWrites`: the operator does not
  set the counter of spins, of cards or of the bets of centergame.
* **LibraryProofs**, tables: `MultiIndexImplementsTable` and `TablesStayCoherent`. The
  invariant `Coherent` says that what is cached is stored, that the index has the
  keys of the rows, and that the iterator's row is cached; with it each operation,
  found in the cache or not, gives what the plain table gives. `Numbered` adds that
  the next key is above all rows once it is known: a write moves it on, and the first
  `available_primary_key` reads the last row, which there is because keys are finitely
  many. Assumptions `TableAssumption` and `LimitAssumption`: keys are numbers up to
  the largest uint64_t, which is one above the limit of `available_primary_key`.
* **LibraryProofs**, cards and odds. `DrawsAlwaysFair`: the invariant is `DealtFrom` (the
  dealt cards are distinct and of the deck); sorting them gives an increasing sequence of
  the same cards (`Ascending` is defined by rank, so that this is a counting argument), bumping
  a number over that sequence is a bijection from the numbers to the cards left, and so the
  count of both is the same. `HandsAlwaysRanked` and `OddsAlwaysKeepEdge` share the invariant
  `DealtSound` (five values in order, six cards, one bet of a wheel, two hands). For
  bullfight it is shown that whichever three cards make a multiple of ten, the rest is the total
  modulo ten, and that the longest run found by folding over the sorted hand is a bomb
  exactly when the first or last four are equal; for redblack, that the type of a hand and its
  rank are both read off three ordered points (`KindFound`, `RankFound`), and that the
  comparison by cases, a fold over the places, is the order of the ranks (`SameTypeCompared`,
  `AboveUnfolds`). The odds need, for roulette, how many numbers each kind of bet covers; for
  quick3, that the 216 throws are the digits of a number to base six, so that the throws of each
  bet can be counted; for bullfight, the bounds on its rates and on what the unsigned addition
  of a negative one gives, against six hands of the bank, one of each kind of type. The proof made
  the CASE arms of `Rank` exclude each other. Assumption `LibraryAssumption`: cards are natural numbers.
* **LibraryProofs**, the rest. `AccountsAlwaysMatch`: `Held` says that the accounts add up to
  the supply modulo the width of an int64 and, while no issue can have wrapped it, that no
  account is negative; `Funded` that the game's funds and what it sent are the stakes it
  credited; `Given` that who was served has the gift, once. `OptionalsLive`: for every place
  the objects made less those destroyed, and the reads into it while it was empty, are
  what its flag says, so that none is destroyed twice, leaked or made over one alive. `MemosReadOnce`:
  `Reading` says where the reader stands after each read, in a memo that ends with a separator and in
  one that does not, so that starting over at the end can not read a pair twice. Assumptions
  `CurrencyAssumption`, `DispatchAssumption`, `FaucetAssumption` and
  `MemoAssumption`: amounts are numbers, the token is not one of the contracts, the house
  is an account and not the player.

**Only model-checked.** Liveness and fairness (`EveryBetAnswered`, `BetsAnswered`, `CardsAnswered`),
which are out of the prover's reach. What `Heap`, `Codec` and `Assets` compute
(`StorageSafe` but for its optionals, `ValuesComeBack`, `NumbersExact`): they are written with recursive operators,
with which the prover loses its arithmetic. A few conjuncts of `parts_all` about values
(`Names`, `Times`, `FixedPoint`) are in the same properties; they are checked in full over
their scaled widths.

## 6. What is not modelled

* `common/random.hpp`: signatures, seeds and the generator are cryptography. The
  generator is an oracle: each draw may give every outcome.
* The SDK's declarations of what the node implements: no code. What the contracts
  rely on is modelled where they use it.
* Printing, hashing and system actions of the SDK; how its value types are composed
  beyond the types `parts_all` packs.
* In `Casino`: other games (their rows are their own), tokens other than EOS, chests
  and rewards (paid for no bet), and the clock. `cleartoken` spares the EOS row, so
  it has nothing to do there.
* Memo texts, names of events, times and messages shown to players.
* A write of the bet or game counter by `setglobal` while bets are open: an
  operator's act that may make ids be used again, named in the assumptions above.
