------------------------------ MODULE Balance ------------------------------
(***************************************************************************)
(* The token wallets (src/token/wallet.cpp) inside the wallet processes of *)
(* Sync.  A wallet adds the transactions of a block to its balance in two  *)
(* places: unlockWallet recomputes it from the chain, on the main thread,  *)
(* and the handler of NEW_BLOCK calls Wallet::update before it offers the  *)
(* block to the chain, on the network thread.  The network is started      *)
(* before the wallet is unlocked.                                          *)
(*                                                                         *)
(* The balance is modelled by the blocks that were added up in it, leaving *)
(* aside those without transactions, in the order in which they were.      *)
(***************************************************************************)
EXTENDS Sync

VARIABLES
    unlocked,  \* the wallets whose unlockWallet is over
    counted,   \* per wallet: the blocks added up in its balance
    handling,  \* pairs <<w, p>>: w has updated its balance with the block it
               \* received from p and not offered it to the chain yet
    raced      \* history: wallets that were unlocked while handling a block

purse == << unlocked, counted, handling, raced >>

Wallets == Node \ Masters

\* The part of a block, and of a chain, that changes a balance.
Counts(blk) == blk.data # << >>
Paying(c) ==
    FlattenSeq([i \in 1..Len(c) |-> IF Counts(c[i]) THEN << c[i] >> ELSE << >>])

Handles(w) == \E p \in Node : << w, p >> \in handling

BalanceInit ==
    /\ Init
    /\ unlocked = {} /\ handling = {} /\ raced = {}
    /\ counted = [w \in Wallets |-> << >>]

\* Faulty variant of Unlock: the transactions are not retrieved.
UnlockOnly(w) ==
    /\ Up(w) /\ w \notin unlocked
    /\ unlocked' = unlocked \union {w}
    /\ raced' = IF Handles(w) THEN raced \union {w} ELSE raced
    /\ UNCHANGED << vars, counted, handling >>

\* unlockWallet: the address is known from here on and the balance is
\* computed anew from the chain.
Unlock(w) ==
    /\ Up(w) /\ w \notin unlocked
    /\ unlocked' = unlocked \union {w}
    /\ counted' = [counted EXCEPT ![w] = Paying(chain[w])]
    /\ raced' = IF Handles(w) THEN raced \union {w} ELSE raced
    /\ UNCHANGED << vars, handling >>

\* The handler of NEW_BLOCK, first half: Wallet::update.  Without an address
\* no transaction is the wallet's own.
Update(w, p) ==
    /\ Up(w) /\ ~Handles(w)
    /\ chan[p][w] # << >> /\ Head(chan[p][w]).type = "NEW_BLOCK"
    /\ handling' = handling \union {<< w, p >>}
    /\ counted' = IF w \in unlocked
                  THEN [counted EXCEPT ![w] =
                            @ \o Paying(<< Reparse(Head(chan[p][w]).blk) >>)]
                  ELSE counted
    /\ UNCHANGED << vars, unlocked, raced >>

\* Faulty variant of Forget: the next run starts with an unlocked wallet.
ForgetBalance ==
    LET on == {n \in Node : proc'[n] # "off"}
    IN  /\ UNCHANGED unlocked
        /\ raced' = raced \intersect on
        /\ counted' = [w \in Wallets |-> IF w \in on THEN counted[w] ELSE << >>]

\* What is left of the wallets' state when processes end.
Forget ==
    LET on == {n \in Node : proc'[n] # "off"}
    IN  /\ unlocked' = unlocked \intersect on
        /\ raced' = raced \intersect on
        /\ counted' = [w \in Wallets |-> IF w \in on THEN counted[w] ELSE << >>]

\* The second half: the block is offered to the chain.  Where it ends the
\* process, peers that have a block in hand see that only afterwards.
Offer(w, p) ==
    /\ << w, p >> \in handling
    /\ ReceiveNewBlock(w, p)
    /\ handling' = handling \ {<< w, p >>}
    /\ \A h \in handling' : chan'[h[2]][h[1]] # << >>
    /\ Forget

\* Any other step of Sync.  The end of a connection is seen by the thread
\* that handles blocks, so it waits for the block in hand.
Aside ==
    /\ handling' = {h \in handling : proc'[h[1]] # "off"}
    /\ \A h \in handling' : chan'[h[2]][h[1]] # << >>
    /\ Forget

\* The main thread of a wallet starts with unlockWallet; only a peer list
\* makes its network thread dial before.
Ready(n) == n \in Masters \union unlocked

BalanceNext ==
    \/ \E w \in Wallets : Unlock(w)
    \/ \E w \in Wallets, p \in Node : Update(w, p) \/ Offer(w, p)
    \/ \E n, p \in Node :
        /\ n \in Wallets => ~Handles(n)
        /\ Receive(n, p)
        /\ n \in Wallets => Head(chan[p][n]).type # "NEW_BLOCK"
        /\ Aside
    \/ \E n \in Node :
        /\ \/ Load(n) \/ Tick(n) \/ Dispatch(n) \/ Stop(n) \/ Crash(n)
           \/ Ready(n) /\ \E t \in Time : Save(n, t)
           \/ Ready(n) /\ \E tx \in Tx : Submit(n, tx)
        /\ Aside
    \/ \E d \in Dials :
        /\ \/ /\ Ready(d[1]) \/ \E p \in Node : Open(d[1], p)
              /\ Connect(d[1], d[2])
           \/ Greet(d[1], d[2])
           \/ Cut(d[1], d[2])
        /\ Aside

BalanceSpec == BalanceInit /\ [][BalanceNext]_<< vars, purse >>

-----------------------------------------------------------------------------
BalanceTypeOK ==
    /\ unlocked \subseteq {w \in Wallets : Up(w)}
    /\ raced \subseteq unlocked
    /\ counted \in [Wallets -> Seq(Block)]
    /\ handling \subseteq Wallets \X Node

\* As long as there is one history (ReplicasArePrefixes), a wallet that was
\* not caught in the middle of a block by its own unlocking has added up every
\* block of its chain and, between blocks, no other: although the balance is
\* updated before the chain decides about the block, a block that is ignored
\* is one that is on the chain, and one that does not fit takes the wallet
\* down with it (wallet/application.cpp:48-51).
BalanceCoversChain ==
    ~lost => \A w \in unlocked \ raced :
        /\ Range(Paying(chain[w])) \subseteq Range(counted[w])
        /\ ~Handles(w) => Range(counted[w]) \subseteq Range(chain[w])

\* The balance the send command compares with counts no block twice.
BalanceCountsOnce ==
    \A w \in unlocked : Len(counted[w]) = Cardinality(Range(counted[w]))

\* The balance misses no block of the chain.
BalanceMissesNothing ==
    \A w \in unlocked : Range(Paying(chain[w])) \subseteq Range(counted[w])
=============================================================================
