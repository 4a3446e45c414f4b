------------------------------- MODULE Toolbox -------------------------------
(***************************************************************************)
(* The files of src/toolbox/application.cpp: the chains --init writes, the *)
(* wallets --create writes, and what load and unlockWallet make of them    *)
(* later.  Files are written line by line and a run may be killed between  *)
(* two lines or within one.                                                *)
(*                                                                         *)
(* A text is the sequence of its lines.  A key is a number, and so is its  *)
(* address; a signature is what it signs and the key.  An address somebody *)
(* has typed need not be one: Transaction::unserialize reads 64 characters *)
(* whatever was written.                                                   *)
(***************************************************************************)
EXTENDS Integers, SequencesExt

CONSTANTS
    ChainFile, WalletFile,  \* names
    DefaultName,            \* "chain.blk"
    DefaultText,            \* the genesis text of a run that names none
    Text,                   \* texts: sequences of lines
    CommandLine,            \* parsed command lines: functions from option names
    MaxRuns                 \* bound: runs

ASSUME ToolboxAssumption ==
    /\ DefaultName \in ChainFile /\ DefaultText \in Text
    /\ \A o \in CommandLine : "init" \in DOMAIN o => o["init"] \in ChainFile \union {""}

VARIABLES
    files,  \* per name: its lines
    at,     \* what the run has come to
    opts,   \* _list
    out,    \* the file being written and the lines still to write
    keys,   \* counter: keys generated
    made,   \* history: per chain file, what the last --init on it was to write
    end,    \* history: how the last run ended
    runs    \* counter for the bound

vars == << files, at, opts, out, keys, made, end, runs >>

Unparsable == -1  \* an amount that is no number
Short == -1       \* an address one character too short
Odd == -2         \* one of any other length
Shifted == -3     \* what is read for a field after a short address

NoFile == << [part |-> "no file"] >>
NoChain == [chain |-> << >>, addr |-> 0, amount |-> 0]
Nothing == [name |-> "", lines |-> << >>]
Has(option) == option \in DOMAIN opts
Given(option) == Has(option) /\ opts[option] # ""

-----------------------------------------------------------------------------
(***************************************************************************)
(* Blocks, transactions and their text.                                    *)
(***************************************************************************)
Hash(b) == << b.idx, b.prev, b.data >>
NewBlock(c, d) ==
    LET prev == IF c = << >> THEN << >> ELSE Last(c).hash
    IN  [idx |-> Len(c), prev |-> prev, data |-> d,
         hash |-> << Len(c), prev, d >>]

\* A transaction signed with key k.
TxHash(from, to, amount) == << from, to, amount >>
Signed(k, to, amount) ==
    [from |-> k, to |-> to, amount |-> amount, key |-> k,
     sig |-> [by |-> k, of |-> TxHash(k, to, amount)]]
IsValid(tx) ==
    /\ tx.from = tx.key
    /\ tx.sig = [by |-> tx.key, of |-> TxHash(tx.from, tx.to, tx.amount)]

\* Transaction::unserialize: the fields after a short address are shifted;
\* with any other wrong length std::stoi throws.
Readable(tx) == tx.to # Odd
Parsed(tx) ==
    IF tx.to = Short THEN [tx EXCEPT !.to = Shifted, !.key = Shifted] ELSE tx

\* The data of a block are lines of free text or one transaction.
FreeText(t) == [i \in DOMAIN t |-> [text |-> t[i]]]
TxsOf(b) == IF "from" \in DOMAIN Head(b.data) THEN b.data ELSE << >>

\* Block::serialize: one line of the file per line of the data.
BlockLines(b) ==
    [i \in DOMAIN b.data |->
        IF i = 1 THEN [part |-> "block", idx |-> b.idx, prev |-> b.prev,
                       hash |-> b.hash, data |-> << b.data[1] >>]
        ELSE [part |-> "rest", data |-> << b.data[i] >>]]
ChainLines(c) == FlattenSeq([i \in DOMAIN c |-> BlockLines(c[i])])

\* A line that was cut: it has no block, or one whose data are cut.
CutLines(line) ==
    {[part |-> "cut"]} \union
        (IF line.part = "block" THEN {[line EXCEPT !.data = FreeText(<< "cut" >>)]} ELSE {})

\* Block::unserialize takes a line that begins with a block.
Unserialize(line) ==
    [idx |-> line.idx, prev |-> line.prev, data |-> line.data, hash |-> line.hash]

\* Faulty variant of Verify: digests are not computed again.
VerifyLinks(c) == \A i \in 2..Len(c) : c[i].prev = c[i-1].hash

\* verify: a chain of one block is not looked at.
Verify(c) ==
    Len(c) = 1 \/ \A i \in 1..Len(c) :
        /\ c[i].hash = Hash(c[i])
        /\ c[i].prev = IF i = 1 THEN << >> ELSE c[i-1].hash

\* Blockchain::load, when it throws and what it returns otherwise.
Loaded(f) == [i \in DOMAIN files[f] |-> Unserialize(files[f][i])]
Loads(f) ==
    /\ \A i \in DOMAIN files[f] : files[f][i].part = "block"
    /\ Verify(Loaded(f))

\* Faulty variant of Updated: what comes in is taken off.
UpdatedMinus(balance, tx, a) ==
    IF a \in {tx.from, tx.to} /\ tx.from # tx.to THEN balance - tx.amount ELSE balance

\* Wallet::update for one transaction, and _retrieveTransactions.
Updated(balance, tx, a) ==
    CASE tx.from = a /\ tx.to # a -> balance - tx.amount
      [] tx.to = a /\ tx.from # a -> balance + tx.amount
      [] OTHER -> balance
TxsIn(c) == FlattenSeq([i \in DOMAIN c |-> TxsOf(c[i])])
Balance(c, a) == FoldLeft(LAMBDA n, tx : Updated(n, Parsed(tx), a), 0, TxsIn(c))

-----------------------------------------------------------------------------
(***************************************************************************)
(* The text of a wallet: its address, the private key, an empty line, the  *)
(* public key; a key is two lines.                                         *)
(***************************************************************************)
Pem(part, k) == [i \in 1..2 |-> [part |-> part, of |-> k, line |-> i]]
Blank == [part |-> "blank"]
WalletLines(k) ==
    << [part |-> "address", of |-> k] >> \o Pem("priv", k) \o << Blank >> \o Pem("pub", k)

\* Faulty variant of Unlocked: the empty line is taken into the public key.
UnlockedBlank(lines) ==
    LET i == SelectInSeq(lines, LAMBDA x : x = Blank)
        n == IF i = 0 THEN Len(lines) ELSE i - 1
    IN  [address |-> IF lines = << >> THEN << >> ELSE << Head(lines) >>,
         priv |-> SubSeq(lines, 2, n), pub |-> SubSeq(lines, n + 1, Len(lines))]

\* unlockWallet: the first line is the address, the lines up to an empty one
\* the private key, the others the public key.
Unlocked(lines) ==
    LET i == SelectInSeq(lines, LAMBDA x : x = Blank)
        n == IF i = 0 THEN Len(lines) ELSE i - 1
    IN  [address |-> IF lines = << >> THEN << >> ELSE << Head(lines) >>,
         priv |-> SubSeq(lines, 2, n),
         pub |-> SelectSeq(SubSeq(lines, n + 1, Len(lines)), LAMBDA x : x # Blank)]

\* signTransaction comes to an end: there is a private key to sign with and
\* a public key to enter; and what key it signs with.
Signs(w, k) == w.priv = Pem("priv", k) /\ \E j \in 1..keys : w.pub = Pem("pub", j)

-----------------------------------------------------------------------------
Init ==
    /\ files = [f \in ChainFile \union WalletFile |-> NoFile]
    /\ at = "off" /\ end = "none"
    /\ opts = << >>
    /\ out = Nothing
    /\ keys = 0
    /\ made = [f \in ChainFile |-> NoChain]
    /\ runs = 0

\* The constructor and the test for help.
Start(o) ==
    /\ at = "off" /\ runs < MaxRuns
    /\ runs' = runs + 1
    /\ opts' = o
    /\ end' = "none"
    /\ at' = IF DOMAIN o = {} \/ "help" \in DOMAIN o THEN "off" ELSE "init"
    /\ UNCHANGED << files, out, keys, made >>

\* An exception nobody catches.
Throw ==
    /\ at' = "off" /\ end' = "thrown"
    /\ UNCHANGED << files, opts, out, keys, made, runs >>

\* The file is truncated, and lines will be written to it.
Open(name, lines, where) ==
    /\ files' = [files EXCEPT ![name] = << >>]
    /\ out' = [name |-> name, lines |-> lines]
    /\ at' = where

\* The chain of _initBlockchain: a genesis block and, if there is an address,
\* a block with a transaction to it signed with a key nobody keeps.
GenesisChain(t, a, x, k) ==
    LET c == << NewBlock(<< >>, FreeText(t)) >>
    IN  IF a = 0 THEN c ELSE Append(c, NewBlock(c, << Signed(k, a, x) >>))

\* _initBlockchain writes to name the genesis text t and amount x for address
\* a (0: none); save throws when the name is empty.
InitBlockchain(name, t, a, x) ==
    LET c == GenesisChain(t, a, x, keys + 1)
    IN  IF name = "" THEN Throw
        ELSE /\ Open(name, ChainLines(c), "saving")
             /\ keys' = IF a = 0 THEN keys ELSE keys + 1
             /\ made' = [made EXCEPT ![name] = [chain |-> c, addr |-> a, amount |-> x]]
             /\ UNCHANGED << opts, end, runs >>

\* --init.
DoInit ==
    LET name == IF opts["init"] = "" THEN DefaultName ELSE opts["init"]
        t == IF Has("genesis_block") THEN opts["genesis_block"] ELSE DefaultText
        first == Has("wal_address") /\ Has("amount")
    IN  /\ at = "init" /\ Has("init")
        /\ IF ~first THEN InitBlockchain(opts["init"], t, 0, 0)
           ELSE IF opts["amount"] # Unparsable
           THEN InitBlockchain(name, t, opts["wal_address"], opts["amount"])
           ELSE /\ at' = "create"
                /\ UNCHANGED << files, opts, out, keys, made, end, runs >>

\* --create, here and in the wallet program: createWallet.
CreateWallet ==
    /\ at = "create" /\ Given("create")
    /\ keys' = keys + 1
    /\ Open(opts["create"], WalletLines(keys + 1), "storing")
    /\ UNCHANGED << opts, made, end, runs >>

Skip ==
    /\ \/ at = "init" /\ ~Has("init") /\ at' = "create"
       \/ at = "create" /\ ~Given("create") /\ at' = "wallet"
       \/ at = "wallet" /\ ~Given("wallet") /\ at' = "chain"
    /\ UNCHANGED << files, opts, out, keys, made, end, runs >>

WriteLine ==
    /\ at \in {"saving", "storing"}
    /\ IF out.lines # << >>
       THEN /\ files' = [files EXCEPT ![out.name] = Append(@, Head(out.lines))]
            /\ out' = [out EXCEPT !.lines = Tail(@)]
            /\ UNCHANGED at
       ELSE /\ at' = IF at = "saving" THEN "create" ELSE "wallet"
            /\ out' = Nothing
            /\ UNCHANGED files
    /\ UNCHANGED << opts, keys, made, end, runs >>

\* Faulty variant of Kill: what was to be written is still written later.
KillLater ==
    /\ at # "off"
    /\ at' = "off" /\ end' = "killed"
    /\ UNCHANGED << files, opts, out, keys, made, runs >>

\* The run is killed, perhaps in the middle of a line.
Kill ==
    /\ at # "off"
    /\ at' = "off" /\ end' = "killed" /\ out' = Nothing
    /\ \/ UNCHANGED files
       \/ /\ out.lines # << >>
          /\ \E line \in CutLines(Head(out.lines)) :
                files' = [files EXCEPT ![out.name] = Append(@, line)]
    /\ UNCHANGED << opts, keys, made, runs >>

\* --wallet, on its own or with a chain: _readWallet.
ReadWallet ==
    /\ at = "wallet" /\ Given("wallet")
    /\ IF \/ files[opts["wallet"]] = NoFile
          \/ /\ Given("print_transaction")
             /\ \/ ~Loads(opts["print_transaction"])
                \/ \E tx \in ToSet(TxsIn(Loaded(opts["print_transaction"]))) : ~Readable(tx)
       THEN Throw
       ELSE at' = "chain" /\ UNCHANGED << files, opts, out, keys, made, end, runs >>

\* --chain and --print_block: _exploreChain.
Explore ==
    /\ at = "chain"
    /\ IF Given("chain") /\ ~Loads(opts["chain"])
       THEN Throw
       ELSE /\ at' = "off" /\ end' = "done"
            /\ UNCHANGED << files, opts, out, keys, made, runs >>

Next ==
    \/ \E o \in CommandLine : Start(o)
    \/ DoInit \/ CreateWallet \/ Skip \/ WriteLine \/ Kill \/ ReadWallet \/ Explore

Spec == Init /\ [][Next]_vars

-----------------------------------------------------------------------------
ToolboxTypeOK ==
    /\ DOMAIN files = ChainFile \union WalletFile
    /\ at \in {"off", "init", "saving", "create", "storing", "wallet", "chain"}
    /\ end \in {"none", "done", "thrown", "killed"}
    /\ opts \in CommandLine \union {<< >>}
    /\ out.name \in ChainFile \union WalletFile \union {""}
    /\ out.name = "" <=> at \notin {"saving", "storing"}
    /\ keys \in 0..(2 * MaxRuns) /\ runs \in 0..MaxRuns

Written(f) == made[f] # NoChain /\ files[f] = ChainLines(made[f].chain)
OneLine(f) == Len(made[f].chain[1].data) = 1

\* A chain file that was written to its end reads back as the chain it was
\* made of, if the genesis text has one line; the amount is then found at the
\* address it was meant for and nowhere else, in a valid transaction, if the
\* address was one.
AmountArrives ==
    \A f \in ChainFile :
        Written(f) /\ OneLine(f) =>
            /\ Loads(f) /\ Loaded(f) = made[f].chain
            /\ made[f].addr > 0 =>
                /\ \A tx \in ToSet(TxsIn(Loaded(f))) : Readable(tx) /\ IsValid(Parsed(tx))
                /\ \A k \in 1..keys :
                    (\A tx \in ToSet(TxsIn(Loaded(f))) : tx.from # k) =>
                        Balance(Loaded(f), k) = IF k = made[f].addr THEN made[f].amount ELSE 0

\* What load accepts is a beginning of what was to be written, however the
\* writing ended; except one block alone, which is never verified.
LoadedIsWritten ==
    \A f \in ChainFile :
        Loads(f) /\ Len(files[f]) # 1 => IsPrefix(Loaded(f), made[f].chain)

\* A wallet file yields a wallet that can sign exactly when it was written to
\* its end, and what that signs is valid: a cut file never signs for another
\* address, although unlockWallet accepts whatever it reads.
WalletSigns ==
    \A f \in WalletFile :
        LET w == Unlocked(files[f])
        IN  /\ (\E k \in 1..keys : Signs(w, k)) <=> \E k \in 1..keys : files[f] = WalletLines(k)
            /\ \A k \in 1..keys : Signs(w, k) =>
                  w.address = << [part |-> "address", of |-> k] >> /\ w.pub = Pem("pub", k)

\* --init without a name creates chain.blk.
InitDefaultName ==
    end \in {"done", "thrown"} /\ Has("init") /\ opts["init"] = "" =>
        files[DefaultName] # NoFile

\* The genesis block holds the text given with --genesis_data.
GenesisDataUsed ==
    \A f \in ChainFile :
        end = "done" /\ Has("init") /\ opts["init"] = f /\ Has("genesis_data") =>
            made[f].chain[1].data = FreeText(opts["genesis_data"])

\* A chain file that was written to its end can be read.
ChainReadsBack == \A f \in ChainFile : Written(f) => Loads(f)
=============================================================================
