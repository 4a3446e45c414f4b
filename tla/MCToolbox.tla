------------------------------ MODULE MCToolbox ------------------------------
(***************************************************************************)
(* Instances of Toolbox for TLC.                                           *)
(***************************************************************************)
EXTENDS Toolbox, TLC

Chains == {"chain.blk", "my.blk"}
Wallets == {"my.wal"}
Texts == {<< "default" >>, << "mine" >>, << "two", "lines" >>}

Names == {"my.blk", "chain.blk"}

\* The first key is that of a wallet created first, the second that of one
\* created after a chain was.
Inits ==
    {"init" :> "my.blk"}
    \union {"init" :> "my.blk" @@ "wal_address" :> a @@ "amount" :> 5 : a \in {Short, Odd, 2}}
    \union {"init" :> "" @@ "wal_address" :> 1 @@ "amount" :> x : x \in {Unparsable, 5}}
    \union {"init" :> "my.blk" @@ "genesis_block" :> << "two", "lines" >>
                @@ "wal_address" :> 1 @@ "amount" :> 5}
Reads ==
    {"wallet" :> "my.wal" @@ "print_transaction" :> n : n \in {""} \union Names}
    \union {"chain" :> n : n \in Names}
Mixed == {"create" :> "my.wal", "help" :> "", << >>,
          "create" :> "my.wal" @@ "wallet" :> "my.wal",
          "init" :> "my.blk" @@ "wal_address" :> 2 @@ "amount" :> 5 @@ "create" :> "my.wal"
            @@ "wallet" :> "my.wal" @@ "print_transaction" :> "my.blk" @@ "chain" :> "my.blk"}
AllLines == Inits \union Reads \union Mixed

\* Command lines from the help text.
FromHelp == {"init" :> "", "init" :> "my.blk"}
FromHelpData == {"init" :> "my.blk" @@ "genesis_data" :> << "mine" >>}
DefaultGenesis == << "default" >>
=============================================================================
