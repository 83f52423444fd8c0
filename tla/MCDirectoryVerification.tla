------------------------ MODULE MCDirectoryVerification ------------------------
(***************************************************************************)
(* Small artifacts for TLC: a manifest, a declared file, and, in a folder,  *)
(* a log that need not be listed; or the declared file in a folder, where  *)
(* nothing else may be.                                                    *)
(***************************************************************************)
EXTENDS DirectoryVerification

Manifest == "ARTIFACT_PROOF.json"
Names == <<Manifest, "app.db", "logs/run">>
MoreNames == Append(Names, "tmp")

DeepNames == <<Manifest, "data/app.db", "data/tmp">>

FolderTable ==
    [p \in Paths |-> CASE p = "logs/run"                    -> <<"logs">>
                       [] p \in {"data/app.db", "data/tmp"} -> <<"data">>
                       [] OTHER                             -> <<>>]

SpecOf(d, mutable) == [sha256 |-> d, mutable |-> mutable]

Check(profiles, reads, holds) == [profiles |-> profiles, reads |-> reads, holds |-> holds]

Contract(files, complete, allowed, checks) ==
    [files |-> files, complete_coverage |-> complete, allow_unlisted |-> allowed,
     checks |-> checks]

Both == {"sealed", "live"}

\* A database whose contents are frozen when sealed and may be either of two
\* in a live artifact, read again by a check.
LiveContract ==
    Contract("app.db" :> SpecOf("old", TRUE), TRUE, {"logs/run"},
             <<Check(Both, <<"app.db">>, {<<"old">>, <<"new">>})>>)

\* A database in a folder, and nothing else.
DeepContract ==
    Contract("data/app.db" :> SpecOf("old", FALSE), TRUE, {},
             <<Check(Both, <<"data/app.db">>, {<<"old">>})>>)

\* Two declared files that a check wants to be the same, nothing else allowed.
PairContract ==
    Contract(("app.db" :> SpecOf("old", TRUE)) @@ ("logs/run" :> SpecOf("old", FALSE)), TRUE, {},
             <<Check({"live"}, <<"app.db", "logs/run">>, {<<"old", "old">>}),
               Check({"sealed"}, <<"logs/run", "app.db">>, {<<"old", "old">>, <<"new", "new">>})>>)

\* Nothing declared, everything allowed.
OpenContract == Contract(<<>>, FALSE, {}, <<>>)

Contents3 == {"live", "old", "new"}
Contents2 == {"deep", "old"}
Contents6 == Contents3 \cup {"pair", "open", "big"}

ParseTable ==
    [d \in Contents6 \cup Contents2 |->
        CASE d = "live" -> LiveContract
          [] d = "deep" -> DeepContract
          [] d = "pair" -> PairContract
          [] d = "open" -> OpenContract
          [] OTHER      -> None]

SizeTable ==
    [d \in Contents6 \cup Contents2 |-> IF d = "big" THEN 3 ELSE IF d = "open" THEN 2 ELSE 1]

\* A manifest is larger than a file put in its place, and fills up the total.
UnevenSizes == [SizeTable EXCEPT !["live"] = 2]

OneDirectory == {(Manifest :> "live") @@ ("app.db" :> "old") @@ ("logs/run" :> "old")}

DeepDirectory == {(Manifest :> "deep") @@ ("data/app.db" :> "old")}

\* Every directory of up to three files, and one of four.
EveryDirectory ==
    UNION {[S -> Contents6] : S \in SUBSET ToSet(Names)} \cup {[p \in Paths |-> "live"]}
=============================================================================
