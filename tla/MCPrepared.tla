------------------------------ MODULE MCPrepared ------------------------------
(* Small instances of a prepared artifact: its bytes (ArtifactLayout) and   *)
(* the three stations of Prepared.  The bytes move in a part of their own.   *)
EXTENDS Prepared, ArtifactLayout, TLC

CONSTANT First

\* Section tables: one that may stand, one with an unknown required section,
\* and one with a companion but no ngram section.
Kind(k) == [kind |-> k, required |-> TRUE]
Heading == <<Kind("config"), Kind("build"), Kind("records"), Kind("ids")>>
TableKinds ==
  {Append(Heading, Kind("ngram")), Append(Heading, Kind("unknown")),
   Append(Heading, Kind("exact")) \o <<Kind("companion")>>}

\* Up to two records: IDs of which one is a prefix of another and one is not
\* valid text; no keys, null keys, one key, and an empty key before another.
RecordContents ==
  {r \in [id : {<<1>>, <<1, 2>>, <<0>>}, null : BOOLEAN,
          keys : {<<>>, <<<<1>>>>, <<<<>>, <<2>>>>}, payload : {<<>>, <<2>>}] :
     r.null => r.keys = <<>>}
RecordLists ==
  {<<>>} \cup {<<r>> : r \in RecordContents} \cup {<<r, s>> : r, s \in RecordContents}

ExactIndexes == {<<>>, (<<1>> :> <<1>>), (<<1>> :> <<0>>) @@ (<<1, 2>> :> <<1>>)}

NgramIndexes ==
  UNION {[D -> SUBSET (0 .. MaxOrd - 1) \ {{}}] : D \in SUBSET {<<1>>, <<1, 2>>}}

\* A sealed artifact that verifies; its header names what it holds.
Intact(f) == M!Sealed(f) /\ f.size = 1 /\ f.img = [head |-> First, body |-> First]

\* The files start out valid; edits, which may come first, do the rest.
\* A layout that does not move is an empty section.
MCInit ==
  /\ part \in {"layout", "publish", "map", "serve"}
  /\ IF part = "layout" THEN LayoutInit
     ELSE section = "records" /\ step = "count" /\ want = Foreign /\ read = EmptyRecords(0)
  /\ Init
  /\ \A i \in Inodes : Intact(file[i])

\* Bound: one of the files changes its mode and length, the other only its bytes.
Changing == CHOOSE i \in Inodes : TRUE
EditBound ==
  \A i \in Inodes \ {Changing} : file'[i].mode = file[i].mode /\ file'[i].size = file[i].size

MCNext ==
  \/ part = "layout" /\ LayoutNext /\ UNCHANGED vars
  \/ Next /\ EditBound /\ UNCHANGED layoutVars

\* A station that does not move has no fair action enabled.
MCSpec == MCInit /\ [][MCNext]_<<layoutVars, vars>> /\ M!Fairness /\ S!Fairness
=============================================================================
