--------------------------- MODULE MCIdlResolution ---------------------------
(* One load of every kind, a load that evicts what it cannot use, and an idl command. *)
EXTENDS IdlResolution, TLC

CONSTANTS load, rival, user, code

MCIdl(parses, methods) == [parses |-> parses, methods |-> methods]
Full == MCIdl({"v1"}, {"get", "put"})
Partial == MCIdl({"v1"}, {"get"})
Modern == MCIdl({"v2"}, {"get", "put"})

NoFile == [state |-> "none", idl |-> NoIdl]
Text(idl) == [state |-> "text", idl |-> idl]
MCJob(kind, wants) == [kind |-> kind, code |-> code, file |-> NoFile, wants |-> wants, bundled |-> {}]
WithFile(job, file) == [job EXCEPT !.file = file]

MCLoads ==
  {MCJob("generic", <<"put">>), MCJob("watch", <<none>>), MCJob("eth", <<"put">>), MCJob("eth", <<none>>),
   MCJob("standard", <<"put">>), [MCJob("standard", <<"get">>) EXCEPT !.bundled = {Full, Partial}],
   MCJob("session", <<"get", "put">>), WithFile(MCJob("generic", <<"put">>), Text(Partial)),
   WithFile(MCJob("watch", <<none>>), [NoFile EXCEPT !.state = "unreadable"])}
MCRivals == {MCJob("standard", <<"put">>), MCJob("eth", <<"get">>)}
MCUsers ==
  {MCJob(kind, <<>>) : kind \in {"remove", "preview", "clear"}}
    \cup {WithFile(MCJob("import", <<>>), Text(idl)) : idl \in {NoIdl, Partial, Modern}}
    \cup {WithFile(MCJob("importByProgram", <<>>), Text(Full))}
MCAssignments ==
  {(load :> l) @@ (rival :> r) @@ (user :> u) : l \in MCLoads, r \in MCRivals, u \in MCUsers}

MCCaches == {[c \in Codes |-> entry] : entry \in {Absent, Corrupt, Cached(Full, "import"), Cached(Partial, "import")}}
MCSections ==
  {[c \in Codes |-> embedded] :
     embedded \in {[state |-> "idl", idl |-> Full], [state |-> "idl", idl |-> Modern],
                   [state |-> "no-section", idl |-> NoIdl],
                  [state |-> "malformed", idl |-> NoIdl]}}
=============================================================================
