------------------------------- MODULE MCTask -------------------------------
(* ShTask on small instances; one cfg per question.                         *)
EXTENDS ShTask, TLC
MCLibOf == [k \in Task |-> CHOOSE l \in Lib : TRUE]
MCName == CHOOSE k \in ByName : TRUE

MCHooks == {[task |-> Task, may |-> {}]}
MCRecorded == {[task |-> Task, may |-> {"record"}]}
MCAll == {
  [task |-> ByName, may |-> {"load fails"}],
  [task |-> (Task \ ByName) \cup {MCName}, may |-> {"record"}],
  [task |-> {}, may |-> MAY \ {"callbacks"}],
  [task |-> Task \ {MCName}, may |-> {"disable", "open again"}],
  [task |-> {}, may |-> {"callbacks", "load fails", "open again"}],
  [task |-> Task \ ByName, may |-> {"callbacks"}]}
=============================================================================
