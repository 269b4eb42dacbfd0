---------------------------- MODULE MCPythonMemory ----------------------------
(***************************************************************************)
(* Python runs for a place in its worker processes and in the interpreter  *)
(* inside the place.  The two share nothing that either module models, so  *)
(* a behaviour is one of the workers or one of the interpreter.            *)
(***************************************************************************)
EXTENDS WorkerMemory, EmbeddedPython

VARIABLE side

vars == <<adapterVars, pythonVars, side>>

Init ==
  /\ side \in {"workers", "embedded"}
  /\ AdapterInit /\ PythonInit
  /\ side = "workers" => frame.script = "integratePython" /\ frame.chunk.closures = 0

Next ==
  \/ side = "workers" /\ AdapterNext /\ UNCHANGED <<pythonVars, side>>
  \/ side = "embedded" /\ PythonNext /\ UNCHANGED <<adapterVars, side>>

Spec == Init /\ [][Next]_vars
=============================================================================
