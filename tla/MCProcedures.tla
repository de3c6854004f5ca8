------------------------------ MODULE MCProcedures ------------------------------
(* A small instance of Procedures.                                          *)
EXTENDS Procedures, TLC

MCCatalogs ==
  [id |-> "c", kind |-> "CATALOGS", complete |-> TRUE, artifacts |-> [a |-> "PRESENT"],
   tools |-> [t |-> [available |-> "PRESENT", authorized |-> "PRESENT"]],
   validators |-> [v |-> "PRESENT"]]

MCSources ==
  {MCCatalogs,
   [id |-> "s", kind |-> "SNAPSHOT", family |-> "f", binds |-> {"c"}],
   [id |-> "t", kind |-> "SNAPSHOT", family |-> "f", binds |-> {"c"}]} \cup
  {[id |-> "e", kind |-> "PLAIN", artifact |-> [content |-> "d", media |-> "text/plain"]],
   [id |-> "f", kind |-> "PLAIN", artifact |-> [content |-> "d", media |-> "text/html"]]}

MCProfiles ==
  {[id |-> "w", assertions |-> {[capability |-> "k", status |-> "VERIFIED", snapshot |-> "s"]}]}

MCStep(order, id, inputs, outputs, needs) ==
  [id |-> id, order |-> order, inputs |-> inputs, outputs |-> outputs, needs |-> needs,
   tools |-> {"t"}, authorities |-> {"RUN_REGISTERED_TOOL"}, validator |-> "v", criteria |-> TRUE,
   capabilities |-> {"k"}, category |-> "exploration", cost |-> 1, retries |-> {}]

MCMethod(steps) ==
  [steps |-> steps, expects |-> {"b"}, claims |-> {}, verified |-> TRUE, balanced |-> TRUE]

(* The second step uses what the first makes; in one method it waits for it.*)
MCMethods ==
  {MCMethod(<<MCStep(1, "x", {"a"}, {"b"}, {}), MCStep(2, "y", {"b"}, {}, {"x"})>>),
   MCMethod(<<MCStep(1, "x", {"a"}, {"b"}, {}), MCStep(2, "z", {"b"}, {}, {})>>)}

MCReserves == [c \in BudgetCategories |-> IF c = "exploration" THEN 2 ELSE 0]
=============================================================================
