------------------------------ MODULE MCLibrary -------------------------------
(* Small instances of Library. *)
EXTENDS Library

\* Every graph of three nodes, and some with powers, four nodes and bad shapes.
Op(args) == <<"z", "function", "add">>[Len(args) + 1]
Lists == UNION {[1..k -> 1..3] : k \in 0..2}
Node(op, args) == [op |-> op, args |-> args]
MCDags ==
  { [nodes |-> [n \in 1..3 |-> Node(Op(edges[n]), edges[n])], roots |-> roots] :
      edges \in [1..3 -> Lists], roots \in {<<1>>, <<2, 3>>, <<3, 1>>, <<3>>} }
  \cup
  { [nodes |-> << Node("z", <<>>), Node("one", <<>>), Node("pow", <<1, 2>>), Node("pow", <<2, 1>>) >>,
     roots |-> <<3, 4>>],
    [nodes |-> << Node("z", <<>>), Node("one", <<>>), Node("add", <<1, 2>>), Node("add", <<2, 1>>) >>,
     roots |-> <<3, 4>>],
    [nodes |-> << Node("pow", <<2>>), Node("pi", <<>>) >>, roots |-> <<1>>],
    [nodes |-> << Node("mul", <<>>) >>, roots |-> <<1>>],
    [nodes |-> << Node("add", <<1, 5>>) >>, roots |-> <<1>>],
    [nodes |-> << Node("z", <<>>), Node("z", <<>>) >>, roots |-> <<1, 2>>],
    [nodes |-> <<>>, roots |-> <<>>] }

MCMus == {-1, 1, 3}
MCBuiltin == [exp |-> <<1, 2, 1>>, sine |-> <<1, 1, -3>>]
\* One that equals the catalog's, one whose B1 is negative, one not normalized.
MCSupplied == {<<1, 2, 1>>, <<1, -1, 2>>, <<2, 1, 0>>}
MCEnclosure ==
  [q \in Property \X {"in", "out", "edge"} |->
     IF q[2] = "edge" THEN Nothing
     ELSE IF q[1] = "starlike" THEN (IF q[2] = "out" THEN <<-2, 0>> ELSE <<-1, 1>>)
     ELSE IF q[2] = "out" THEN <<2, 3>> ELSE <<1, 2>>]

-----------------------------------------------------------------------------
(* The radius registry *)

E(value, spelling) == [form |-> "exact", value |-> value, spelling |-> spelling]
Display == [form |-> "display", value |-> 5, spelling |-> 1]
Huge == [form |-> "huge", value |-> 0, spelling |-> 1]
Row(s, t, status, exact, decimal, paper) ==
  [source |-> s, target |-> t, status |-> status, exact |-> exact, decimal |-> decimal, paper |-> paper]
MCRows == {
  Row("sine", "tanh", "paper_proved_exact", E(1, 2), "0.86", "Theorem 4.6"),
  Row("tanh", "sine", "touch_proven_exact", E(2, 1), "0.9", None),
  Row("order", "crescent", "touch_proven_exact", E(3, 2), "0.58", None),
  Row("crescent", "exponential", "paper_proved_exact", E(4, 1), "0.84", "Theorem 4.4"),
  Row("crescent", "sine", "audit_required", Display, "0.3", None),
  Row("sine", "sine", "unidentified", None, "0.5", None) }
Lane(baked, exact, decimal, steps) == [baked |-> baked, exact |-> exact, decimal |-> decimal, steps |-> steps]
MCLanes == <<"sine", "tanh">> :> Lane("closed_form_confirmed", E(1, 1), "0.867", 2)
        @@ <<"order", "crescent">> :> Lane("touch_proven_exact", E(3, 1), "0.586", 3)
MCChain == <<"sine", "tanh">> :> <<TRUE, TRUE>> @@ <<"order", "crescent">> :> <<TRUE, FALSE, TRUE>>
        @@ <<"crescent", "exponential">> :> <<TRUE, TRUE, TRUE>>
MCPaper == <<"crescent", "exponential">> :> E(4, 2)
MCCandidates == {None, E(1, 3), E(4, 3), E(3, 3), Display, Huge}
A == [source |-> "sine", target |-> "tanh", baked |-> "closed_form_confirmed", exact |-> E(1,1), decimal |-> "0.867", machine |-> "proven", steps |-> 2]
MCOtherFields ==
  [source |-> {"tanh"}, target |-> {"sine"}, exact |-> {None, E(1, 1), E(2, 1)}, decimal |-> {None, "0.867"},
   status |-> {"touch_proven_exact"}, text |-> {"", "lane"}, provenance |-> {"fixture", "edited"}, paper |-> {None},
   certificate |-> {None, A, [A EXCEPT !.exact = E(2, 1)], [A EXCEPT !.decimal = "0.9"]}]
MCOtherKeys ==
  [canonical |-> {<<"sine", "tanh">>, <<None, "tanh">>}, inner |-> {"tanh"},
   value_exact |-> {None, E(2, 1)}, radius |-> {E(1, 1)}, decimal |-> {"0.867"},
   status |-> {"touch_proven_exact", "unknown"}, text |-> {"lane"}, provenance_detail |-> {"fixture"}, paper |-> {None},
   certificate |-> {None, A, [A EXCEPT !.machine = "skipped"], [source |-> "sine"]}]

-----------------------------------------------------------------------------
(* The packaged artifacts *)

MCClassCoeffs == [bell |-> <<2, 1, 3>>, booth |-> <<1, -1, 2>>]
Functionals == [family : {"hankel2_2", "inv_a3", "log_gamma2", "zalcman_a2a3_a4", "hankel3_1"}, mu : {0}]
              \cup [family : {"fekete_szego"}, mu : {1, 4}]
Gammas == {<<0, 1>>, <<1, 0>>, <<-1, 0>>, <<0, 1, 0>>, <<0, -1, 1>>, <<0, 0, 1>>}
Attained(class, functional, gammas) ==
  ValueAt(functional, ExtremalMember(MCClassCoeffs[class], gammas))
Cert(class, functional, gammas, candidate, slack, status, proven) ==
  [class |-> class, functional |-> functional, gammas |-> gammas,
   status |-> status, proven |-> proven, bound |-> Attained(class, functional, gammas) + slack,
   candidate |-> [form |-> candidate, value |-> Attained(class, functional, gammas)]]
MCRecords ==
  {Cert("bell", f, g, "exact", 0, "PROVED", TRUE) : f \in Functionals, g \in Gammas}
  \cup {Cert("booth", f, g, "exact", 0, "PROVED", FALSE) : f \in Functionals, g \in {<<1, 0>>, <<0, -1, 1>>}}
  \cup LET f == [family |-> "inv_a3", mu |-> 0]
           c == Cert("bell", f, <<0, 1>>, "float", 6, "PROVED", TRUE) IN
       {c, [c EXCEPT !.status = "NUMERICAL"], [c EXCEPT !.bound = Unset], [c EXCEPT !.bound = 0],
        [c EXCEPT !.candidate.value = 1], [c EXCEPT !.candidate.form = "none"],
        [c EXCEPT !.candidate.form = "malformed"], [c EXCEPT !.gammas = <<>>], [c EXCEPT !.gammas = <<0, Unset>>]}
MCCertificates == [c \in MCRecords |-> c]

-----------------------------------------------------------------------------
(* The command *)

MCTour == <<"sine", "tanh">>
\* Every command with and without --json, and three of them in all the other ways.
MCArguments ==
  [command : Commands, json : {"none", "--json"}, shape : {"good"}, reader : {"open"}]
  \cup [command : {"radius", "class", "lab"}, json : {"none", "--json", "--js"},
        shape : {"good", "wrong", "help"}, reader : {"open", "gone"}]
=============================================================================
