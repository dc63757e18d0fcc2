------------------------------ MODULE MCValidator ------------------------------
(***************************************************************************)
(* Instance of Validator: right and wrong accounts and boxes, and lines    *)
(* that name nothing. The accounts lose a resource and an auth address.    *)
(***************************************************************************)
EXTENDS Validator

Asset(id, n) == [id |-> id, data |-> n, deleted |-> FALSE]
Account(amount, auth, rewards, pending, list) ==
    [amount |-> amount, auth |-> auth, rewards |-> rewards, pending |-> pending,
     list |-> list, deleted |-> FALSE]

Life == <<Account(1, {"other"}, 1, 1, {Asset(1, 1)}), Account(2, {}, 2, 0, {})>>
End  == <<Account(3, {}, 0, 0, {Asset(1, 1), Asset(2, 2)}), Account(0, {}, 0, 0, {})>>

MCInputs == {<<>>, <<"life", "text", "other">>, <<"box", "wrongBox">>, <<"rich", "kept">>,
             <<"end", "owned">>}
MCKind == [life |-> "address", end |-> "address", rich |-> "address", kept |-> "address",
           owned |-> "address", box |-> "box", wrongBox |-> "box", text |-> "undecodable",
           other |-> "invalid"]
MCCuts == [line \in DOMAIN MCKind |->
             {IF MCKind[line] = "box" THEN "other" ELSE "text"}]
MCHistory == [life |-> Life, rich |-> Life, kept |-> Life, owned |-> Life, end |-> End,
              box |-> <<1, 2>>, wrongBox |-> <<1, 2>>]

(* Accounts with a wrong amount, without what they hold, with what they no  *)
(* longer hold, and with the own address as auth address.                  *)
MCShown ==
    [line \in DOMAIN MCHistory |-> [round \in 1 .. 2 |->
       LET right == Right(line, round)
       IN  CASE line \in {"life", "box"} -> right
             [] line = "wrongBox" -> right + 10
             [] line = "rich" -> [right EXCEPT !.amount = @ + 10]
             [] line = "end" -> [right EXCEPT !.list = Gone(line, round)]
             [] line = "kept" ->
                  [right EXCEPT !.list = {[x EXCEPT !.deleted = FALSE] : x \in @}]
             [] line = "owned" -> [right EXCEPT !.auth = {Self}]]]
MCProcessors == {"Struct", "Dynamic"}
=============================================================================
