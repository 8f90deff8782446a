------------------------------ MODULE MCTranslate ------------------------------
(* Instances of Translate: streams of up to three lines, requests and replies. *)
EXTENDS Translate, TLC

Line(data, done, json, choices, text, finish, prompt, comp) ==
  [data |-> data, done |-> done, json |-> json, id |-> 0, choices |-> choices, text |-> text,
   finish |-> finish, prompt |-> prompt, comp |-> comp]

MCText  == Line(TRUE, FALSE, TRUE, TRUE, 6, "", 0, 0)
MCStop  == Line(TRUE, FALSE, TRUE, TRUE, 0, "stop", 0, 0)
MCLast  == Line(TRUE, FALSE, TRUE, TRUE, 6, "stop", 5, 0)
MCUsage == Line(TRUE, FALSE, TRUE, FALSE, 0, "", 5, 7)
MCDone  == Line(TRUE, TRUE, FALSE, FALSE, 0, "", 0, 0)
MCPing  == Line(FALSE, FALSE, FALSE, FALSE, 0, "", 0, 0)
MCBare  == Line(FALSE, FALSE, TRUE, TRUE, 6, "", 0, 0)

MCLines ==
  [k \in StreamKinds |-> IF k = "relay" THEN {MCText, MCUsage, MCDone}
                         ELSE {MCText, MCStop, MCLast, MCUsage, MCDone, MCPing, MCBare}]

UpTo(n, S) == UNION {[1..k -> S] : k \in 0..n}

MCParts == {[type |-> "text", text |-> 1], [type |-> "text", text |-> 0], [type |-> "image", text |-> 0],
            [type |-> "tool_use", text |-> 2]}

MCMessages ==
  {[role |-> r, parts |-> ps] : r \in {"", "user", "model", "system", "function"}, ps \in UpTo(2, MCParts)}

MCRequests ==
  {[system |-> s, messages |-> ms] :
     s \in {<<>>, <<[type |-> "text", text |-> 1]>>, <<[type |-> "text", text |-> 3]>>},
     ms \in UpTo(1, MCMessages) \union (LET few == {m \in MCMessages : Len(m.parts) = 1} IN [1..2 -> few])}

MCReplies ==
  {[json |-> j, text |-> t, tools |-> ts, finish |-> f, prompt |-> u[1], comp |-> u[2], total |-> u[3],
    length |-> n, converted |-> 9, status |-> s, endpoint |-> e] :
     j \in BOOLEAN, t \in {0, 1}, ts \in {<<>>, <<8>>}, f \in {"stop", "length", "content_filter"},
     u \in {<<0, 0, 0>>, <<3, 2, 5>>, <<0, 0, 5>>, <<3, 2, 0>>}, n \in {2, 8}, s \in {200, 400},
     e \in {"chat", "embeddings", "moderations", "images"}}
===============================================================================
