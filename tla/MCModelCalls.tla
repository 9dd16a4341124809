------------------------------ MODULE MCModelCalls ------------------------------
(***************************************************************************)
(* Two calls on one file of three lines, of which somebody edits the       *)
(* middle one.  The tasks are an extraction the model may escalate, a      *)
(* change it may draft a patch for and one it may not; the                 *)
(* drafts hold duplicate, nested, overlapping and invented replacements.   *)
(***************************************************************************)
EXTENDS ModelCalls, TLC

Extraction == [fired |-> {"extraction"}, mutation |-> FALSE, size |-> 1]
Change == [fired |-> {}, mutation |-> TRUE, size |-> 2]
Hardening == [fired |-> {"security"}, mutation |-> TRUE, size |-> 1]

MCAsked ==
    {[task |-> Extraction, q |-> [Plain EXCEPT !.available = {"ollama"}]],
     [task |-> Extraction, q |-> [Plain EXCEPT !.over = {"input"}]]}
MCPrepared ==
    {[task |-> Change, alias |-> "none"], [task |-> Change, alias |-> "known"],
     [task |-> Hardening, alias |-> "unknown"]}

Profile(role, device, gate) == [role |-> role, device |-> device, gate |-> gate]
Uncleared == <<Profile("embedding", "gpu", TRUE), Profile("classification", "cpu", TRUE),
               Profile("classification", "npu", FALSE)>>
Process(backend, profiles, models) ==
    [backend |-> backend, profiles |-> profiles, permitted |-> {"npu", "gpu"},
     shadow |-> models]
MCConfig ==
    {Process("composer", <<>>, {"small", "medium"}),
     Process("local", Append(Uncleared, Profile("classification", "gpu", TRUE)), {"small", "medium"}),
     Process("local", Uncleared, {"medium"})}

MCLine == {2}
MCExcerpt == "shown" :> {1, 2, 3} @@ "short" :> {1}
Replace(source, find) == [source |-> source, find |-> find, replace |-> "new"]
MCDraft ==
    {<<Replace("shown", {1, 2}), Replace("shown", {1, 2}), Replace("shown", {3})>>,
     <<Replace("shown", {1, 2}), Replace("shown", {2, 3})>>,
     <<Replace("shown", {1}), Replace("shown", {1, 2})>>,
     <<Replace("short", {2}), Replace("shown", {2})>>,
     <<>>}
=============================================================================
