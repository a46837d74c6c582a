--------------------------- MODULE RemoteRuleSet ---------------------------
(* A remote rule-set (route/rule/rule_set_remote.go): restored from the      *)
(* cache file at the start, fetched again by its loop with the Etag of the   *)
(* last answer, emptied when no rule refers to it.  The server and the crash *)
(* of the process are external; every update of the server carries an Etag   *)
(* of its own, or none does.                                                 *)
CONSTANTS Versions,  \* contents of the rule-set
          Nil,       \* no rules; no Etag
          Tagged     \* may the server send an Etag?

VARIABLES served,     \* the content at the server
          tagged,     \* the server sends Etags
          referenced, \* refs is not zero: IncRef runs before the loop starts
          status,     \* "down", "restored", "up" or "closed"
          rules,      \* s.rules: the content they come from, or Nil
          lastEtag,   \* s.lastEtag, as the content it was sent with
          fetch,      \* where the loop is in updateOnce
          response,   \* the answer it works on
          saved       \* the cache file: content and Etag

server == <<served, tagged>>
vars == <<server, referenced, status, rules, lastEtag, fetch, response, saved>>

NoAnswer == [code |-> 0, content |-> Nil, etag |-> Nil]
Unsaved == [content |-> Nil, etag |-> Nil]

TypeOK ==
  /\ served \in Versions
  /\ tagged \in BOOLEAN
  /\ referenced \in BOOLEAN
  /\ status \in {"down", "restored", "up", "closed"}
  /\ rules \in Versions \cup {Nil}
  /\ lastEtag \in Versions \cup {Nil}
  /\ fetch \in {"idle", "answered", "loaded", "done"}
  /\ response \in [code : {0, 200, 304}, content : Versions \cup {Nil}, etag : Versions \cup {Nil}]
  /\ saved \in [content : Versions \cup {Nil}, etag : Versions \cup {Nil}]

Init ==
  /\ served \in Versions
  /\ tagged \in Tagged
  /\ referenced \in BOOLEAN
  /\ status = "down"
  /\ rules = Nil
  /\ lastEtag = Nil
  /\ fetch = "idle"
  /\ response = NoAnswer
  /\ saved = Unsaved

-----------------------------------------------------------------------------
ServerUpdates ==
  /\ served' \in Versions \ {served}
  /\ UNCHANGED <<tagged, referenced, status, rules, lastEtag, fetch, response, saved>>

(* StartContext restores the saved content and its Etag, if there is one.    *)
(* An error (content that this version cannot read, no such detour) ends the *)
(* start of the whole instance, which is as if it had not begun.             *)
StartContext ==
  /\ status = "down"
  /\ status' = "restored"
  /\ rules' = saved.content
  /\ lastEtag' = saved.etag
  /\ UNCHANGED <<server, referenced, fetch, response, saved>>

PostStart ==
  /\ status = "restored"
  /\ status' = "up"
  /\ UNCHANGED <<server, referenced, rules, lastEtag, fetch, response, saved>>

(* Cleanup, once everything has started.                                     *)
Cleanup ==
  /\ status = "up"
  /\ ~referenced
  /\ rules' = Nil
  /\ UNCHANGED <<server, referenced, status, lastEtag, fetch, response, saved>>

(* The loop asks the server, which answers 304 to the Etag of what it has.   *)
(* A failed request leaves everything as it is.                             *)
FetchAnswered ==
  /\ status = "up"
  /\ fetch = "idle"
  /\ fetch' = "answered"
  /\ response' = IF lastEtag = served
                 THEN [code |-> 304, content |-> served, etag |-> Nil]
                 ELSE [code |-> 200, content |-> served, etag |-> IF tagged THEN served ELSE Nil]
  /\ UNCHANGED <<server, referenced, status, rules, lastEtag, saved>>

(* As if fetch took the Etag over before it has read the content.            *)
FetchLoadEarlyTag ==
  /\ fetch = "answered"
  /\ response.code = 200
  /\ lastEtag' = IF response.etag # Nil THEN response.etag ELSE lastEtag
  /\ \/ rules' = response.content /\ fetch' = "loaded" /\ UNCHANGED response
     \/ fetch' = "idle" /\ response' = NoAnswer /\ UNCHANGED rules
  /\ UNCHANGED <<server, referenced, status, saved>>

(* 200: loadBytes replaces the rules, unless the content cannot be read.     *)
FetchLoad ==
  /\ fetch = "answered"
  /\ response.code = 200
  /\ \/ rules' = response.content /\ fetch' = "loaded" /\ UNCHANGED response
     \/ fetch' = "idle" /\ response' = NoAnswer /\ UNCHANGED rules
  /\ UNCHANGED <<server, referenced, status, lastEtag, saved>>

(* Then the Etag is kept, when there is one, and content and Etag are saved; *)
(* a failing save is only logged.                                           *)
FetchSave ==
  /\ fetch = "loaded"
  /\ lastEtag' = IF response.etag # Nil THEN response.etag ELSE lastEtag
  /\ saved' \in {saved, [content |-> response.content, etag |-> lastEtag']}
  /\ fetch' = "done"
  /\ response' = NoAnswer
  /\ UNCHANGED <<server, referenced, status, rules>>

(* 304: only the time of the update is saved, with the saved content.        *)
FetchNotModified ==
  /\ fetch = "answered"
  /\ response.code = 304
  /\ fetch' = "done"
  /\ response' = NoAnswer
  /\ UNCHANGED <<server, referenced, status, rules, lastEtag, saved>>

(* updateOnce drops the rules again when nothing refers to them.             *)
UpdateDone ==
  /\ fetch = "done"
  /\ fetch' = "idle"
  /\ rules' = IF referenced THEN rules ELSE Nil
  /\ UNCHANGED <<server, referenced, status, lastEtag, response, saved>>

Close ==
  /\ status \in {"restored", "up"}
  /\ status' = "closed"
  /\ rules' = Nil
  /\ UNCHANGED <<server, referenced, lastEtag, fetch, response, saved>>

(* The process ends, and starts again with rules that may differ.            *)
Exit ==
  /\ status # "down"
  /\ status' = "down"
  /\ referenced' \in BOOLEAN
  /\ rules' = Nil
  /\ lastEtag' = Nil
  /\ fetch' = "idle"
  /\ response' = NoAnswer
  /\ UNCHANGED <<server, saved>>

Next ==
  \/ ServerUpdates
  \/ StartContext
  \/ PostStart
  \/ Cleanup
  \/ FetchAnswered
  \/ FetchLoad
  \/ FetchSave
  \/ FetchNotModified
  \/ UpdateDone
  \/ Close
  \/ Exit

Spec == Init /\ [][Next]_vars

-----------------------------------------------------------------------------
(* When the server answers that nothing was modified, a set that a rule      *)
(* refers to holds exactly what the server has: no unreadable content, lost  *)
(* save, crash between load and save, restart or Cleanup leaves it with an   *)
(* Etag for rules it does not hold, which would keep it out of date for good *)
(* (fetch's If-None-Match and its early return at http.StatusNotModified).   *)
(* It needs a server that sends an Etag with every content or with none:     *)
(* after a 200 without one, fetch keeps the Etag of the content before.      *)
NotModifiedTrue ==
  response.code = 304 /\ referenced /\ status = "up" => rules = response.content

(* The inductive invariant behind it: outside fetch, an Etag is that of the  *)
(* rules held and a saved one that of the content saved with it.             *)
EtagTells ==
  /\ lastEtag # Nil => tagged
  /\ saved.etag # Nil => tagged /\ saved.etag = saved.content
  /\ status \in {"down", "restored"} => fetch = "idle"
  /\ fetch \in {"idle", "done"} => response = NoAnswer
  /\ fetch = "loaded" => response.code = 200
  /\ response.code = 200 =>
       response.content # Nil /\ response.etag = (IF tagged THEN response.content ELSE Nil)
  /\ status \in {"restored", "up"} /\ referenced =>
       /\ fetch # "loaded" /\ lastEtag # Nil => rules = lastEtag
       /\ fetch = "loaded" => rules = response.content
  /\ NotModifiedTrue

RuleSetInv == TypeOK /\ EtagTells
=============================================================================
