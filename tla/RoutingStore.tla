---------------------------- MODULE RoutingStore ----------------------------
(* What routing keeps in the cache file, each for itself: the rules of a     *)
(* remote rule-set, and the selection of a selector group.                   *)
CONSTANTS
  Nil,
  Versions, Tagged,                                     \* RemoteRuleSet
  Selections, Conns, SelectorTags, Default, InterruptExternal   \* Selector

VARIABLES
  served, tagged, referenced, status, rules, lastEtag, fetch, response, saved,
  selected, stored, selecting, tag, via, conn, external, late, raced, interruptExternal

ruleVars == <<served, tagged, referenced, status, rules, lastEtag, fetch, response, saved>>
selVars == <<selected, stored, selecting, tag, via, conn, external, late, raced, interruptExternal>>

R == INSTANCE RemoteRuleSet
S == INSTANCE Selector WITH Callers <- Selections, Tags <- SelectorTags

(* "Not modified" is said of the rules that are held (fetch of               *)
(* route/rule/rule_set_remote.go).                                           *)
NotModifiedTrue == R!NotModifiedTrue

(* No connection is left behind on a deselected outbound (SelectOutbound of  *)
(* protocol/group/selector.go).                                              *)
NoStaleConn == S!NoStaleConn

(* A restart finds the selection (Start and SelectOutbound of the selector). *)
SelectionKept == S!SelectionKept
=============================================================================
