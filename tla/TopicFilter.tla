----------------------------- MODULE TopicFilter -----------------------------
(***************************************************************************)
(* topicMatchesFilter() of MqttSubscriber, its loop as a state machine,    *)
(* against what MQTT 3.1.1, section 4.7, says in terms of levels.          *)
(***************************************************************************)
EXTENDS Naturals, SequencesExt

CONSTANTS
  Letters,     \* the characters that are not special
  MaxTopic,    \* bound: the length of a topic
  MaxFilter    \* bound: the length of a filter

ASSUME LettersAssumption == Letters \cap {"/", "+", "#"} = {}
ASSUME LengthsAssumption == MaxTopic \in Nat /\ MaxFilter \in Nat

VARIABLES
  topic,
  filter,
  ti,          \* where the loop is in topic, from 1
  fi,          \* where it is in filter
  matched      \* what the function returned: "yes", "no", or "none" as yet

vars == <<topic, filter, ti, fi, matched>>

Strings(chars, n) == UNION {[1 .. k -> chars] : k \in 1 .. n}

----------------------------------------------------------------------------
(* MQTT 4.7: a string is a list of levels between slashes, some empty; "+" *)
(* stands for one level, "#" at the end for any number of them, none       *)
(* included.                                                               *)

Char == Letters \cup {"/", "+", "#"}
Text == Seq(Char)

Levels[s \in Text] ==
  IF s = <<>> THEN <<<<>>>>
  ELSE IF Head(s) = "/" THEN <<<<>>>> \o Levels[Tail(s)]
  ELSE [Levels[Tail(s)] EXCEPT ![1] = <<Head(s)>> \o @]

ValidFilter(f) ==
  LET fl == Levels[f] IN
  \A n \in DOMAIN fl :
    /\ "+" \in ToSet(fl[n]) => fl[n] = <<"+">>
    /\ "#" \in ToSet(fl[n]) => fl[n] = <<"#">> /\ n = Len(fl)

LevelsMatch(tl, fl, n) == \A k \in 1 .. n : fl[k] = <<"+">> \/ fl[k] = tl[k]

MqttMatches(t, f) ==
  LET tl == Levels[t]
      fl == Levels[f]
      n  == Len(fl)
  IN IF fl[n] = <<"#">>
       THEN Len(tl) >= n - 1 /\ LevelsMatch(tl, fl, n - 1)
       ELSE Len(tl) = n /\ LevelsMatch(tl, fl, n)

----------------------------------------------------------------------------
Init ==
  /\ topic \in Strings(Letters \cup {"/"}, MaxTopic)
  /\ filter \in {f \in Strings(Char, MaxFilter) : ValidFilter(f)}
  /\ ti = 1 /\ fi = 1
  /\ matched = "none"

InLoop == matched = "none" /\ fi <= Len(filter) /\ ti <= Len(topic)

Return(r) == matched' = r /\ UNCHANGED <<topic, filter, ti, fi>>

Hash == InLoop /\ filter[fi] = "#" /\ Return("yes")

PlusToEnd ==   \* a mutant: "+" runs over slashes
  /\ InLoop /\ filter[fi] = "+"
  /\ ti' = Len(topic) + 1 /\ fi' = fi + 1
  /\ UNCHANGED <<topic, filter, matched>>

(* Everything up to the next slash, or to the end.                         *)
Plus ==
  /\ InLoop /\ filter[fi] = "+"
  /\ LET slashes == {j \in ti .. Len(topic) : topic[j] = "/"}
     IN ti' = IF slashes = {} THEN Len(topic) + 1
                              ELSE CHOOSE j \in slashes : \A k \in slashes : j <= k
  /\ fi' = fi + 1
  /\ UNCHANGED <<topic, filter, matched>>

Same ==
  /\ InLoop /\ filter[fi] = topic[ti]
  /\ ti' = ti + 1 /\ fi' = fi + 1
  /\ UNCHANGED <<topic, filter, matched>>

Different == InLoop /\ filter[fi] \notin {"#", "+", topic[ti]} /\ Return("no")

AtEnds == fi > Len(filter) /\ ti > Len(topic)

FinishStrict ==   \* a mutant: "#" is looked at in the loop only
  /\ matched = "none" /\ ~InLoop
  /\ Return(IF AtEnds THEN "yes" ELSE "no")

(* One of the two is at its end: the filter may have a "#" left.           *)
Finish ==
  /\ matched = "none" /\ ~InLoop
  /\ Return(IF AtEnds \/ (fi <= Len(filter) /\ filter[fi] = "#") THEN "yes" ELSE "no")

Next == Hash \/ Plus \/ Same \/ Different \/ Finish

Spec == Init /\ [][Next]_vars

----------------------------------------------------------------------------
(* A message is given only to a callback whose filter it matches.          *)
NeverTooMuch == matched = "yes" => MqttMatches(topic, filter)

(* A match is missed in two cases, always in these and never in others:    *)
(* the topic is the parent level of a filter that ends in "#", or it ends  *)
(* in an empty level where the filter has a "+".                           *)
MissesTwoCases ==
  matched # "none" /\ MqttMatches(topic, filter) =>
    LET tl == Levels[topic]
        fl == Levels[filter]
    IN matched = "no" <=> \/ Len(fl) = Len(tl) + 1 /\ fl[Len(fl)] = <<"#">>
                          \/ tl[Len(tl)] = <<>> /\ Len(fl) >= Len(tl) /\ fl[Len(tl)] = <<"+">>

(* "MQTT wildcard filter matching (RFC 4.7)": the function says yes to     *)
(* everything that section 4.7 of MQTT calls a match.                      *)
MatchesMqtt == matched = "no" => ~MqttMatches(topic, filter)

=============================================================================
