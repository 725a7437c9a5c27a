----------------------------- MODULE MCPayloads -----------------------------
(* Packages of up to four members, and the trees their payloads may meet. *)
EXTENDS Payloads, TLC

FoldedNames == [n \in Names |-> IF n = "D" THEN "d" ELSE n]

Plain(p) ==
  [path |-> p, directory |-> FALSE, unix |-> TRUE, type |-> "file", mode |-> {},
   size |-> 1, stored |-> 1,
   content |-> [kind |-> "bytes", entrypoint |-> <<"run">>, context |-> "this"]]

Manifest(p) ==
  [Plain(<<"patch.json">>) EXCEPT !.content.kind = "manifest", !.content.entrypoint = p]

Document(name, context) ==
  [Plain(<<"META", name>>) EXCEPT !.content.kind = "handoff", !.content.context = context]

Leads == {<<Manifest(<<"run">>), Plain(<<"run">>)>>}

Shared == [Plain(<<"d", "a">>) EXCEPT !.unix = FALSE, !.mode = {"shared"}]

Good == {[Plain(<<"d", "a">>) EXCEPT !.mode = {"exec"}], Plain(<<"c">>), Shared}

Odd == {Plain(<<"D", "a">>), Plain(<<"d">>), Plain(<<"bad">>), Plain(<<"run">>),
        [Plain(<<"d">>) EXCEPT !.directory = TRUE, !.type = "directory", !.size = 0],
        [Plain(<<"c">>) EXCEPT !.mode = {"shared"}], [Plain(<<"c">>) EXCEPT !.stored = 2],
        [Plain(<<"c">>) EXCEPT !.size = 2, !.stored = 2],
        [Plain(<<"c">>) EXCEPT !.size = 3, !.stored = 3],
        [Plain(<<"c">>) EXCEPT !.type = "link"], [Plain(<<"c">>) EXCEPT !.stored = Nothing],
        Document("env", "this"), Document("chat", "this"), Document("chat", "that")}

Rest == {<<>>} \cup {<<m>> : m \in Good \cup Odd}
        \cup {<<m, n>> : m, n \in Good \cup Odd}

Archives == {l \o r : l \in Leads, r \in Rest}
       \cup {<<Plain(<<"run">>)>>, <<Manifest(<<"run">>)>>, <<Manifest(<<"bad">>), Plain(<<"c">>)>>,
             <<Manifest(<<"patch.json">>), Plain(<<"c">>)>>,
             <<Manifest(<<"META", "env">>), Document("env", "this"), Document("chat", "this")>>,
             <<Plain(<<"run">>), Plain(<<"c">>), Manifest(<<"run">>)>>}

Where == {<<"d">>, <<"d", "a">>, <<"D">>, <<"D", "a">>, <<"c">>}

Was(kind, mode) == Node(kind, 0, mode)
Foreign == [Node("file", 0, {}) EXCEPT !.stamp = 99]

Tree(d, a, c, behind) ==
  [k \in Places \X Where |->
     CASE k = <<"here", <<"d">>>> -> d
       [] k = <<"here", <<"d", "a">>>> -> a
       [] k = <<"here", <<"c">>>> -> c
       [] k = <<"elsewhere", <<"d", "a">>>> -> behind
       [] OTHER -> Missing]

Forest ==
  {Tree(d, Missing, c, Foreign) : d \in {Missing, Was("other", {}), Was("link", {})},
                                  c \in {Was("file", {"exec"})}}
  \cup {Tree(Was("directory", {}), a, c, behind) :
          a \in {Missing, Was("file", {"shared"}), Was("file", {"special"})},
          c \in {Missing, Was("file", {"exec"}), Was("link", {})},
          behind \in {Missing, Foreign}}
=============================================================================
