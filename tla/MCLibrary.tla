------------------------------- MODULE MCLibrary -------------------------------
(***************************************************************************)
(* The inputs of the parts on a small instance: each set has at least one     *)
(* member for every case the code tells apart.                             *)
(***************************************************************************)
EXTENDS LibraryProps, SequencesExt

CONSTANTS x, y, g1, g2, g3, u1, u2, r1, napcat

\* No endpoint, each shape alone, and both with different models.
MCAnswers == {<<Failed, Failed>>, <<{x, y}, Failed>>, <<{}, {x, y}>>, <<{x}, {y}>>}

\* Lines of one to three tokens; one line, or the last of several, over budget.
MCTexts == UNION {[1..n -> 1..3] : n \in 0..3} \cup {<<5>>, <<1, 5>>, <<5, 1>>, <<1, 5, 2, 1>>}

MCFiles ==
    {[front |-> f, sections |-> s] :
        f \in {0, 1, 5},
        s \in UNION {[1..n -> [tokens : 1..3, heading : BOOLEAN]] : n \in 0..2}
              \cup {<<[tokens |-> 3, heading |-> FALSE], [tokens |-> 1, heading |-> TRUE], [tokens |-> 2, heading |-> FALSE]>>}}

MCLogs ==
    {[log |-> l, fallback |-> f] :
        l \in UNION {[1..n -> [type : {"created", "deleted", "command", "bot"}, tokens : {0, 2, 3}]] : n \in 0..2},
        f \in {<<>>, <<2>>, <<4, 4>>, <<0, 3, 2>>}}

\* Tool results small, oversized in one block or in two, before and after
\* answers.
MCHistories ==
    LET answer == [role |-> "assistant", blocks |-> <<>>]
        result(b) == [role |-> "toolResult", blocks |-> b]
        results == {result(b) : b \in {<<2>>, <<9>>, <<7, 5>>, <<1, 8>>, <<20>>, <<9, 9>>}}
    IN  {t \o <<answer, answer, answer>> : t \in UNION {[1..n -> results] : n \in 0..3}}
        \cup {<<r, answer, q, answer, answer, r>> : r, q \in results}
        \cup {<<r, answer, answer>> : r \in results}

\* West and east of Greenwich, clocks put forward or back about midnight, and
\* zones that keep their offset.
MCZones ==
    {[before |-> b, after |-> b + c, at |-> 16 - b + t] : b \in {-2, 2}, c \in {-2, 2}, t \in -2..1}
        \cup {[before |-> b, after |-> b, at |-> 0] : b \in {-2, 2}}

Token(kind, who) == [kind |-> kind, at |-> who]
Word == Token("word", "none")
Mention(who) == Token("mention", who)
Command(who) == Token("command", who)

\* NapCat: with and without text, replies, mentions, the bot's own, nothing.
MCSegments ==
    LET text(tokens) == [type |-> "text", tokens |-> tokens]
        mention(who) == [type |-> "at", who |-> who]
        reply(id) == [type |-> "reply", id |-> id]
        image == [type |-> "image"]
        document == [type |-> "file"]
        message(segments) == [segments |-> segments, raw |-> <<Word>>, own |-> FALSE]
    IN  {message(m) : m \in {<<text(<<Word>>), image, text(<<Command("none")>>)>>, <<mention("me"), text(<<Command("none")>>)>>,
                             <<mention("other"), document>>, <<mention("me")>>}
                          \cup {<<reply(id), text(<<Word>>)>> : id \in 1..3} \cup {<<reply(1), reply(2)>>}}
        \cup {[segments |-> <<>>, raw |-> <<>>, own |-> FALSE],
              [segments |-> <<text(<<Word>>)>>, raw |-> <<Word>>, own |-> TRUE]}

\* Telegram: single messages and albums whose parts may arrive in any order.
MCAlbums ==
    LET piece(id, text, media, replyTo) == [id |-> id, text |-> text, media |-> media, replyTo |-> replyTo]
        single(text, replyTo) == {piece(10, text, FALSE, replyTo)}
    IN  {[album |-> a] :
            a \in {single(t, 0) : t \in {<<>>, <<Word, Command("me")>>, <<Mention("other"), Command("none")>>,
                                         <<Mention("me"), Word, Command("none")>>, <<Command("other")>>}}
                  \cup {single(<<Word>>, id) : id \in 1..3}
                  \cup {{piece(10, <<>>, TRUE, 0), piece(11, <<Mention("me")>>, TRUE, 2)}}}

MCMessages == MCSegments \cup MCAlbums

\* One call of each kind the tools and the dispatcher tell apart.
MCCalls ==
    LET call(tool) == [tool |-> tool, valid |-> TRUE]
        targeted(tool, a) == [tool |-> tool, valid |-> TRUE, target |-> a]
    IN  {call("send"), call("edit"), call("cron_create"), call("no_reply"), [tool |-> "reply", valid |-> FALSE],
         targeted("send_message", u1), targeted("send_message", u2), targeted("get_contact_detail", u2),
         [tool |-> "cron_cancel", valid |-> TRUE, cron |-> r1]}

=============================================================================
