-------------------------------- MODULE Inbound --------------------------------
(***************************************************************************)
(* From a platform's message to an event and to whether it wakes the bot:    *)
(* what the plugins read of a message (src/channels/napcat.ts, telegram.ts),  *)
(* which messages of the bot they remember to know replies to it             *)
(* (recent-bot-message-ids.ts), which events they pass on in a group, and    *)
(* which are commands (src/command-parsing.ts).                             *)
(*                                                                         *)
(* A text is a sequence of lines of tokens; the message ids of each chat     *)
(* count from 1.  One plugin runs; it remembers MaxTrackedIds of the last    *)
(* messages in each of MaxTrackedChats chats.  Bounds: Messages, MaxSent.   *)
(***************************************************************************)
EXTENDS Naturals, Sequences, SequencesExt, FiniteSets

CONSTANTS
    Chats,
    Messages,         \* what users send: [segments] of NapCat, albums of Telegram
    MaxTrackedChats,
    MaxTrackedIds,
    MaxSent

VARIABLES
    platform,
    groupTrigger,  \* "all" or "mention"
    idsByChat,     \* <<chat, ids>>, the chat noted last at the end
    counter,       \* [chat]: messages sent to it so far
    said,          \* what was noted, in order
    heard          \* what the last message came to

inboundVars == <<platform, groupTrigger, idsByChat, counter, said, heard>>

Silence == [kind |-> "none"]

Init ==
    /\ platform \in {"napcat", "telegram"}
    /\ groupTrigger \in {"all", "mention"}
    /\ idsByChat = <<>>
    /\ counter = [c \in Chats |-> 0]
    /\ said = <<>>
    /\ heard = Silence

(* ------------------------------------------------------------------------ *)
(* The bot's own messages *)

\* A chat is at one place at most.
placesOf(chat) == {i \in DOMAIN idsByChat : idsByChat[i][1] = chat}
placeOf(chat) == CHOOSE i \in placesOf(chat) : TRUE

idsOf(chat) == IF placesOf(chat) = {} THEN <<>> ELSE idsByChat[placeOf(chat)][2]

lastOf(s, n) == SubSeq(s, IF Len(s) > n THEN Len(s) - n + 1 ELSE 1, Len(s))

Mut_note(chat, refs) ==
    LET entry == <<chat, lastOf(idsOf(chat) \o refs, MaxTrackedIds)>>
    IN  IF placesOf(chat) # {} THEN [idsByChat EXCEPT ![placeOf(chat)] = entry]
        ELSE lastOf(Append(idsByChat, entry), MaxTrackedChats)

\* The chat becomes the last one; the oldest chat is forgotten.
note(chat, refs) ==
    LET others == IF placesOf(chat) = {} THEN idsByChat ELSE RemoveAt(idsByChat, placeOf(chat))
    IN  lastOf(Append(others, <<chat, lastOf(idsOf(chat) \o refs, MaxTrackedIds)>>), MaxTrackedChats)

isReplyToBot(chat, replyTo) == replyTo # 0 /\ replyTo \in ToSet(idsOf(chat))

\* Each attachment is a message of its own; when one fails the earlier ones
\* were sent and are not noted.
sendPayload(chat, parts, failed) ==
    /\ FoldFunction(+, 0, counter) + parts <= MaxSent
    /\ LET refs == [i \in 1..parts |-> counter[chat] + i]
       IN  /\ counter' = [counter EXCEPT ![chat] = @ + parts]
           /\ IF failed THEN UNCHANGED <<idsByChat, said>>
              ELSE /\ idsByChat' = note(chat, refs)
                   /\ said' = said \o [i \in 1..parts |-> <<chat, refs[i]>>]
    /\ heard' = Silence
    /\ UNCHANGED <<platform, groupTrigger>>

(* ------------------------------------------------------------------------ *)
(* Messages to events *)

Nothing == [kind |-> "nothing"]

\* NapCat: text segments become lines, a reply and mentions are segments; a
\* message without any block is kept for its raw text.
buildMessageMetadata(message) ==
    LET of(type) == SelectSeq(message.segments, LAMBDA s : s.type = type)
        replies == of("reply")
        lines == [i \in DOMAIN of("text") |-> of("text")[i].tokens]
    IN  [text |-> lines, media |-> Len(of("image")) + Len(of("file")),
         mentions |-> {of("at")[i].who : i \in DOMAIN of("at")},
         replyTo |-> IF replies = <<>> THEN 0 ELSE Last(replies).id]

mapNapcatMessageToEvent(message) ==
    LET found == buildMessageMetadata(message)
        bare == found.text = <<>> /\ found.media = 0
    IN  IF message.own \/ (bare /\ message.raw = <<>>) THEN Nothing
        ELSE [found EXCEPT !.text = IF bare THEN <<message.raw>> ELSE @]

mentionsIn(line) ==
    {who \in {"me", "other"} : \E token \in ToSet(line) : token.at = who}

\* Telegram: the parts of an album by their ids, a single message being an
\* album of one; mentions are read from the texts.
mapTelegramMediaGroupToEvent(album) ==
    LET sorted == SetToSortSeq(album, LAMBDA p, q : p.id < q.id)
        texts == SelectSeq(sorted, LAMBDA p : p.text # <<>>)
        replies == SelectSeq(sorted, LAMBDA p : p.replyTo # 0)
        media == {p \in album : p.media}
    IN  IF texts = <<>> /\ media = {} THEN Nothing
        ELSE [text |-> [i \in DOMAIN texts |-> texts[i].text], media |-> Cardinality(media),
              mentions |-> UNION {mentionsIn(p.text) : p \in album},
              replyTo |-> IF replies = <<>> THEN 0 ELSE replies[1].replyTo]

mapMessage(message) ==
    IF platform = "napcat" THEN mapNapcatMessageToEvent(message)
                           ELSE mapTelegramMediaGroupToEvent(message.album)

(* ------------------------------------------------------------------------ *)
(* Triggers and commands *)

isExplicitlyAddressedEvent(event, replies) == event.mentions # {} \/ replies

shouldProcessEvent(event, chatKind, replies) ==
    \/ chatKind = "dm"
    \/ groupTrigger = "all"
    \/ replies
    \/ isExplicitlyAddressedEvent(event, replies) /\ "me" \in event.mentions

\* The first command on the first line, when only mentions stand before it;
\* the name after its @ is not looked at.
parseAddressedSlashCommand(event) ==
    LET line == IF event.text = <<>> THEN <<>> ELSE Head(event.text)
        commands == {i \in DOMAIN line : line[i].kind = "command"}
    IN  /\ commands # {}
        /\ LET first == CHOOSE i \in commands : \A j \in commands : i <= j
           IN  \A i \in 1..(first - 1) : line[i].kind = "mention"

Receive(chat, chatKind, message) ==
    /\ heard = Silence
    /\ (platform = "napcat") = ("segments" \in DOMAIN message)
    /\ LET event == mapMessage(message)
           replies == isReplyToBot(chat, event.replyTo)
       IN  heard' = IF event = Nothing THEN Nothing
                    ELSE [kind |-> chatKind, chat |-> chat, event |-> event,
                          command |-> parseAddressedSlashCommand(event),
                          wakes |-> shouldProcessEvent(event, chatKind, replies)]
    /\ UNCHANGED <<platform, groupTrigger, idsByChat, counter, said>>

Next ==
    \/ \E chat \in Chats, parts \in 1..2, failed \in BOOLEAN : sendPayload(chat, parts, failed)
    \/ \E chat \in Chats, chatKind \in {"dm", "group"}, message \in Messages : Receive(chat, chatKind, message)

Spec == Init /\ [][Next]_inboundVars

=============================================================================
