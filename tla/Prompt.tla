------------------------------- MODULE Prompt -------------------------------
(***************************************************************************)
(* Chat formatting, src/tokenizer/chat.c: a message becomes token ids, the *)
(* turn markers as ids and everything else as ordinary text.               *)
(***************************************************************************)
EXTENDS Bpe

CONSTANTS ImStart, ImEnd,   \* the texts of the two markers
          Role,             \* [system, user, assistant] the text after a marker
          NewlineText,      \* the text after the end of a turn
          NoThink           \* the empty think block

NoChat == [family |-> "none"]

\* eng_chat_detect.  template is "absent", "other", "chatml" or "thinking",
\* a ChatML template with an enable_thinking branch.  Both markers must be
\* tokens.
Detect(tk, template) ==
    LET s == VocabId(tk, ImStart)
        e == VocabId(tk, ImEnd)
    IN  IF template \in {"chatml", "thinking"} /\ s # Absent /\ e # Absent
        THEN [family |-> "chatml", im_start |-> s, im_end |-> e,
              supports_think |-> template = "thinking"]
        ELSE NoChat

\* What is appended, in order: markers by id, texts.  An empty system
\* message adds no turn.
Turn(chat, role, text) ==
    <<[id |-> chat.im_start], [text |-> role], [text |-> text], [id |-> chat.im_end],
      [text |-> NewlineText]>>
Parts(chat, system, user, think) ==
    (IF system = <<>> THEN <<>> ELSE Turn(chat, Role.system, system))
    \o Turn(chat, Role.user, user)
    \o <<[id |-> chat.im_start], [text |-> Role.assistant]>>
    \o (IF ~think /\ chat.supports_think THEN <<[text |-> NoThink]>> ELSE <<>>)

\* put_id and put_text.
PutPart(tk, r, p, cap) ==
    IF ~r.ok \/ ("id" \in DOMAIN p /\ Len(r.ids) >= cap) THEN Failed
    ELSE IF "id" \in DOMAIN p THEN [r EXCEPT !.ids = Append(@, p.id)]
    ELSE EncodeFrom(tk, p.text, 1, r, cap, FALSE)

\* eng_chat_build.
Build(tk, chat, system, user, think, cap) ==
    IF chat = NoChat THEN Failed
    ELSE FoldLeft(LAMBDA r, p : PutPart(tk, r, p, cap), [ok |-> TRUE, ids |-> <<>>],
                  Parts(chat, system, user, think))
=============================================================================
