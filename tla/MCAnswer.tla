------------------------------- MODULE MCAnswer -------------------------------
(***************************************************************************)
(* Bodies: as the API sends them, and as the parser must also survive them.*)
(***************************************************************************)
EXTENDS Answer

E(type, data) == <<"event:", type, NewLine, "data:">> \o data \o <<Brace, NewLine, NewLine>>

Tool(id) == E("content_block_start", <<id>>)
Json(part) == E("content_block_delta", <<"input_json_delta", part>>)
Stop == E("content_block_stop", <<"index">>)

TwoTools == Tool("tool 1") \o Json("a") \o Stop \o Tool("tool 2") \o Json("b") \o Stop

(* A character of two bytes, comments, \r\n, an error in between.          *)
TextAndError ==
  <<"event:", "content_block_delta", Return, NewLine, ":", NewLine,
    "data:", "text_delta", "a", Lead, Trail, Brace, Return, NewLine, Return, NewLine>>
  \o Stop \o E("error", <<"message">>) \o E("message_delta", <<"usage">>)

(* Data in two lines, an event without data, input and a stop outside of a *)
(* tool use.                                                               *)
OddLines ==
  Json("z") \o Stop \o <<NewLine, "data:", "text_delta", Brace, NewLine, NewLine>>
  \o <<"event:", "content_block_delta", NewLine, "data:", "thinking_delta", NewLine,
       "data:", "a", Brace, NewLine, NewLine>>

(* Input in two parts, data that is not JSON, a start that is not stopped.  *)
OddTools ==
  Tool("tool 1") \o Json("c") \o Json("d") \o E("content_block_stop", <<"not JSON">>)
  \o Tool("tool 2") \o Stop

(* Thinking, its first line in two parts, and text of two lines.           *)
Thoughtful ==
  E("content_block_delta", <<"thinking_delta", "t">>)
  \o E("content_block_delta", <<"thinking_delta", LineBreak, "t">>)
  \o E("content_block_delta", <<"text_delta", "a", LineBreak, "b">>)
  \o E("content_block_delta", <<"text_delta", "c">>)

MCBodies == {TwoTools, TextAndError, OddLines, OddTools, Thoughtful}
=============================================================================
