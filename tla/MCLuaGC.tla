------------------------------ MODULE MCLuaGC ------------------------------
EXTENDS LuaGCInv

MCKind == [main |-> "thread", G |-> "table", t |-> "table", u |-> "udata", s |-> "string",
           f |-> "function", uv |-> "upval", th |-> "thread"]
MCObject == DOMAIN MCKind
MCOrder == << "f", "uv", "th", "t", "s", "G", "main", "u" >>

W(objects, keys, values, modes) == [objects |-> objects, keys |-> keys, values |-> values, modes |-> modes]

W1 == {W({"t", "u"}, {"udata"}, {"table", "udata"}, {{}, {"value"}})}
W2 == {W({"t", "s"}, {}, {"table", "string"}, {{}, {"value"}})}
W3 == {W({"t", "f", "uv"}, {}, {"table", "function"}, {{}})}
W4 == {W({"f", "uv", "th"}, {}, {"function"}, {{}})}
W5 == {W({"t", "u"}, {"udata"}, {"udata"}, {{"key"}})}
MCWorlds == W1 \cup W2 \cup W3 \cup W4 \cup W5
=============================================================================
