----------------------------- MODULE MCConsole -----------------------------
EXTENDS Console

Pieces == {<<112, Space>>, <<Space, 118, Space>>, <<114, Space>>, <<48, NL>>, <<49, CR, NL>>,
           <<50, NL>>, <<54, Space, 51, NL>>, <<NL>>, <<113, NL>>}
LocalList == <<"f", "g">>
FixedList == <<"g", "f">>
VmList == <<"f", "g">>
=============================================================================
