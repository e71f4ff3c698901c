------------------------------ MODULE MCCodecs ------------------------------
EXTENDS Codecs

\* null, false, a negative number, an empty string, one with what must be
\* escaped and one of two bytes
MCScalars == {Nothing, Bool(FALSE), Number(-10), String(<<>>), String(<<34, 10, 1, 92>>), String(<<195, 164>>)}
MCKeys == {<<>>, <<97>>}
MCDamage == {34, 44, 91, 93, 123, 125, 49, 92, 32}
\* the borders of the lengths of UTF-8 and of the halves of UTF-16, and halves
MCCharacters == {65, 127, 128, 2047, 2048, 55295, 55296, 56319, 56320, 57343, 57344, 65535, 65536, 1114111}
\* a letter, dot, space and slash, and NUL
MCNamePieces == {<<97>>, <<46>>, <<32>>, <<47>>, <<78, 85, 76>>}
MCDevices == {<<110, 117, 108>>}
\* % + & = ? 2 B and a byte above 127
MCParamBytes == {37, 43, 38, 61, 63, 50, 66, 200}
=============================================================================
