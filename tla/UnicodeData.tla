---------------------------- MODULE UnicodeData ----------------------------
(***************************************************************************)
(* The table of utils/src/unicode-data.cpp: the ranges of code points that  *)
(* are letters and those that are numbers, area by area.  A range of the    *)
(* table goes from its first code point to the one before the next range;   *)
(* neighbours of one class are put together, and the classes no scanner asks*)
(* for (undefined, separator, mark, punctuation, symbol, control) are left  *)
(* out.                                                                     *)
(***************************************************************************)
EXTENDS Integers

MAX_CODEPOINTS == \h110000

\* Latin, Greek, Cyrillic, Armenian.
European ==
  [LETTER |-> UNION {
     \h41..\h5A, \h61..\h7A, \hC0..\hD6, \hD8..\hF6, \hF8..\h2C1,
     \h2C6..\h2D1, \h2E0..\h2E4, \h370..\h374, \h376..\h377, \h37A..\h37D,
     \h388..\h38A, \h38E..\h3A1, \h3A3..\h3F5, \h3F7..\h481, \h48A..\h52F,
     \h531..\h556, \h560..\h588, {\hAA, \hB5, \hBA, \h2EC, \h2EE, \h37F,
     \h386, \h38C, \h559}},
   NUMBER |-> UNION {\h30..\h39, \hB2..\hB3, \hBC..\hBE, {\hB9}}]

\* Hebrew to Arabic Extended-A.
MiddleEastern ==
  [LETTER |-> UNION {
     \h5D0..\h5EA, \h5EF..\h5F2, \h620..\h64A, \h66E..\h66F, \h671..\h6D3,
     \h6E5..\h6E6, \h6EE..\h6EF, \h6FA..\h6FC, \h712..\h72F, \h74D..\h7A5,
     \h7CA..\h7EA, \h7F4..\h7F5, \h800..\h815, \h840..\h858, \h860..\h86A,
     \h870..\h887, \h889..\h88E, \h8A0..\h8C9, {\h6D5, \h6FF, \h710, \h7B1,
     \h7FA, \h81A, \h824, \h828}},
   NUMBER |-> UNION {\h660..\h669, \h6F0..\h6F9, \h7C0..\h7C9}]

\* Devanagari, Bengali, Gurmukhi, Gujarati.
NorthIndic ==
  [LETTER |-> UNION {
     \h904..\h939, \h958..\h961, \h971..\h980, \h985..\h98C, \h98F..\h990,
     \h993..\h9A8, \h9AA..\h9B0, \h9B6..\h9B9, \h9DC..\h9DD, \h9DF..\h9E1,
     \h9F0..\h9F1, \hA05..\hA0A, \hA0F..\hA10, \hA13..\hA28, \hA2A..\hA30,
     \hA32..\hA33, \hA35..\hA36, \hA38..\hA39, \hA59..\hA5C, \hA72..\hA74,
     \hA85..\hA8D, \hA8F..\hA91, \hA93..\hAA8, \hAAA..\hAB0, \hAB2..\hAB3,
     \hAB5..\hAB9, \hAE0..\hAE1, {\h93D, \h950, \h9B2, \h9BD, \h9CE, \h9FC,
     \hA5E, \hABD, \hAD0, \hAF9}},
   NUMBER |-> UNION {
     \h966..\h96F, \h9E6..\h9EF, \h9F4..\h9F9, \hA66..\hA6F, \hAE6..\hAEF}]

\* Oriya, Tamil, Telugu, Kannada.
SouthIndic ==
  [LETTER |-> UNION {
     \hB05..\hB0C, \hB0F..\hB10, \hB13..\hB28, \hB2A..\hB30, \hB32..\hB33,
     \hB35..\hB39, \hB5C..\hB5D, \hB5F..\hB61, \hB85..\hB8A, \hB8E..\hB90,
     \hB92..\hB95, \hB99..\hB9A, \hB9E..\hB9F, \hBA3..\hBA4, \hBA8..\hBAA,
     \hBAE..\hBB9, \hC05..\hC0C, \hC0E..\hC10, \hC12..\hC28, \hC2A..\hC39,
     \hC58..\hC5A, \hC60..\hC61, \hC85..\hC8C, \hC8E..\hC90, \hC92..\hCA8,
     \hCAA..\hCB3, \hCB5..\hCB9, \hCDD..\hCDE, \hCE0..\hCE1, \hCF1..\hCF2,
     {\hB3D, \hB71, \hB83, \hB9C, \hBD0, \hC3D, \hC5D, \hC80, \hCBD}},
   NUMBER |-> UNION {
     \hB66..\hB6F, \hB72..\hB77, \hBE6..\hBF2, \hC66..\hC6F, \hC78..\hC7E,
     \hCE6..\hCEF}]

\* Malayalam, Sinhala, Thai, Lao, Tibetan.
MalayalamToTibetan ==
  [LETTER |-> UNION {
     \hD04..\hD0C, \hD0E..\hD10, \hD12..\hD3A, \hD54..\hD56, \hD5F..\hD61,
     \hD7A..\hD7F, \hD85..\hD96, \hD9A..\hDB1, \hDB3..\hDBB, \hDC0..\hDC6,
     \hE01..\hE30, \hE32..\hE33, \hE40..\hE46, \hE81..\hE82, \hE86..\hE8A,
     \hE8C..\hEA3, \hEA7..\hEB0, \hEB2..\hEB3, \hEC0..\hEC4, \hEDC..\hEDF,
     \hF40..\hF47, \hF49..\hF6C, \hF88..\hF8C, {\hD3D, \hD4E, \hDBD, \hE84,
     \hEA5, \hEBD, \hEC6, \hF00}},
   NUMBER |-> UNION {
     \hD58..\hD5E, \hD66..\hD78, \hDE6..\hDEF, \hE50..\hE59, \hED0..\hED9,
     \hF20..\hF33}]

\* Myanmar to Unified Canadian Aboriginal Syllabics Extended.
MyanmarToMongolian ==
  [LETTER |-> UNION {
     \h1000..\h102A, \h1050..\h1055, \h105A..\h105D, \h1065..\h1066,
     \h106E..\h1070, \h1075..\h1081, \h10A0..\h10C5, \h10D0..\h10FA,
     \h10FC..\h1248, \h124A..\h124D, \h1250..\h1256, \h125A..\h125D,
     \h1260..\h1288, \h128A..\h128D, \h1290..\h12B0, \h12B2..\h12B5,
     \h12B8..\h12BE, \h12C2..\h12C5, \h12C8..\h12D6, \h12D8..\h1310,
     \h1312..\h1315, \h1318..\h135A, \h1380..\h138F, \h13A0..\h13F5,
     \h13F8..\h13FD, \h1401..\h166C, \h166F..\h167F, \h1681..\h169A,
     \h16A0..\h16EA, \h16F1..\h16F8, \h1700..\h1711, \h171F..\h1731,
     \h1740..\h1751, \h1760..\h176C, \h176E..\h1770, \h1780..\h17B3,
     \h1820..\h1878, \h1880..\h1884, \h1887..\h18A8, \h18B0..\h18F5, {\h103F,
     \h1061, \h108E, \h10C7, \h10CD, \h1258, \h12C0, \h17D7, \h17DC, \h18AA}},
   NUMBER |-> UNION {
     \h1040..\h1049, \h1090..\h1099, \h1369..\h137C, \h16EE..\h16F0,
     \h17E0..\h17E9, \h17F0..\h17F9, \h1810..\h1819}]

\* Limbu to Greek Extended.
LimbuToGreek ==
  [LETTER |-> UNION {
     \h1900..\h191E, \h1950..\h196D, \h1970..\h1974, \h1980..\h19AB,
     \h19B0..\h19C9, \h1A00..\h1A16, \h1A20..\h1A54, \h1B05..\h1B33,
     \h1B45..\h1B4C, \h1B83..\h1BA0, \h1BAE..\h1BAF, \h1BBA..\h1BE5,
     \h1C00..\h1C23, \h1C4D..\h1C4F, \h1C5A..\h1C7D, \h1C80..\h1C88,
     \h1C90..\h1CBA, \h1CBD..\h1CBF, \h1CE9..\h1CEC, \h1CEE..\h1CF3,
     \h1CF5..\h1CF6, \h1D00..\h1DBF, \h1E00..\h1F15, \h1F18..\h1F1D,
     \h1F20..\h1F45, \h1F48..\h1F4D, \h1F50..\h1F57, \h1F5F..\h1F7D,
     \h1F80..\h1FB4, \h1FB6..\h1FBC, \h1FC2..\h1FC4, \h1FC6..\h1FCC,
     \h1FD0..\h1FD3, \h1FD6..\h1FDB, \h1FE0..\h1FEC, \h1FF2..\h1FF4,
     \h1FF6..\h1FFC, {\h1AA7, \h1CFA, \h1F59, \h1F5B, \h1F5D, \h1FBE}},
   NUMBER |-> UNION {
     \h1946..\h194F, \h19D0..\h19DA, \h1A80..\h1A89, \h1A90..\h1A99,
     \h1B50..\h1B59, \h1BB0..\h1BB9, \h1C40..\h1C49, \h1C50..\h1C59}]

\* General Punctuation to Miscellaneous Symbols and Arrows.
Symbols ==
  [LETTER |-> UNION {
     \h2090..\h209C, \h210A..\h2113, \h2119..\h211D, \h212A..\h212D,
     \h212F..\h2139, \h213C..\h213F, \h2145..\h2149, \h2183..\h2184, {\h2071,
     \h207F, \h2102, \h2107, \h2115, \h2124, \h2126, \h2128, \h214E}},
   NUMBER |-> UNION {
     \h2074..\h2079, \h2080..\h2089, \h2150..\h2182, \h2185..\h2189,
     \h2460..\h249B, \h24EA..\h24FF, \h2776..\h2793, {\h2070}}]

\* Glagolitic to Latin Extended-D, the CJK ideographs among them.
EastAsian ==
  [LETTER |-> UNION {
     \h2C00..\h2CE4, \h2CEB..\h2CEE, \h2CF2..\h2CF3, \h2D00..\h2D25,
     \h2D30..\h2D67, \h2D80..\h2D96, \h2DA0..\h2DA6, \h2DA8..\h2DAE,
     \h2DB0..\h2DB6, \h2DB8..\h2DBE, \h2DC0..\h2DC6, \h2DC8..\h2DCE,
     \h2DD0..\h2DD6, \h2DD8..\h2DDE, \h3005..\h3006, \h3031..\h3035,
     \h303B..\h303C, \h3041..\h3096, \h309D..\h309F, \h30A1..\h30FA,
     \h30FC..\h30FF, \h3105..\h312F, \h3131..\h318E, \h31A0..\h31BF,
     \h31F0..\h31FF, \h3400..\h4DBF, \h4E00..\hA48C, \hA4D0..\hA4FD,
     \hA500..\hA60C, \hA610..\hA61F, \hA62A..\hA62B, \hA640..\hA66E,
     \hA67F..\hA69D, \hA6A0..\hA6E5, \hA717..\hA71F, \hA722..\hA788,
     \hA78B..\hA7CA, \hA7D0..\hA7D1, \hA7D5..\hA7D9, \hA7F2..\hA801, {\h2D27,
     \h2D2D, \h2D6F, \h2E2F, \hA7D3}},
   NUMBER |-> UNION {
     \h3021..\h3029, \h3038..\h303A, \h3192..\h3195, \h3220..\h3229,
     \h3248..\h324F, \h3251..\h325F, \h3280..\h3289, \h32B1..\h32BF,
     \hA620..\hA629, \hA6E6..\hA6EF, {\h2CFD, \h3007}}]

\* Syloti Nagri to Hangul and the private use area.
SylotiToHangul ==
  [LETTER |-> UNION {
     \hA803..\hA805, \hA807..\hA80A, \hA80C..\hA822, \hA840..\hA873,
     \hA882..\hA8B3, \hA8F2..\hA8F7, \hA8FD..\hA8FE, \hA90A..\hA925,
     \hA930..\hA946, \hA960..\hA97C, \hA984..\hA9B2, \hA9E0..\hA9E4,
     \hA9E6..\hA9EF, \hA9FA..\hA9FE, \hAA00..\hAA28, \hAA40..\hAA42,
     \hAA44..\hAA4B, \hAA60..\hAA76, \hAA7E..\hAAAF, \hAAB5..\hAAB6,
     \hAAB9..\hAABD, \hAADB..\hAADD, \hAAE0..\hAAEA, \hAAF2..\hAAF4,
     \hAB01..\hAB06, \hAB09..\hAB0E, \hAB11..\hAB16, \hAB20..\hAB26,
     \hAB28..\hAB2E, \hAB30..\hAB5A, \hAB5C..\hAB69, \hAB70..\hABE2,
     \hAC00..\hD7A3, \hD7B0..\hD7C6, \hD7CB..\hD7FB, {\hA8FB, \hA9CF, \hAA7A,
     \hAAB1, \hAAC0, \hAAC2}},
   NUMBER |-> UNION {
     \hA830..\hA835, \hA8D0..\hA8D9, \hA900..\hA909, \hA9D0..\hA9D9,
     \hA9F0..\hA9F9, \hAA50..\hAA59, \hABF0..\hABF9}]

\* Compatibility Ideographs to Specials.
Compatibility ==
  [LETTER |-> UNION {
     \hF900..\hFA6D, \hFA70..\hFAD9, \hFB00..\hFB06, \hFB13..\hFB17,
     \hFB1F..\hFB28, \hFB2A..\hFB36, \hFB38..\hFB3C, \hFB40..\hFB41,
     \hFB43..\hFB44, \hFB46..\hFBB1, \hFBD3..\hFD3D, \hFD50..\hFD8F,
     \hFD92..\hFDC7, \hFDF0..\hFDFB, \hFE70..\hFE74, \hFE76..\hFEFC,
     \hFF21..\hFF3A, \hFF41..\hFF5A, \hFF66..\hFFBE, \hFFC2..\hFFC7,
     \hFFCA..\hFFCF, \hFFD2..\hFFD7, \hFFDA..\hFFDC, {\hFB1D, \hFB3E}},
   NUMBER |-> \hFF10..\hFF19]

\* Linear B to Latin Extended-F.
LinearBToLatin ==
  [LETTER |-> UNION {
     \h10000..\h1000B, \h1000D..\h10026, \h10028..\h1003A, \h1003C..\h1003D,
     \h1003F..\h1004D, \h10050..\h1005D, \h10080..\h100FA, \h10280..\h1029C,
     \h102A0..\h102D0, \h10300..\h1031F, \h1032D..\h10340, \h10342..\h10349,
     \h10350..\h10375, \h10380..\h1039D, \h103A0..\h103C3, \h103C8..\h103CF,
     \h10400..\h1049D, \h104B0..\h104D3, \h104D8..\h104FB, \h10500..\h10527,
     \h10530..\h10563, \h10570..\h1057A, \h1057C..\h1058A, \h1058C..\h10592,
     \h10594..\h10595, \h10597..\h105A1, \h105A3..\h105B1, \h105B3..\h105B9,
     \h105BB..\h105BC, \h10600..\h10736, \h10740..\h10755, \h10760..\h10767,
     \h10780..\h10785, \h10787..\h107B0, \h107B2..\h107BA},
   NUMBER |-> UNION {
     \h10107..\h10133, \h10140..\h10178, \h1018A..\h1018B, \h102E1..\h102FB,
     \h10320..\h10323, \h103D1..\h103D5, \h104A0..\h104A9, {\h10341, \h1034A}}]

\* Cypriot Syllabary to Elymaic.
CypriotToElymaic ==
  [LETTER |-> UNION {
     \h10800..\h10805, \h1080A..\h10835, \h10837..\h10838, \h1083F..\h10855,
     \h10860..\h10876, \h10880..\h1089E, \h108E0..\h108F2, \h108F4..\h108F5,
     \h10900..\h10915, \h10920..\h10939, \h10980..\h109B7, \h109BE..\h109BF,
     \h10A10..\h10A13, \h10A15..\h10A17, \h10A19..\h10A35, \h10A60..\h10A7C,
     \h10A80..\h10A9C, \h10AC0..\h10AC7, \h10AC9..\h10AE4, \h10B00..\h10B35,
     \h10B40..\h10B55, \h10B60..\h10B72, \h10B80..\h10B91, \h10C00..\h10C48,
     \h10C80..\h10CB2, \h10CC0..\h10CF2, \h10D00..\h10D23, \h10E80..\h10EA9,
     \h10EB0..\h10EB1, \h10F00..\h10F1C, \h10F30..\h10F45, \h10F70..\h10F81,
     \h10FB0..\h10FC4, \h10FE0..\h10FF6, {\h10808, \h1083C, \h10A00, \h10F27}},
   NUMBER |-> UNION {
     \h10858..\h1085F, \h10879..\h1087F, \h108A7..\h108AF, \h108FB..\h108FF,
     \h10916..\h1091B, \h109BC..\h109BD, \h109C0..\h109CF, \h109D2..\h109FF,
     \h10A40..\h10A48, \h10A7D..\h10A7E, \h10A9D..\h10A9F, \h10AEB..\h10AEF,
     \h10B58..\h10B5F, \h10B78..\h10B7F, \h10BA9..\h10BAF, \h10CFA..\h10CFF,
     \h10D30..\h10D39, \h10E60..\h10E7E, \h10F1D..\h10F26, \h10F51..\h10F54,
     \h10FC5..\h10FCB}]

\* Brahmi to Grantha.
BrahmiToGrantha ==
  [LETTER |-> UNION {
     \h11003..\h11037, \h11071..\h11072, \h11083..\h110AF, \h110D0..\h110E8,
     \h11103..\h11126, \h11150..\h11172, \h11183..\h111B2, \h111C1..\h111C4,
     \h11200..\h11211, \h11213..\h1122B, \h1123F..\h11240, \h11280..\h11286,
     \h1128A..\h1128D, \h1128F..\h1129D, \h1129F..\h112A8, \h112B0..\h112DE,
     \h11305..\h1130C, \h1130F..\h11310, \h11313..\h11328, \h1132A..\h11330,
     \h11332..\h11333, \h11335..\h11339, \h1135D..\h11361, {\h11075, \h11144,
     \h11147, \h11176, \h111DA, \h111DC, \h11288, \h1133D, \h11350}},
   NUMBER |-> UNION {
     \h11052..\h1106F, \h110F0..\h110F9, \h11136..\h1113F, \h111D0..\h111D9,
     \h111E1..\h111F4, \h112F0..\h112F9}]

\* Newa to Pau Cin Hau.
NewaToPauCinHau ==
  [LETTER |-> UNION {
     \h11400..\h11434, \h11447..\h1144A, \h1145F..\h11461, \h11480..\h114AF,
     \h114C4..\h114C5, \h11580..\h115AE, \h115D8..\h115DB, \h11600..\h1162F,
     \h11680..\h116AA, \h11700..\h1171A, \h11740..\h11746, \h11800..\h1182B,
     \h118A0..\h118DF, \h118FF..\h11906, \h1190C..\h11913, \h11915..\h11916,
     \h11918..\h1192F, \h119A0..\h119A7, \h119AA..\h119D0, \h11A0B..\h11A32,
     \h11A5C..\h11A89, \h11AB0..\h11AF8, {\h114C7, \h11644, \h116B8, \h11909,
     \h1193F, \h11941, \h119E1, \h119E3, \h11A00, \h11A3A, \h11A50, \h11A9D}},
   NUMBER |-> UNION {
     \h11450..\h11459, \h114D0..\h114D9, \h11650..\h11659, \h116C0..\h116C9,
     \h11730..\h1173B, \h118E0..\h118F2, \h11950..\h11959}]

\* Bhaiksuki to Anatolian Hieroglyphs.
BhaiksukiToHieroglyphs ==
  [LETTER |-> UNION {
     \h11C00..\h11C08, \h11C0A..\h11C2E, \h11C72..\h11C8F, \h11D00..\h11D06,
     \h11D08..\h11D09, \h11D0B..\h11D30, \h11D60..\h11D65, \h11D67..\h11D68,
     \h11D6A..\h11D89, \h11EE0..\h11EF2, \h11F04..\h11F10, \h11F12..\h11F33,
     \h12000..\h12399, \h12480..\h12543, \h12F90..\h12FF0, \h13000..\h1342F,
     \h13441..\h13446, \h14400..\h14646, {\h11C40, \h11D46, \h11D98, \h11F02,
     \h11FB0}},
   NUMBER |-> UNION {
     \h11C50..\h11C6C, \h11D50..\h11D59, \h11DA0..\h11DA9, \h11F50..\h11F59,
     \h11FC0..\h11FD4, \h12400..\h1246E}]

\* Bamum Supplement to Counting Rod Numerals.
BamumToNumerals ==
  [LETTER |-> UNION {
     \h16800..\h16A38, \h16A40..\h16A5E, \h16A70..\h16ABE, \h16AD0..\h16AED,
     \h16B00..\h16B2F, \h16B40..\h16B43, \h16B63..\h16B77, \h16B7D..\h16B8F,
     \h16E40..\h16E7F, \h16F00..\h16F4A, \h16F93..\h16F9F, \h16FE0..\h16FE1,
     \h17000..\h187F7, \h18800..\h18CD5, \h18D00..\h18D08, \h1AFF0..\h1AFF3,
     \h1AFF5..\h1AFFB, \h1AFFD..\h1AFFE, \h1B000..\h1B122, \h1B150..\h1B152,
     \h1B164..\h1B167, \h1B170..\h1B2FB, \h1BC00..\h1BC6A, \h1BC70..\h1BC7C,
     \h1BC80..\h1BC88, \h1BC90..\h1BC99, {\h16F50, \h16FE3, \h1B132, \h1B155}},
   NUMBER |-> UNION {
     \h16A60..\h16A69, \h16AC0..\h16AC9, \h16B50..\h16B59, \h16B5B..\h16B61,
     \h16E80..\h16E96, \h1D2C0..\h1D2D3, \h1D2E0..\h1D2F3, \h1D360..\h1D378}]

\* Mathematical Alphanumeric Symbols to Sutton SignWriting.
MathematicalToSignWriting ==
  [LETTER |-> UNION {
     \h1D400..\h1D454, \h1D456..\h1D49C, \h1D49E..\h1D49F, \h1D4A5..\h1D4A6,
     \h1D4A9..\h1D4AC, \h1D4AE..\h1D4B9, \h1D4BD..\h1D4C3, \h1D4C5..\h1D505,
     \h1D507..\h1D50A, \h1D50D..\h1D514, \h1D516..\h1D51C, \h1D51E..\h1D539,
     \h1D53B..\h1D53E, \h1D540..\h1D544, \h1D54A..\h1D550, \h1D552..\h1D6A5,
     \h1D6A8..\h1D6C0, \h1D6C2..\h1D6DA, \h1D6DC..\h1D6FA, \h1D6FC..\h1D714,
     \h1D716..\h1D734, \h1D736..\h1D74E, \h1D750..\h1D76E, \h1D770..\h1D788,
     \h1D78A..\h1D7A8, \h1D7AA..\h1D7C2, \h1D7C4..\h1D7CB, \h1DF00..\h1DF1E,
     \h1DF25..\h1DF2A, {\h1D4A2, \h1D4BB, \h1D546}},
   NUMBER |-> \h1D7CE..\h1D7FF]

\* Glagolitic Supplement to Arabic Mathematical Symbols.
GlagoliticToArabic ==
  [LETTER |-> UNION {
     \h1E030..\h1E06D, \h1E100..\h1E12C, \h1E137..\h1E13D, \h1E290..\h1E2AD,
     \h1E2C0..\h1E2EB, \h1E4D0..\h1E4EB, \h1E7E0..\h1E7E6, \h1E7E8..\h1E7EB,
     \h1E7ED..\h1E7EE, \h1E7F0..\h1E7FE, \h1E800..\h1E8C4, \h1E900..\h1E943,
     \h1EE00..\h1EE03, \h1EE05..\h1EE1F, \h1EE21..\h1EE22, \h1EE29..\h1EE32,
     \h1EE34..\h1EE37, \h1EE4D..\h1EE4F, \h1EE51..\h1EE52, \h1EE61..\h1EE62,
     \h1EE67..\h1EE6A, \h1EE6C..\h1EE72, \h1EE74..\h1EE77, \h1EE79..\h1EE7C,
     \h1EE80..\h1EE89, \h1EE8B..\h1EE9B, \h1EEA1..\h1EEA3, \h1EEA5..\h1EEA9,
     \h1EEAB..\h1EEBB, {\h1E14E, \h1E94B, \h1EE24, \h1EE27, \h1EE39, \h1EE3B,
     \h1EE42, \h1EE47, \h1EE49, \h1EE4B, \h1EE54, \h1EE57, \h1EE59, \h1EE5B,
     \h1EE5D, \h1EE5F, \h1EE64, \h1EE7E}},
   NUMBER |-> UNION {
     \h1E140..\h1E149, \h1E2F0..\h1E2F9, \h1E4F0..\h1E4F9, \h1E8C7..\h1E8CF,
     \h1E950..\h1E959, \h1EC71..\h1ECAB, \h1ECAD..\h1ECAF, \h1ECB1..\h1ECB4,
     \h1ED01..\h1ED2D, \h1ED2F..\h1ED3D}]

\* Mahjong Tiles to the last plane.
PictographsToPlane16 ==
  [LETTER |-> UNION {
     \h20000..\h2A6DF, \h2A700..\h2B739, \h2B740..\h2B81D, \h2B820..\h2CEA1,
     \h2CEB0..\h2EBE0, \h2EBF0..\h2EE5D, \h2F800..\h2FA1D, \h30000..\h3134A,
     \h31350..\h323AF},
   NUMBER |-> UNION {\h1F100..\h1F10C, \h1FBF0..\h1FBF9}]
unicode_ranges_flags ==
  {European, MiddleEastern, NorthIndic, SouthIndic, MalayalamToTibetan,
   MyanmarToMongolian, LimbuToGreek, Symbols, EastAsian, SylotiToHangul,
   Compatibility, LinearBToLatin, CypriotToElymaic, BrahmiToGrantha,
   NewaToPauCinHau, BhaiksukiToHieroglyphs, BamumToNumerals,
   MathematicalToSignWriting, GlagoliticToArabic, PictographsToPlane16}
=============================================================================
