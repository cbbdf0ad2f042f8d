---------------------------- MODULE FieldTables ----------------------------
(***************************************************************************)
(* The tables the code carries: inverses, and the q-th powers of the       *)
(* basis of an extension, column by column.                                *)
(***************************************************************************)

Gf16InverseTab ==
  <<0, 1, 9, 14, 13, 11, 7, 6, 15, 2, 12, 5, 10, 4, 3, 8>>
Gf256InverseTab ==
  <<0, 1, 141, 246, 203, 82, 123, 209, 232, 79, 41, 192, 176, 225, 229, 199, 116, 180, 170, 75, 153, 43, 96, 95, 88,
    63, 253, 204, 255, 64, 238, 178, 58, 110, 90, 241, 85, 77, 168, 201, 193, 10, 152, 21, 48, 68, 162, 194, 44, 69,
    146, 108, 243, 57, 102, 66, 242, 53, 32, 111, 119, 187, 89, 25, 29, 254, 55, 103, 45, 49, 245, 105, 167, 100, 171,
    19, 84, 37, 233, 9, 237, 92, 5, 202, 76, 36, 135, 191, 24, 62, 34, 240, 81, 236, 97, 23, 22, 94, 175, 211, 73,
    166, 54, 67, 244, 71, 145, 223, 51, 147, 33, 59, 121, 183, 151, 133, 16, 181, 186, 60, 182, 112, 208, 6, 161, 250,
    129, 130, 131, 126, 127, 128, 150, 115, 190, 86, 155, 158, 149, 217, 247, 2, 185, 164, 222, 106, 50, 109, 216,
    138, 132, 114, 42, 20, 159, 136, 249, 220, 137, 154, 251, 124, 46, 195, 143, 184, 101, 72, 38, 200, 18, 74, 206,
    231, 210, 98, 12, 224, 31, 239, 17, 117, 120, 113, 165, 142, 118, 61, 189, 188, 134, 87, 11, 40, 47, 163, 218,
    212, 228, 15, 169, 39, 83, 4, 27, 252, 172, 230, 122, 7, 174, 99, 197, 219, 226, 234, 148, 139, 196, 213, 157,
    248, 144, 107, 177, 13, 214, 235, 198, 14, 207, 173, 8, 78, 215, 227, 93, 80, 30, 179, 91, 35, 56, 52, 104, 70, 3,
    140, 221, 156, 125, 160, 205, 26, 65, 28>>
Gf31InverseTab ==
  <<0, 1, 16, 21, 8, 25, 26, 9, 4, 7, 28, 17, 13, 12, 20, 29, 2, 11, 19, 18, 14, 3, 24, 27, 22, 5, 6, 23, 10, 15, 30>>
Gf251InverseTab ==
  <<0, 1, 126, 84, 63, 201, 42, 36, 157, 28, 226, 137, 21, 58, 18, 67, 204, 192, 14, 185, 113, 12, 194, 131, 136, 241,
    29, 93, 9, 26, 159, 81, 102, 213, 96, 208, 7, 95, 218, 103, 182, 49, 6, 216, 97, 106, 191, 235, 68, 41, 246, 64,
    140, 90, 172, 178, 130, 229, 13, 234, 205, 107, 166, 4, 51, 112, 232, 15, 48, 211, 104, 99, 129, 196, 173, 164,
    109, 163, 177, 197, 91, 31, 150, 124, 3, 189, 108, 176, 174, 110, 53, 80, 221, 27, 243, 37, 34, 44, 146, 71, 123,
    169, 32, 39, 70, 153, 45, 61, 86, 76, 89, 199, 65, 20, 240, 227, 132, 118, 117, 135, 228, 195, 179, 100, 83, 249,
    2, 168, 151, 72, 56, 23, 116, 134, 133, 119, 24, 11, 231, 186, 52, 162, 175, 165, 190, 206, 98, 181, 212, 219, 82,
    128, 180, 105, 207, 217, 214, 8, 224, 30, 171, 198, 141, 77, 75, 143, 62, 248, 127, 101, 220, 160, 54, 74, 88,
    142, 87, 78, 55, 122, 152, 147, 40, 203, 236, 19, 139, 200, 247, 85, 144, 46, 17, 238, 22, 121, 73, 79, 161, 111,
    187, 5, 210, 183, 16, 60, 145, 154, 35, 245, 202, 69, 148, 33, 156, 244, 43, 155, 38, 149, 170, 92, 225, 242, 158,
    222, 10, 115, 120, 57, 239, 138, 66, 237, 59, 47, 184, 233, 193, 230, 114, 25, 223, 94, 215, 209, 50, 188, 167,
    125, 250>>
Gf16to16Pow16 ==
  <<1, 0, 0, 0, 0, 0, 0, 0, 0, 0, 0, 0, 0, 0, 0, 0, 1, 1, 0, 0, 0, 0, 0, 0, 0, 0, 0, 0, 0, 0, 0, 0, 1, 1, 1, 0, 0, 0,
    0, 0, 0, 0, 0, 0, 0, 0, 0, 0, 9, 1, 1, 1, 0, 0, 0, 0, 0, 0, 0, 0, 0, 0, 0, 0, 11, 8, 1, 1, 1, 0, 0, 0, 0, 0, 0, 0,
    0, 0, 0, 0, 7, 11, 9, 1, 1, 1, 0, 0, 0, 0, 0, 0, 0, 0, 0, 0, 11, 11, 3, 8, 1, 1, 1, 0, 0, 0, 0, 0, 0, 0, 0, 0, 12,
    11, 15, 3, 9, 1, 1, 1, 0, 0, 0, 0, 0, 0, 0, 0, 7, 6, 12, 3, 11, 8, 1, 1, 1, 0, 0, 0, 0, 0, 0, 0, 2, 7, 7, 12, 7,
    11, 9, 1, 1, 1, 0, 0, 0, 0, 0, 0, 5, 6, 12, 9, 11, 11, 3, 8, 1, 1, 1, 0, 0, 0, 0, 0, 0, 5, 8, 12, 12, 11, 15, 3,
    9, 1, 1, 1, 0, 0, 0, 0, 5, 10, 9, 15, 3, 14, 4, 3, 11, 8, 1, 1, 1, 0, 0, 0, 10, 5, 8, 9, 10, 3, 15, 4, 7, 11, 9,
    1, 1, 1, 0, 0, 2, 0, 4, 12, 13, 14, 8, 9, 11, 11, 3, 8, 1, 1, 1, 0, 2, 2, 14, 4, 4, 13, 12, 8, 12, 11, 15, 3, 9,
    1, 1, 1>>
Gf2to96Pow256A ==
  <<1, 0, 0, 0, 1, 1, 0, 0, 0, 1, 1, 0, 32, 0, 1, 1>>
Gf2to96Pow256B ==
  <<66, 68, 242, 150, 26, 66, 175, 242, 13, 50, 237, 182, 23, 13, 220, 237>>
Gf2to96Pow256C ==
  <<196, 255, 127, 149, 22, 196, 66, 127, 51, 127, 134, 128, 74, 51, 45, 134>>
Gf2to128Pow256 ==
  <<1, 0, 0, 0, 0, 0, 0, 0, 0, 0, 0, 0, 0, 0, 0, 0, 1, 1, 0, 0, 0, 0, 0, 0, 0, 0, 0, 0, 0, 0, 0, 0, 0, 1, 1, 0, 0, 0,
    0, 0, 0, 0, 0, 0, 0, 0, 0, 0, 32, 0, 1, 1, 0, 0, 0, 0, 0, 0, 0, 0, 0, 0, 0, 0, 57, 33, 0, 1, 1, 0, 0, 0, 0, 0, 0,
    0, 0, 0, 0, 0, 117, 57, 32, 0, 1, 1, 0, 0, 0, 0, 0, 0, 0, 0, 0, 0, 32, 56, 25, 33, 0, 1, 1, 0, 0, 0, 0, 0, 0, 0,
    0, 0, 97, 32, 85, 25, 32, 0, 1, 1, 0, 0, 0, 0, 0, 0, 0, 0, 151, 182, 85, 24, 57, 33, 0, 1, 1, 0, 0, 0, 0, 0, 0, 0,
    166, 151, 120, 85, 117, 57, 32, 0, 1, 1, 0, 0, 0, 0, 0, 0, 230, 66, 239, 227, 32, 56, 25, 33, 0, 1, 1, 0, 0, 0, 0,
    0, 126, 230, 144, 239, 97, 32, 85, 25, 32, 0, 1, 1, 0, 0, 0, 0, 61, 79, 107, 33, 251, 182, 117, 24, 57, 33, 0, 1,
    1, 0, 0, 0, 30, 61, 39, 107, 202, 251, 88, 117, 117, 57, 32, 0, 1, 1, 0, 0, 96, 241, 26, 36, 230, 66, 163, 195,
    32, 56, 25, 33, 0, 1, 1, 0, 105, 96, 246, 26, 126, 230, 176, 163, 97, 32, 85, 25, 32, 0, 1, 1>>
Gf251to12Pow251A ==
  <<1, 0, 0, 0, 0, 250, 0, 0, 0, 0, 160, 171, 0, 0, 160, 91>>
Gf251to12Pow251B ==
  <<2, 32, 175, 187, 187, 249, 128, 76, 51, 195, 220, 191, 112, 200, 120, 31>>
Gf251to12Pow251C ==
  <<224, 154, 175, 56, 194, 27, 139, 76, 175, 195, 156, 194, 112, 76, 114, 95>>
Gf251to16Pow251A ==
  <<1, 0, 0, 0, 0, 250, 0, 0, 0, 0, 160, 171, 0, 0, 160, 91>>
Gf251to16Pow251B ==
  <<50, 16, 117, 191, 219, 201, 120, 134, 189, 73, 169, 66, 105, 62, 119, 82>>
Gf251to16Pow251C ==
  <<73, 248, 210, 210, 91, 80, 72, 164, 6, 178, 82, 41, 91, 160, 174, 179, 217, 234, 112, 206, 136, 238, 3, 249, 34,
    34, 90, 139, 26, 115, 4, 248, 98, 36, 170, 188, 7, 59, 17, 93, 179, 153, 126, 81, 133, 244, 65, 234, 211, 46, 131,
    179, 71, 105, 214, 95, 159, 40, 144, 120, 41, 180, 61, 37>>
=============================================================================
