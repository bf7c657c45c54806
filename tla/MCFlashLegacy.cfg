SPECIFICATION Spec
CONSTANTS
  FLASH_SIZE = 6
  FLASH_BLOCK_SIZE = 2
  ULTRA_NAND_FLASH_SIZE = 16
  BRICK_LEN = 2
  ZERO = "zero"
  ERASED = "erased"
  SIGNED = "signed"
  EnvBlock = {1}
  Offsets = {2, 5}
  Lengths = {3}
  MaxCommands = 2
  Cell <- MC_Cell
  Images <- MC_Images
  Devices <- MC_Devices
INVARIANT RecognisedLayoutOnline
