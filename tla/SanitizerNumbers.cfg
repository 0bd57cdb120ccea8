SPECIFICATION SanitizerSpec
CONSTANTS
  CARD_DIGITS <- CardDigits
  PHONE_DIGITS <- PhoneDigits
  Texts <- Examples
INVARIANT
  NumbersFiltered
